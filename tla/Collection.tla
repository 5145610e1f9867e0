----------------------------- MODULE Collection -----------------------------
(***************************************************************************)
(* One collection of the current individual index: the plan that splits    *)
(* the CRD numbers into ranges below the source's result cap, and the      *)
(* downloads that fetch the ranges page by page.  Every page is kept as a  *)
(* payload file and then a manifest file, and a download that is started   *)
(* again skips the pages it finds.  The source is live: records come and   *)
(* go between any two requests.                                            *)
(*                                                                         *)
(* A file's name holds the day it was retrieved, the range, the page       *)
(* number and the digest of its content, so a file is its name here.       *)
(***************************************************************************)
EXTENDS Integers, Sequences, FiniteSets, FiniteSetsExt

CONSTANTS
    Record,             \* what the source may hold: [crd, copy]
    FirstIndexes,       \* what it may hold when the planner starts
    RESULT_CAP,         \* above it the source counts no further
    max_shard_records, page_size,
    Downloads,          \* calls of download-individuals with the plan
    LastDay, MaxDrift,  \* bounds of the days and of the source's changes
    None

ASSUME CollectionAssumption ==
    /\ Record \subseteq [crd : Nat \ {0}, copy : Nat] /\ IsFiniteSet(Record)
    /\ FirstIndexes \subseteq SUBSET Record
    /\ RESULT_CAP \in Nat /\ LastDay \in Nat \ {0} /\ MaxDrift \in Nat
    /\ max_shard_records \in 1..RESULT_CAP
    /\ page_size \in Nat \ {0}

VARIABLES
    index,                      \* what the source holds now
    planning,                   \* control of the planner
    highest, broad,             \* its first answer
    pending, shards,            \* ranges to probe; ranges accepted
    today,
    payloads, manifests,        \* page files
    completions, sealed,        \* completion payloads; days with a manifest
    pc, started, pages, held,   \* locals of a download
    first, gained, lost         \* history: the index at the plan's start, and
                                \* how it has changed since

planVars == <<planning, highest, broad, pending, shards>>
files == <<payloads, manifests, completions, sealed>>
locals == <<pc, started, pages, held>>
history == <<first, gained, lost>>
outside == <<index, planVars, today, history>>
vars == <<outside, files, locals>>

Init ==
    /\ index \in FirstIndexes
    /\ planning = "none"
    /\ highest = 0 /\ broad = [value |-> 0, exact |-> TRUE]
    /\ pending = <<>> /\ shards = {}
    /\ today = 1
    /\ payloads = {} /\ manifests = {} /\ completions = {} /\ sealed = {}
    /\ pc = [d \in Downloads |-> "idle"]
    /\ started = [d \in Downloads |-> 1]
    /\ pages = [d \in Downloads |-> {}]
    /\ held = [d \in Downloads |-> None]
    /\ first = index /\ gained = 0 /\ lost = {}

-----------------------------------------------------------------------------
(* The source: the records of a range, and its total, counted to the cap.  *)

Within(records, low, high) == {r \in records : low <= r.crd /\ r.crd <= high}

Total(records) ==
    LET n == Cardinality(records) IN
    IF n <= RESULT_CAP THEN [value |-> n, exact |-> TRUE]
    ELSE [value |-> RESULT_CAP, exact |-> FALSE]

\* Descending CRDs, as the search is asked to sort.
Ahead(r, s) == r.crd > s.crd \/ (r.crd = s.crd /\ r.copy > s.copy)

Page(records, offset, size) ==
    {r \in records :
        Cardinality({s \in records : Ahead(s, r)}) \in offset..(offset + size - 1)}

\* Changes are counted from the plan's start; before it they are a choice of
\* the first index.
Drifts == planning # "none" /\ gained + Cardinality(lost) < MaxDrift

Gain(r) ==
    /\ r \in Record \ index
    /\ Drifts
    /\ index' = index \cup {r}
    /\ gained' = gained + 1
    /\ UNCHANGED <<planVars, today, files, locals, first, lost>>

Lose(r) ==
    /\ r \in index
    /\ Drifts
    /\ index' = index \ {r}
    /\ lost' = lost \cup {r}
    /\ UNCHANGED <<planVars, today, files, locals, first, gained>>

NextDay ==
    /\ today < LastDay
    /\ today' = today + 1
    /\ UNCHANGED <<index, planVars, files, locals, history>>

-----------------------------------------------------------------------------
(* The planner.                                                            *)

StartPlan ==
    /\ planning = "none"
    /\ index # {}
    /\ planning' = "probing"
    /\ \E r \in index : highest' = r.crd /\ \A s \in index : s.crd <= r.crd
    /\ broad' = Total(index)
    /\ pending' = <<[low |-> 1, high |-> highest']>>
    /\ first' = index
    /\ UNCHANGED <<index, shards, today, files, locals, gained, lost>>

Top == pending[Len(pending)]
Rest == SubSeq(pending, 1, Len(pending) - 1)
Middle(range) == (range.low + range.high) \div 2

\* slip: the lower half stops before the midpoint
LowerShort(range) == [low |-> range.low, high |-> Middle(range) - 1]

Lower(range) == [low |-> range.low, high |-> Middle(range)]

\* slip: the upper half starts at the midpoint
UpperFromMiddle(range) == [low |-> Middle(range), high |-> range.high]

Upper(range) == [low |-> Middle(range) + 1, high |-> range.high]

Fits(total) == total.exact /\ total.value <= max_shard_records

Accept(total) ==
    /\ Fits(total)
    /\ shards' = shards \cup
            {[low |-> Top.low, high |-> Top.high, count |-> total.value]}
    /\ pending' = Rest
    /\ UNCHANGED planning

Split(total) ==
    /\ ~Fits(total)
    /\ Top.low # Top.high
    /\ pending' = Rest \o <<Upper(Top), Lower(Top)>>
    /\ UNCHANGED <<planning, shards>>

\* One CRD cannot be split: the planner gives up.
GiveUp(total) ==
    /\ ~Fits(total)
    /\ Top.low = Top.high
    /\ planning' = "failed"
    /\ UNCHANGED <<pending, shards>>

Probe ==
    /\ planning = "probing"
    /\ pending # <<>>
    /\ LET total == Total(Within(index, Top.low, Top.high))
       IN  Accept(total) \/ Split(total) \/ GiveUp(total)
    /\ UNCHANGED <<index, highest, broad, today, files, locals, history>>

expected_individual_count == MapThenSumSet(LAMBDA s : s.count, shards)

SamePlan == UNCHANGED <<index, highest, broad, pending, shards, today, files,
                        locals, history>>

\* The payload of the plan is there: a download can be given its path.
FinishPlan ==
    /\ planning = "probing"
    /\ pending = <<>>
    /\ planning' = IF broad.exact /\ expected_individual_count # broad.value
                   THEN "failed" ELSE "signing"
    /\ SamePlan

\* ... and then its manifest; the payload goes again when that fails.
SignPlan ==
    /\ planning = "signing"
    /\ planning' \in {"signed", "failed"}
    /\ SamePlan

\* A request fails for good, or the process dies.
StopPlan ==
    /\ planning \in {"probing", "signing"}
    /\ planning' = IF planning = "probing" THEN "failed" ELSE "unsigned"
    /\ SamePlan

\* The plan is read from its payload alone.
Planned == planning \in {"signed", "unsigned"}

-----------------------------------------------------------------------------
(* A download.  The next page is determined by the pages it has.           *)

At(d, place) == pc[d] = place

Recs(ps) == UNION {p.recs : p \in ps}
Crds(records) == {r.crd : r \in records}

Got(d, shard) == Within(Recs(pages[d]), shard.low, shard.high)

OpenShards(d) == {s \in shards : Cardinality(Got(d, s)) < s.count}

NextShard(d, s) ==
    /\ At(d, "paging")
    /\ s \in OpenShards(d)
    /\ \A t \in OpenShards(d) : s.low <= t.low

ShardPages(d, s) == {p \in pages[d] : p.low = s.low}

page_number(d, s) == Cardinality(ShardPages(d, s)) + 1

shard_offset(d, s) == Cardinality(Got(d, s))

requested_size(d, s) == Min({page_size, s.count - shard_offset(d, s)})

\* Every page but the last of a range is full, so that the request kept with
\* a page is the one for its number.
existing_paths(d, s) ==
    {f \in payloads : f.day = started[d] /\ f.low = s.low
                      /\ f.nr = page_number(d, s)}

\* slip: the order check is not restarted with the shard
ValidAcrossShards(d, s, recs) ==
    /\ recs # {}
    /\ Cardinality(Crds(recs)) = Cardinality(recs)
    /\ Crds(recs) \cap Crds(Recs(pages[d])) = {}
    /\ \A p \in pages[d] : \A r \in recs, q \in p.recs : r.crd < q.crd

ValidPage(d, s, recs) ==
    /\ recs # {}
    /\ Cardinality(Crds(recs)) = Cardinality(recs)
    /\ Crds(recs) \cap Crds(Recs(pages[d])) = {}
    /\ \A p \in ShardPages(d, s) : \A r \in recs, q \in p.recs : r.crd < q.crd

Go(d, place) == pc' = [pc EXCEPT ![d] = place]
Keep(d, page) == pages' = [pages EXCEPT ![d] = @ \cup {page}]
Hold(d, file) == held' = [held EXCEPT ![d] = file]

\* Refused: an error of the file system, such as a name that is taken.
Ended == {"done", "drift", "refused", "stopped"}

\* The locals go with the process.
End(d, how) ==
    /\ Go(d, how)
    /\ started' = [started EXCEPT ![d] = 1]
    /\ pages' = [pages EXCEPT ![d] = {}]
    /\ Hold(d, None)

StartDownload(d) ==
    /\ Planned
    /\ At(d, "idle")
    /\ Go(d, "paging")
    /\ started' = [started EXCEPT ![d] = today]
    /\ UNCHANGED <<pages, held, files, outside>>

\* slip: a retained page is taken without its manifest
SkipUnverified(d, s, f) ==
    IF ~ValidPage(d, s, f.recs) THEN End(d, "drift")
    ELSE Keep(d, f) /\ UNCHANGED <<pc, started, held>>

Skip(d, s, f) ==
    IF f \notin manifests THEN End(d, "refused")
    ELSE IF ~ValidPage(d, s, f.recs) THEN End(d, "drift")
    ELSE Keep(d, f) /\ UNCHANGED <<pc, started, held>>

\* A retained page is verified and taken, or ends the download.
SkipPage(d) ==
    \E s \in shards :
        /\ NextShard(d, s)
        /\ existing_paths(d, s) # {}
        /\ IF Cardinality(existing_paths(d, s)) > 1 THEN End(d, "drift")
           ELSE \E f \in existing_paths(d, s) : Skip(d, s, f)
        /\ UNCHANGED <<files, outside>>

\* slip: the total of a page is not compared with the plan
AnyTotal(total, shard) == TRUE

Reconciled(total, shard) == total = [value |-> shard.count, exact |-> TRUE]

Take(d, s, found, recs) ==
    IF Reconciled(Total(found), s) /\ ValidPage(d, s, recs)
    THEN /\ Go(d, "storing")
         /\ Hold(d, [day |-> today, low |-> s.low, nr |-> page_number(d, s),
                     recs |-> recs])
         /\ UNCHANGED <<started, pages>>
    ELSE End(d, "drift")

\* A page is fetched and validated; it is dated by its own retrieval.
FetchPage(d) ==
    \E s \in shards :
        /\ NextShard(d, s)
        /\ existing_paths(d, s) = {}
        /\ LET found == Within(index, s.low, s.high)
           IN  Take(d, s, found, Page(found, shard_offset(d, s), requested_size(d, s)))
        /\ UNCHANGED <<files, outside>>

\* The name is taken when another download has retained the very page that
\* day: it is verified, and taken if its manifest is there.
StorePayload(d) ==
    /\ At(d, "storing")
    /\ IF held[d] \notin payloads
       THEN /\ payloads' = payloads \cup {held[d]}
            /\ Go(d, "signing")
            /\ UNCHANGED <<started, pages, held>>
       ELSE /\ IF held[d] \in manifests
               THEN Go(d, "paging") /\ Keep(d, held[d]) /\ Hold(d, None)
                    /\ UNCHANGED started
               ELSE End(d, "refused")
            /\ UNCHANGED payloads
    /\ UNCHANGED <<manifests, completions, sealed, outside>>

StoreManifest(d) ==
    /\ At(d, "signing")
    /\ manifests' = manifests \cup {held[d]}
    /\ Go(d, "paging") /\ Keep(d, held[d]) /\ Hold(d, None)
    /\ UNCHANGED <<payloads, completions, sealed, started, outside>>

\* Every shard has its pages: the completion is written, once a day.
Complete(d) ==
    /\ At(d, "paging")
    /\ OpenShards(d) = {}
    /\ LET c == [day |-> today, pages |-> pages[d]] IN
       IF Cardinality(Crds(Recs(pages[d]))) # expected_individual_count
       THEN End(d, "drift") /\ UNCHANGED completions
       ELSE IF \E other \in completions : other.day = today
       THEN End(d, "refused") /\ UNCHANGED completions
       ELSE /\ completions' = completions \cup {c}
            /\ Go(d, "sealing") /\ Hold(d, c)
            /\ UNCHANGED <<started, pages>>
    /\ UNCHANGED <<payloads, manifests, sealed, outside>>

Seal(d) ==
    /\ At(d, "sealing")
    /\ sealed' = sealed \cup {held[d].day}
    /\ End(d, "done")
    /\ UNCHANGED <<payloads, manifests, completions, outside>>

\* A manifest cannot be written: its payload is removed again.
Unlink(d) ==
    /\ At(d, "signing") \/ At(d, "sealing")
    /\ payloads' = payloads \ {held[d]}
    /\ completions' = completions \ {held[d]}
    /\ End(d, "refused")
    /\ UNCHANGED <<manifests, sealed, outside>>

\* A request fails for good, or the process dies, anywhere.
Stop(d) ==
    /\ pc[d] \notin Ended \cup {"idle"}
    /\ End(d, "stopped")
    /\ UNCHANGED <<files, outside>>

Plan == StartPlan \/ Probe \/ FinishPlan \/ SignPlan \/ StopPlan

Download(d) ==
    \/ StartDownload(d) \/ SkipPage(d) \/ FetchPage(d) \/ StorePayload(d)
    \/ StoreManifest(d) \/ Complete(d) \/ Seal(d) \/ Unlink(d) \/ Stop(d)

Next ==
    \/ Plan
    \/ \E d \in Downloads : Download(d)
    \/ \E r \in Record : Gain(r) \/ Lose(r)
    \/ NextDay

Spec == Init /\ [][Next]_vars

\* The planner is one loop of one process: while it runs it takes its steps.
FairSpec == Spec /\ WF_vars(Probe \/ FinishPlan)

-----------------------------------------------------------------------------
(* Properties                                                              *)

CrdRange == {r \in [low : Nat \ {0}, high : Nat] : r.low <= r.high}
ShardType == [low : Nat \ {0}, high : Nat, count : Nat]
PageFile == [day : Nat, low : Nat \ {0}, nr : Nat, recs : SUBSET Record]
Completion == [day : Nat, pages : SUBSET PageFile]

\* Every file and every local has its type; no range to probe is empty.
TypeOK ==
    /\ index \subseteq Record
    /\ planning \in {"none", "failed", "probing", "signing", "signed", "unsigned"}
    /\ highest \in Nat /\ broad \in [value : Nat, exact : BOOLEAN]
    /\ pending \in Seq(CrdRange) /\ shards \subseteq ShardType
    /\ today \in Nat
    /\ payloads \subseteq PageFile /\ manifests \subseteq PageFile
    /\ completions \subseteq Completion /\ sealed \subseteq Nat
    /\ pc \in [Downloads -> {"idle", "paging", "storing", "signing", "sealing"} \cup Ended]
    /\ started \in [Downloads -> Nat]
    /\ pages \in [Downloads -> SUBSET PageFile]
    /\ held \in [Downloads -> PageFile \cup Completion \cup {None}]
    /\ first \subseteq Record /\ gained \in Nat /\ lost \subseteq Record

\* A plan that was written partitions the CRD numbers up to the highest into
\* ranges that the source can count and page through, whatever order the
\* ranges were split in: _validate_plan asks for no gap, overlap or duplicate.
Disjoint(s, t) == s.high < t.low \/ t.high < s.low

ShardsPartition ==
    planning \in {"signing", "signed", "unsigned"} =>
        /\ \A n \in 1..highest : \E s \in shards : s.low <= n /\ n <= s.high
        /\ \A s \in shards : /\ s.low <= s.high /\ s.high <= highest
                             /\ s.count <= max_shard_records
        /\ \A s, t \in shards : s # t => Disjoint(s, t)

\* A completion, wherever its pages come from, holds for every range of the
\* plan as many CRDs as were planned, none of them twice, each on a page with
\* a manifest: "a complete collection only when planned and retrieved
\* individual counts and page counts reconcile" (market-data/README.md).
CompletionReconciles ==
    \A c \in completions :
        /\ c.pages \subseteq payloads \cap manifests
        /\ \A s \in shards :
            LET recs == Within(Recs(c.pages), s.low, s.high) IN
            Cardinality(recs) = s.count /\ Cardinality(Crds(recs)) = s.count
        /\ \A p, q \in c.pages : p # q => Crds(p.recs) \cap Crds(q.recs) = {}

\* What the source held throughout is in the collection, but for one record
\* for each time that a record left it and another came in while it was
\* planned and downloaded: the totals that every page repeats miss such an
\* exchange and nothing else.
Exchanges == IF gained < Cardinality(lost) THEN gained ELSE Cardinality(lost)

DriftCosts ==
    \A c \in completions :
        Cardinality((first \ lost) \ Recs(c.pages)) <= Exchanges

\* No download of a source that stays as it was planned, with one record a
\* CRD, is refused for drift, however many downloads stopped before it.
QuietSourceDownloads ==
    gained = 0 /\ lost = {} /\ Cardinality(Crds(first)) = Cardinality(first)
        => \A d \in Downloads : pc[d] # "drift"

\* The planner comes to an end whatever the source does meanwhile: every
\* range it splits it splits into smaller ones.
PlanEnds == planning = "probing" ~> planning # "probing"
=============================================================================

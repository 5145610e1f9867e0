-------------------------- MODULE CollectionProofs --------------------------
(***************************************************************************)
(* For any index, cap and page size, any number of downloads and any       *)
(* changes of the source: types; the partition of a plan; that completions *)
(* reconcile; what drift costs them; that without drift none is found.     *)
(* The arguments:                                                          *)
(*                                                                         *)
(* The ranges still to probe hang together, from the lowest CRD that no    *)
(* accepted range reaches up to the highest; probing takes the one at the  *)
(* lower end away, or puts its two halves in its place.                    *)
(*                                                                         *)
(* Every page file has the size that its number and its range say, so a    *)
(* download that has n pages of a range has what n pages hold, whoever     *)
(* fetched them.                                                           *)
(*                                                                         *)
(* Every range had its planned count when it was probed and again whenever *)
(* a page of it was taken.  Each time it held all the stable records, so   *)
(* what a collection has in the place of one that it misses has come in    *)
(* since the first time, and was gone at the last.                         *)
(*                                                                         *)
(* While the source stays as it was planned, a page file is a page of the  *)
(* index the plan was made from, the one that its number says.             *)
(***************************************************************************)
EXTENDS Collection, FiniteSetTheorems, FunctionTheorems, SequenceTheorems, TLAPS

\* The lowest CRD that is not in an accepted range.
Frontier == IF pending = <<>> THEN highest + 1 ELSE Top.low

\* Where range i has to end: below the range it was split from, or at the top.
Ceiling(i) == IF i = 1 THEN highest ELSE pending[i - 1].low - 1

Accepted ==
    /\ \A n \in 1..(Frontier - 1) : \E s \in shards : s.low <= n /\ n <= s.high
    /\ \A s \in shards : /\ s.low <= s.high /\ s.high < Frontier
                         /\ s.count <= max_shard_records
    /\ \A s, t \in shards : s # t => Disjoint(s, t)

Probing ==
    /\ \A i \in 1..Len(pending) : pending[i].high = Ceiling(i)
    /\ Accepted

\* What a download is about to write is a page, or a completion.
Holding ==
    \A d \in Downloads :
        /\ pc[d] \in {"storing", "signing"} => held[d] \in PageFile
        /\ pc[d] = "sealing" => held[d] \in Completion

IInv ==
    /\ TypeOK
    /\ \A d \in Downloads : IsFiniteSet(pages[d])
    /\ Holding
    /\ planning = "none" => shards = {}
    /\ planning = "probing" => Probing
    /\ ShardsPartition

-----------------------------------------------------------------------------
(* Types.                                                                  *)

PlanTypes ==
    /\ planning \in {"none", "failed", "probing", "signing", "signed", "unsigned"}
    /\ highest \in Nat /\ broad \in [value : Nat, exact : BOOLEAN]
    /\ pending \in Seq(CrdRange) /\ shards \subseteq ShardType

FileTypes ==
    /\ payloads \subseteq PageFile /\ manifests \subseteq PageFile
    /\ completions \subseteq Completion /\ sealed \subseteq Nat

LocalTypes ==
    /\ pc \in [Downloads ->
                {"idle", "paging", "storing", "signing", "sealing"} \cup Ended]
    /\ started \in [Downloads -> Nat]
    /\ pages \in [Downloads -> SUBSET PageFile]
    /\ held \in [Downloads -> PageFile \cup Completion \cup {None}]
    /\ \A d \in Downloads : IsFiniteSet(pages[d])

SourceTypes ==
    /\ index \subseteq Record /\ today \in Nat
    /\ first \subseteq Record /\ gained \in Nat /\ lost \subseteq Record

Types == PlanTypes /\ FileTypes /\ LocalTypes /\ SourceTypes

LEMMA TypesOK ==
    Types <=> TypeOK /\ \A d \in Downloads : IsFiniteSet(pages[d])
  BY DEF Types, TypeOK, PlanTypes, FileTypes, LocalTypes, SourceTypes

LEMMA InitTypes == Init => Types
<1>1. Init => LocalTypes
  BY FS_EmptySet DEF Init, LocalTypes
<1>2. QED
  BY <1>1, CollectionAssumption
     DEF Init, Types, PlanTypes, FileTypes, SourceTypes

\* A total is a number, whatever the source holds.
LEMMA TotalType ==
    ASSUME NEW records, records \subseteq Record
    PROVE  Total(records) \in [value : Nat, exact : BOOLEAN]
<1>1. IsFiniteSet(records) /\ Cardinality(records) \in Nat
  BY CollectionAssumption, FS_Subset, FS_CardinalityType
<1>2. QED
  BY <1>1, CollectionAssumption DEF Total

LEMMA MiddleType ==
    ASSUME NEW range \in CrdRange
    PROVE  /\ Middle(range) \in Nat
           /\ range.low <= Middle(range) /\ Middle(range) <= range.high
           /\ range.low # range.high => Middle(range) < range.high
<1>1. range.low \in Nat /\ range.high \in Nat /\ range.low <= range.high
  BY DEF CrdRange
<1>2. QED
  BY <1>1 DEF Middle

LEMMA HalvesType ==
    ASSUME NEW range \in CrdRange, range.low # range.high
    PROVE  /\ Lower(range) \in CrdRange /\ Upper(range) \in CrdRange
           /\ Lower(range).low = range.low /\ Upper(range).high = range.high
           /\ Lower(range).high = Upper(range).low - 1
<1>1. range.low \in Nat \ {0} /\ range.high \in Nat
  BY DEF CrdRange
<1>2. QED
  BY <1>1, MiddleType DEF Lower, Upper, CrdRange

LEMMA StackType ==
    ASSUME PlanTypes, pending # <<>>
    PROVE  /\ Len(pending) \in Nat \ {0} /\ Top \in CrdRange
           /\ Rest \in Seq(CrdRange) /\ Len(Rest) = Len(pending) - 1
           /\ \A i \in 1..(Len(pending) - 1) : Rest[i] = pending[i]
<1>1. pending \in Seq(CrdRange)
  BY DEF PlanTypes
<1>2. Len(pending) \in Nat \ {0}
  BY <1>1, EmptySeq
<1>3. Top \in CrdRange
  BY <1>1, <1>2 DEF Top
<1>4. /\ Rest \in Seq(CrdRange) /\ Len(Rest) = Len(pending) - 1
      /\ \A i \in 1..(Len(pending) - 1) : Rest[i] = pending[i]
  <2>1. \A i \in 1..(Len(pending) - 1) : pending[i] \in CrdRange
    BY <1>1, <1>2
  <2>2. Len(pending) - 1 \in Nat /\ 1 \in 1..(Len(pending))
    BY <1>2
  <2>3. Rest = [i \in 1..(Len(pending) - 1) |-> pending[i]]
    BY <1>1, <1>2, <2>2 DEF Rest
  <2>4. QED
    BY <2>1, <2>2, <2>3
<1>5. QED
  BY <1>2, <1>3, <1>4

LEMMA PlanStepTypes ==
    ASSUME Types, Plan
    PROVE  Types'
<1>1. FileTypes' /\ LocalTypes' /\ SourceTypes'
  BY DEF Types, FileTypes, LocalTypes, SourceTypes, Plan, StartPlan, Probe,
     FinishPlan, SignPlan, StopPlan, SamePlan, files, locals, history
<1>2. CASE StartPlan
  <2>1. PICK r \in index : highest' = r.crd
    BY <1>2 DEF StartPlan
  <2>2. highest' \in Nat \ {0}
    BY <2>1, CollectionAssumption DEF Types, SourceTypes
  <2>3. broad' \in [value : Nat, exact : BOOLEAN]
    BY <1>2, TotalType DEF StartPlan, Types, SourceTypes
  <2>4. [low |-> 1, high |-> highest'] \in CrdRange
    BY <2>2 DEF CrdRange
  <2>5. pending' \in Seq(CrdRange)
    BY <1>2, <2>4 DEF StartPlan
  <2>6. planning' = "probing" /\ shards' = shards
    BY <1>2 DEF StartPlan
  <2>7. PlanTypes'
    BY <2>2, <2>3, <2>5, <2>6 DEF Types, PlanTypes
  <2>8. QED
    BY <1>1, <2>7 DEF Types
<1>3. CASE Probe
  <2>1. PICK total \in [value : Nat, exact : BOOLEAN] :
            Accept(total) \/ Split(total) \/ GiveUp(total)
    <3>1. Within(index, Top.low, Top.high) \subseteq Record
      BY DEF Within, Types, SourceTypes
    <3>2. QED
      BY <1>3, <3>1, TotalType DEF Probe
  <2>2. pending # <<>>
    BY <1>3 DEF Probe
  <2>3. planning' \in {planning, "failed"}
    BY <2>1 DEF Accept, Split, GiveUp
  <2>4. pending' \in Seq(CrdRange)
    <3>1. Top \in CrdRange /\ Rest \in Seq(CrdRange) /\ pending \in Seq(CrdRange)
      BY <2>2, StackType DEF Types, PlanTypes
    <3>2. CASE Split(total)
      <4>1. <<Upper(Top), Lower(Top)>> \in Seq(CrdRange)
        BY <3>1, <3>2, HalvesType DEF Split
      <4>2. QED
        BY <3>1, <3>2, <4>1, ConcatProperties DEF Split
    <3>3. QED
      BY <2>1, <3>1, <3>2 DEF Accept, GiveUp
  <2>5. shards' \subseteq ShardType
    <3>1. [low |-> Top.low, high |-> Top.high, count |-> total.value] \in ShardType
      BY <2>2, StackType DEF ShardType, CrdRange, Types
    <3>2. QED
      BY <2>1, <3>1 DEF Accept, Split, GiveUp, Types, PlanTypes
  <2>6. highest' = highest /\ broad' = broad
    BY <1>3 DEF Probe
  <2>7. PlanTypes'
    BY <2>3, <2>4, <2>5, <2>6 DEF Types, PlanTypes
  <2>8. QED
    BY <1>1, <2>7 DEF Types
<1>4. CASE FinishPlan \/ SignPlan \/ StopPlan
  <2>1. PlanTypes'
    BY <1>4 DEF FinishPlan, SignPlan, StopPlan, SamePlan, Types, PlanTypes
  <2>2. QED
    BY <1>1, <2>1 DEF Types
<1>5. QED
  BY <1>2, <1>3, <1>4 DEF Plan

-----------------------------------------------------------------------------
(* The steps of a download.                                                *)

LEMMA EndTypes ==
    ASSUME LocalTypes, NEW d \in Downloads, NEW how \in Ended, End(d, how)
    PROVE  LocalTypes'
  BY FS_EmptySet DEF LocalTypes, End, Go, Hold

LEMMA KeepTypes ==
    ASSUME LocalTypes, NEW d \in Downloads, NEW page \in PageFile, Keep(d, page)
    PROVE  /\ pages' \in [Downloads -> SUBSET PageFile]
           /\ \A e \in Downloads : IsFiniteSet(pages'[e])
<1>1. IsFiniteSet(pages[d] \cup {page})
  BY FS_AddElement DEF LocalTypes
<1>2. QED
  BY <1>1 DEF LocalTypes, Keep

LEMMA PageNumberType ==
    ASSUME LocalTypes, NEW d \in Downloads, NEW s
    PROVE  page_number(d, s) \in Nat
<1>1. IsFiniteSet(ShardPages(d, s))
  BY FS_Subset DEF LocalTypes, ShardPages
<1>2. Cardinality(ShardPages(d, s)) \in Nat
  BY <1>1, FS_CardinalityType
<1>3. QED
  BY <1>2 DEF page_number

LEMMA PagingTypes ==
    ASSUME Types, NEW d \in Downloads,
           StartDownload(d) \/ SkipPage(d) \/ FetchPage(d) \/ Stop(d)
    PROVE  Types'
<1>1. PlanTypes' /\ FileTypes' /\ SourceTypes'
  BY DEF Types, PlanTypes, FileTypes, SourceTypes, StartDownload, SkipPage,
     FetchPage, Stop, files, outside, planVars, history
<1>2. LocalTypes'
  <2>1. CASE StartDownload(d)
    BY <2>1 DEF StartDownload, Go, Types, LocalTypes, SourceTypes
  <2>2. CASE SkipPage(d)
    <3>1. PICK s \in shards :
            IF Cardinality(existing_paths(d, s)) > 1 THEN End(d, "drift")
            ELSE \E f \in existing_paths(d, s) : Skip(d, s, f)
      BY <2>2 DEF SkipPage
    <3>2. CASE End(d, "drift") \/ End(d, "refused")
      BY <3>2, EndTypes DEF Types, Ended
    <3>3. CASE \E f \in payloads : Keep(d, f) /\ UNCHANGED <<pc, started, held>>
      BY <3>3, KeepTypes DEF Types, LocalTypes, FileTypes
    <3>4. QED
      BY <3>1, <3>2, <3>3 DEF Skip, existing_paths
  <2>3. CASE FetchPage(d)
    <3>1. PICK s \in shards :
            LET found == Within(index, s.low, s.high)
            IN  Take(d, s, found, Page(found, shard_offset(d, s), requested_size(d, s)))
      BY <2>3 DEF FetchPage
    <3>2. PICK recs \in SUBSET Record :
            Take(d, s, Within(index, s.low, s.high), recs)
      BY <3>1 DEF Within, Page, Types, SourceTypes
    <3>3. CASE End(d, "drift")
      BY <3>3, EndTypes DEF Types, Ended
    <3>4. CASE ~End(d, "drift")
      <4>1. /\ Go(d, "storing")
            /\ Hold(d, [day |-> today, low |-> s.low, nr |-> page_number(d, s),
                        recs |-> recs])
            /\ UNCHANGED <<started, pages>>
        BY <3>2, <3>4 DEF Take
      <4>2. s.low \in Nat \ {0}
        BY DEF Types, PlanTypes, ShardType
      <4>3. [day |-> today, low |-> s.low, nr |-> page_number(d, s),
             recs |-> recs] \in PageFile
        BY <4>2, PageNumberType DEF PageFile, Types, SourceTypes
      <4>4. QED
        BY <4>1, <4>3 DEF Go, Hold, Types, LocalTypes
    <3>5. QED
      BY <3>3, <3>4
  <2>4. CASE Stop(d)
    BY <2>4, EndTypes DEF Stop, Types, Ended
  <2>5. QED
    BY <2>1, <2>2, <2>3, <2>4
<1>3. QED
  BY <1>1, <1>2 DEF Types

LEMMA StoringTypes ==
    ASSUME Types, NEW d \in Downloads, StorePayload(d) \/ StoreManifest(d),
           held[d] \in PageFile
    PROVE  Types'
<1>1. PlanTypes' /\ SourceTypes'
  BY DEF Types, PlanTypes, SourceTypes, StorePayload, StoreManifest, outside,
     planVars, history
<1>2. FileTypes'
  BY DEF Types, FileTypes, StorePayload, StoreManifest
<1>3. LocalTypes'
  <2>1. CASE End(d, "refused")
    BY <2>1, EndTypes DEF Types, Ended
  <2>2. CASE Go(d, "signing") /\ UNCHANGED <<started, pages, held>>
    BY <2>2 DEF Types, LocalTypes, Go
  <2>3. CASE Go(d, "paging") /\ Keep(d, held[d]) /\ Hold(d, None) /\ UNCHANGED started
    BY <2>3, KeepTypes DEF Types, LocalTypes, Go, Hold
  <2>4. QED
    BY <2>1, <2>2, <2>3 DEF StorePayload, StoreManifest
<1>4. QED
  BY <1>1, <1>2, <1>3 DEF Types

LEMMA CompletingTypes ==
    ASSUME Types, NEW d \in Downloads, Complete(d) \/ Seal(d) \/ Unlink(d),
           At(d, "sealing") => held[d] \in Completion
    PROVE  Types'
<1>1. PlanTypes' /\ SourceTypes'
  BY DEF Types, PlanTypes, SourceTypes, Complete, Seal, Unlink, outside,
     planVars, history
<1>2. [day |-> today, pages |-> pages[d]] \in Completion
  BY DEF Types, SourceTypes, LocalTypes, Completion
<1>3. FileTypes'
  <2>1. CASE Complete(d)
    BY <2>1, <1>2 DEF Types, FileTypes, Complete
  <2>2. CASE Seal(d)
    BY <2>2 DEF Types, FileTypes, Seal, Completion
  <2>3. CASE Unlink(d)
    BY <2>3 DEF Types, FileTypes, Unlink
  <2>4. QED
    BY <2>1, <2>2, <2>3
<1>4. LocalTypes'
  <2>1. CASE \E how \in Ended : End(d, how)
    BY <2>1, EndTypes DEF Types
  <2>2. CASE ~\E how \in Ended : End(d, how)
    <3>1. /\ Go(d, "sealing") /\ UNCHANGED <<started, pages>>
          /\ Hold(d, [day |-> today, pages |-> pages[d]])
      BY <2>2 DEF Complete, Seal, Unlink, Ended
    <3>2. QED
      BY <3>1, <1>2 DEF Types, LocalTypes, Go, Hold
  <2>3. QED
    BY <2>1, <2>2
<1>5. QED
  BY <1>1, <1>3, <1>4 DEF Types

LEMMA EndHolding ==
    ASSUME Types, Holding, NEW d \in Downloads, NEW how \in Ended, End(d, how)
    PROVE  Holding'
  BY DEF Types, LocalTypes, Holding, End, Go, Hold, Ended

\* A download comes to a place, and its locals are those of the place.
LEMMA GoHolding ==
    ASSUME Types, Holding, NEW d \in Downloads,
           \/ pc' = pc /\ held' = held
           \/ Go(d, "paging") /\ (held' = held \/ Hold(d, None))
           \/ Go(d, "signing") /\ At(d, "storing") /\ held' = held
           \/ \E f \in PageFile : Go(d, "storing") /\ Hold(d, f)
           \/ \E c \in Completion : Go(d, "sealing") /\ Hold(d, c)
    PROVE  Holding'
  BY DEF Types, LocalTypes, Holding, Go, Hold, At, Ended

LEMMA DownloadHolding ==
    ASSUME Types, Holding, NEW d \in Downloads, Download(d)
    PROVE  Holding'
<1>1. CASE \E how \in Ended : End(d, how)
  BY <1>1, EndHolding
<1>2. CASE ~\E how \in Ended : End(d, how)
  <2>1. CASE StartDownload(d)
    BY <2>1, GoHolding DEF StartDownload
  <2>2. CASE SkipPage(d)
    <3>1. \E s \in shards : \E f \in existing_paths(d, s) : Skip(d, s, f)
      BY <1>2, <2>2 DEF SkipPage, Ended
    <3>2. pc' = pc /\ held' = held
      BY <1>2, <3>1 DEF Skip, Ended
    <3>3. QED
      BY <3>2, GoHolding
  <2>3. CASE FetchPage(d)
    <3>1. PICK s \in shards :
            LET found == Within(index, s.low, s.high)
            IN  Take(d, s, found, Page(found, shard_offset(d, s), requested_size(d, s)))
      BY <2>3 DEF FetchPage
    <3>2. PICK recs \in SUBSET Record :
            Take(d, s, Within(index, s.low, s.high), recs)
      BY <3>1 DEF Within, Page, Types, SourceTypes
    <3>3. /\ Go(d, "storing")
          /\ Hold(d, [day |-> today, low |-> s.low, nr |-> page_number(d, s),
                      recs |-> recs])
      BY <1>2, <3>2 DEF Take, Ended
    <3>4. s.low \in Nat \ {0}
      BY DEF Types, PlanTypes, ShardType
    <3>5. [day |-> today, low |-> s.low, nr |-> page_number(d, s),
           recs |-> recs] \in PageFile
      BY <3>4, PageNumberType DEF PageFile, Types, SourceTypes
    <3>6. QED
      BY <3>3, <3>5, GoHolding
  <2>4. CASE StorePayload(d) \/ StoreManifest(d)
    <3>1. \/ Go(d, "signing") /\ At(d, "storing") /\ held' = held
          \/ Go(d, "paging") /\ Hold(d, None)
      BY <1>2, <2>4 DEF StorePayload, StoreManifest, Ended
    <3>2. QED
      BY <3>1, GoHolding
  <2>5. CASE Complete(d)
    <3>1. /\ Go(d, "sealing")
          /\ Hold(d, [day |-> today, pages |-> pages[d]])
      BY <1>2, <2>5 DEF Complete, Ended
    <3>2. [day |-> today, pages |-> pages[d]] \in Completion
      BY DEF Types, SourceTypes, LocalTypes, Completion
    <3>3. QED
      BY <3>1, <3>2, GoHolding
  <2>6. CASE Seal(d) \/ Unlink(d) \/ Stop(d)
    BY <1>2, <2>6 DEF Seal, Unlink, Stop, Ended
  <2>7. QED
    BY <2>1, <2>2, <2>3, <2>4, <2>5, <2>6 DEF Download
<1>3. QED
  BY <1>1, <1>2

LEMMA DownloadTypes ==
    ASSUME Types, Holding, NEW d \in Downloads, Download(d)
    PROVE  Types'
<1>1. CASE StartDownload(d) \/ SkipPage(d) \/ FetchPage(d) \/ Stop(d)
  BY <1>1, PagingTypes
<1>2. CASE StorePayload(d) \/ StoreManifest(d)
  <2>1. held[d] \in PageFile
    BY <1>2 DEF Holding, StorePayload, StoreManifest, At
  <2>2. QED
    BY <1>2, <2>1, StoringTypes
<1>3. CASE Complete(d) \/ Seal(d) \/ Unlink(d)
  <2>1. At(d, "sealing") => held[d] \in Completion
    BY DEF Holding, At
  <2>2. QED
    BY <1>3, <2>1, CompletingTypes
<1>4. QED
  BY <1>1, <1>2, <1>3 DEF Download

\* The source and the days go on.
World == (\E r \in Record : Gain(r) \/ Lose(r)) \/ NextDay

LEMMA WorldTypes ==
    ASSUME Types, Holding, World
    PROVE  Types' /\ Holding'
<1>1. SourceTypes'
  BY DEF Types, SourceTypes, World, Gain, Lose, NextDay, history
<1>2. PlanTypes' /\ FileTypes' /\ LocalTypes' /\ Holding'
  BY DEF Types, PlanTypes, FileTypes, LocalTypes, Holding, World, Gain, Lose,
     NextDay, planVars, files, locals
<1>3. QED
  BY <1>1, <1>2 DEF Types

-----------------------------------------------------------------------------
(* The partition.                                                          *)

PlanInv ==
    /\ planning = "none" => shards = {}
    /\ planning = "probing" => Probing
    /\ ShardsPartition

LEMMA StartPartition ==
    ASSUME Types, PlanInv, StartPlan
    PROVE  PlanInv'
<1>1. PICK r \in index : highest' = r.crd
  BY DEF StartPlan
<1>2. highest' \in Nat \ {0}
  BY <1>1, CollectionAssumption DEF Types, SourceTypes
<1>3. /\ pending' = <<[low |-> 1, high |-> highest']>>
      /\ planning' = "probing" /\ shards' = {}
  BY DEF StartPlan, PlanInv
<1>4. Frontier' = 1
  BY <1>3 DEF Frontier, Top
<1>5. Accepted'
  BY <1>3, <1>4 DEF Accepted
<1>6. \A i \in 1..Len(pending') : pending'[i].high = Ceiling(i)'
  BY <1>3 DEF Ceiling
<1>7. QED
  BY <1>3, <1>5, <1>6 DEF PlanInv, Probing, ShardsPartition

LEMMA AcceptPartition ==
    ASSUME Types, PlanInv, planning = "probing", pending # <<>>,
           highest' = highest,
           NEW total \in [value : Nat, exact : BOOLEAN], Accept(total)
    PROVE  PlanInv'
<1>. DEFINE new == [low |-> Top.low, high |-> Top.high, count |-> total.value]
<1>1. /\ Len(pending) \in Nat \ {0} /\ Top \in CrdRange
      /\ Rest \in Seq(CrdRange) /\ Len(Rest) = Len(pending) - 1
      /\ \A i \in 1..(Len(pending) - 1) : Rest[i] = pending[i]
  BY StackType DEF Types
<1>2. /\ pending' = Rest /\ shards' = shards \cup {new} /\ planning' = planning
      /\ total.value <= max_shard_records
  BY DEF Accept, Fits
<1>3. Frontier = Top.low /\ Top.low \in Nat \ {0} /\ Top.high \in Nat
      /\ Top.low <= Top.high
  BY <1>1 DEF Frontier, CrdRange
<1>4. highest \in Nat /\ shards \subseteq ShardType
  BY DEF Types, PlanTypes
<1>5. Probing
  BY DEF PlanInv
<1>6. Frontier' = Top.high + 1
  <2>1. Top.high = Ceiling(Len(pending))
    BY <1>1, <1>5 DEF Probing, Top
  <2>2. CASE Len(pending) = 1
    <3>1. pending' = <<>>
      BY <1>1, <1>2, <2>2, EmptySeq
    <3>2. QED
      BY <2>1, <2>2, <3>1 DEF Frontier, Ceiling
  <2>3. CASE Len(pending) # 1
    <3>1. Len(pending') = Len(pending) - 1 /\ Len(pending') \in 1..(Len(pending) - 1)
      BY <1>1, <1>2, <2>3
    <3>2. pending' # <<>> /\ Top' = pending[Len(pending) - 1]
      BY <1>1, <1>2, <3>1 DEF Top
    <3>3. pending[Len(pending) - 1].low \in Nat
      <4>1. pending[Len(pending) - 1] \in CrdRange
        BY <1>1, <3>1 DEF Types, PlanTypes
      <4>2. QED
        BY <4>1 DEF CrdRange
    <3>4. QED
      BY <1>1, <2>1, <2>3, <3>2, <3>3 DEF Frontier, Ceiling
  <2>4. QED
    BY <2>2, <2>3
<1>7. \A i \in 1..Len(pending') : pending'[i].high = Ceiling(i)'
  <2>1. SUFFICES ASSUME NEW i \in 1..Len(pending')
                 PROVE  pending'[i].high = Ceiling(i)'
    OBVIOUS
  <2>2. i \in 1..(Len(pending) - 1) /\ pending'[i] = pending[i]
    BY <1>1, <1>2
  <2>3. pending[i].high = Ceiling(i)
    BY <1>1, <1>5, <2>2 DEF Probing
  <2>4. i # 1 => pending'[i - 1] = pending[i - 1]
    BY <1>1, <1>2, <2>2
  <2>5. QED
    BY <2>2, <2>3, <2>4 DEF Ceiling
<1>8. Accepted'
  <2>1. \A n \in 1..(Frontier' - 1) : \E s \in shards' : s.low <= n /\ n <= s.high
    <3>1. SUFFICES ASSUME NEW n \in 1..Top.high
                   PROVE  \E s \in shards' : s.low <= n /\ n <= s.high
      BY <1>3, <1>6
    <3>2. CASE n < Top.low
      BY <1>2, <1>3, <1>5, <3>2 DEF Probing, Accepted
    <3>3. CASE Top.low <= n
      <4>1. new \in shards' /\ new.low = Top.low /\ new.high = Top.high
        BY <1>2
      <4>2. new.low <= n /\ n <= new.high
        BY <1>3, <3>3, <4>1
      <4>. HIDE DEF new
      <4>3. QED
        BY <4>1, <4>2
    <3>4. QED
      BY <1>3, <3>2, <3>3
  <2>2. \A s \in shards' : /\ s.low <= s.high /\ s.high < Frontier'
                           /\ s.count <= max_shard_records
    <3>1. \A s \in shards : s.high \in Nat
      BY <1>4 DEF ShardType
    <3>2. QED
      BY <1>2, <1>3, <1>5, <1>6, <3>1 DEF Probing, Accepted
  <2>3. \A s, t \in shards' : s # t => Disjoint(s, t)
    BY <1>2, <1>3, <1>5 DEF Probing, Accepted, Disjoint
  <2>4. QED
    BY <2>1, <2>2, <2>3 DEF Accepted
<1>9. QED
  BY <1>2, <1>7, <1>8 DEF PlanInv, Probing, ShardsPartition

LEMMA SplitPartition ==
    ASSUME Types, PlanInv, planning = "probing", pending # <<>>,
           highest' = highest, NEW total, Split(total)
    PROVE  PlanInv'
<1>1. /\ Len(pending) \in Nat \ {0} /\ Top \in CrdRange
      /\ Rest \in Seq(CrdRange) /\ Len(Rest) = Len(pending) - 1
      /\ \A i \in 1..(Len(pending) - 1) : Rest[i] = pending[i]
  BY StackType DEF Types
<1>2. /\ pending' = Rest \o <<Upper(Top), Lower(Top)>>
      /\ shards' = shards /\ planning' = planning
  BY DEF Split
<1>3. /\ Lower(Top) \in CrdRange /\ Upper(Top) \in CrdRange
      /\ Lower(Top).low = Top.low /\ Upper(Top).high = Top.high
      /\ Lower(Top).high = Upper(Top).low - 1
  BY <1>1, HalvesType DEF Split
<1>4. <<Upper(Top), Lower(Top)>> \in Seq(CrdRange)
  BY <1>3
<1>5. /\ Len(pending') = Len(pending) + 1
      /\ \A i \in 1..(Len(pending) - 1) : pending'[i] = pending[i]
      /\ pending'[Len(pending)] = Upper(Top)
      /\ pending'[Len(pending) + 1] = Lower(Top)
  <2>. DEFINE halves == <<Upper(Top), Lower(Top)>>
  <2>1. Len(halves) = 2 /\ halves[1] = Upper(Top) /\ halves[2] = Lower(Top)
    OBVIOUS
  <2>. HIDE DEF halves
  <2>2. /\ Len(Rest \o halves) = Len(Rest) + 2
        /\ \A i \in 1..(Len(Rest) + 2) :
              (Rest \o halves)[i] = IF i <= Len(Rest) THEN Rest[i]
                                    ELSE halves[i - Len(Rest)]
    BY <1>1, <1>4, <2>1, ConcatProperties DEF halves
  <2>3. pending' = Rest \o halves
    BY <1>2 DEF halves
  <2>4. QED
    BY <1>1, <2>1, <2>2, <2>3
<1>6. Probing
  BY DEF PlanInv
<1>7. Frontier' = Frontier
  <2>1. pending' # <<>> /\ Top' = Lower(Top)
    BY <1>1, <1>5 DEF Top
  <2>2. QED
    BY <1>3, <2>1 DEF Frontier
<1>8. \A i \in 1..Len(pending') : pending'[i].high = Ceiling(i)'
  <2>1. SUFFICES ASSUME NEW i \in 1..Len(pending')
                 PROVE  pending'[i].high = Ceiling(i)'
    OBVIOUS
  <2>2. Top.high = Ceiling(Len(pending))
    BY <1>1, <1>6 DEF Probing, Top
  <2>3. CASE i \in 1..(Len(pending) - 1)
    <3>1. pending[i].high = Ceiling(i)
      BY <1>1, <1>6, <2>3 DEF Probing
    <3>2. i # 1 => pending'[i - 1] = pending[i - 1]
      BY <1>1, <1>5, <2>3
    <3>3. QED
      BY <1>5, <2>3, <3>1, <3>2 DEF Ceiling
  <2>4. CASE i = Len(pending)
    <3>1. i # 1 => pending'[i - 1] = pending[i - 1]
      BY <1>1, <1>5, <2>4
    <3>2. QED
      BY <1>3, <1>5, <2>2, <2>4, <3>1 DEF Ceiling
  <2>5. CASE i = Len(pending) + 1
    <3>1. i # 1 /\ i - 1 = Len(pending)
      BY <1>1, <2>5
    <3>2. QED
      BY <1>3, <1>5, <2>5, <3>1 DEF Ceiling
  <2>6. QED
    BY <1>1, <1>5, <2>3, <2>4, <2>5
<1>9. Accepted'
  BY <1>2, <1>6, <1>7 DEF Probing, Accepted
<1>10. QED
  BY <1>2, <1>8, <1>9 DEF PlanInv, Probing, ShardsPartition

LEMMA ProbePartition ==
    ASSUME Types, PlanInv, Probe
    PROVE  PlanInv'
<1>1. PICK total \in [value : Nat, exact : BOOLEAN] :
          Accept(total) \/ Split(total) \/ GiveUp(total)
  <2>1. Within(index, Top.low, Top.high) \subseteq Record
    BY DEF Within, Types, SourceTypes
  <2>2. QED
    BY <2>1, TotalType DEF Probe
<1>2. planning = "probing" /\ pending # <<>> /\ highest' = highest
  BY DEF Probe
<1>3. CASE GiveUp(total)
  BY <1>3 DEF GiveUp, PlanInv, ShardsPartition
<1>4. QED
  BY <1>1, <1>2, <1>3, AcceptPartition, SplitPartition

LEMMA EndPartition ==
    ASSUME Types, PlanInv, FinishPlan \/ SignPlan \/ StopPlan
    PROVE  PlanInv'
<1>1. highest' = highest /\ shards' = shards /\ planning' \notin {"none", "probing"}
  BY DEF FinishPlan, SignPlan, StopPlan, SamePlan
<1>2. CASE FinishPlan
  <2>1. Accepted /\ Frontier = highest + 1
    BY <1>2 DEF FinishPlan, PlanInv, Probing, Frontier
  <2>2. highest \in Nat /\ \A s \in shards : s.high \in Nat
    BY DEF Types, PlanTypes, ShardType
  <2>3. QED
    BY <1>1, <2>1, <2>2 DEF PlanInv, ShardsPartition, Accepted
<1>3. CASE SignPlan \/ StopPlan
  BY <1>1, <1>3 DEF SignPlan, StopPlan, PlanInv, ShardsPartition
<1>4. QED
  BY <1>2, <1>3

LEMMA SamePartition ==
    ASSUME PlanInv, UNCHANGED planVars
    PROVE  PlanInv'
  BY DEF PlanInv, planVars, Probing, Ceiling, Accepted, Frontier, Top, ShardsPartition

-----------------------------------------------------------------------------
LEMMA IInvParts == IInv <=> Types /\ Holding /\ PlanInv
  BY TypesOK DEF IInv, PlanInv

LEMMA IInvPartsNext == Types' /\ Holding' /\ PlanInv' => IInv'
  BY DEF IInv, PlanInv, Types, TypeOK, PlanTypes, FileTypes, LocalTypes, SourceTypes

LEMMA InitInv == Init => IInv
<1>1. Init => Types
  BY InitTypes
<1>2. Init => Holding /\ PlanInv
  BY DEF Init, Holding, PlanInv, ShardsPartition
<1>3. QED
  BY <1>1, <1>2, IInvParts

LEMMA NextInv == IInv /\ [Next]_vars => IInv'
<1>. SUFFICES ASSUME IInv, [Next]_vars
              PROVE  IInv'
  OBVIOUS
<1>1. Types /\ Holding /\ PlanInv
  BY IInvParts
<1>2. CASE Plan
  <2>1. Types'
    BY <1>1, <1>2, PlanStepTypes
  <2>2. Holding'
    <3>1. UNCHANGED <<pc, held>>
      BY <1>2 DEF Plan, StartPlan, Probe, FinishPlan, SignPlan, StopPlan, SamePlan,
         locals
    <3>2. QED
      BY <1>1, <3>1 DEF Holding
  <2>3. PlanInv'
    BY <1>1, <1>2, StartPartition, ProbePartition, EndPartition DEF Plan
  <2>4. QED
    BY <2>1, <2>2, <2>3, IInvPartsNext
<1>3. CASE \E d \in Downloads : Download(d)
  <2>1. PICK d \in Downloads : Download(d)
    BY <1>3
  <2>2. UNCHANGED planVars
    BY <2>1 DEF Download, StartDownload, SkipPage, FetchPage, StorePayload,
       StoreManifest, Complete, Seal, Unlink, Stop, outside
  <2>3. QED
    BY <1>1, <2>1, <2>2, DownloadTypes, DownloadHolding, SamePartition, IInvPartsNext
<1>4. CASE World
  <2>1. UNCHANGED planVars
    BY <1>4 DEF World, Gain, Lose, NextDay
  <2>2. QED
    BY <1>1, <1>4, <2>1, WorldTypes, SamePartition, IInvPartsNext
<1>5. CASE UNCHANGED vars
  <2>1. UNCHANGED planVars
    BY <1>5 DEF vars, outside
  <2>2. Types' /\ Holding'
    BY <1>1, <1>5 DEF Types, PlanTypes, FileTypes, LocalTypes, SourceTypes, Holding,
       vars, outside, planVars, files, locals, history
  <2>3. QED
    BY <1>1, <2>1, <2>2, SamePartition, IInvPartsNext
<1>6. QED
  BY <1>2, <1>3, <1>4, <1>5 DEF Next, World

LEMMA Invariance == Spec => []IInv
  BY InitInv, NextInv, PTL DEF Spec

\* Files, locals and plans keep their types, and no range that the planner
\* probes is ever empty, whatever cap, limit and index it meets.
THEOREM TypeCorrect == Spec => []TypeOK
<1>1. IInv => TypeOK
  BY DEF IInv
<1>2. QED
  BY <1>1, Invariance, PTL

\* Every plan that is written partitions the CRD numbers up to the highest
\* into ranges within the limit, which is what _validate_plan demands.
THEOREM PlanPartitions == Spec => []ShardsPartition
<1>1. IInv => ShardsPartition
  BY DEF IInv
<1>2. QED
  BY <1>1, Invariance, PTL

-----------------------------------------------------------------------------
(* Counting records.                                                        *)

(* As many CRDs as records, just when no two records have the same.         *)
LEMMA CrdsCount ==
    ASSUME NEW records \in SUBSET Record
    PROVE  /\ IsFiniteSet(records) /\ Cardinality(records) \in Nat
           /\ Cardinality(Crds(records)) = Cardinality(records)
                <=> \A r, q \in records : r.crd = q.crd => r = q
<1> DEFINE f == [r \in records |-> r.crd]
<1>1. IsFiniteSet(records) /\ Cardinality(records) \in Nat
  BY CollectionAssumption, FS_Subset, FS_CardinalityType
<1>2. f \in Surjection(records, Crds(records))
  BY Fun_IsSurj DEF Crds
<1>3. f \in Injection(records, Crds(records))
        <=> \A r, q \in records : r.crd = q.crd => r = q
  <2>1. f \in [records -> Crds(records)]
    BY DEF Crds
  <2>2. (\A r, q \in records : r.crd = q.crd => r = q)
            <=> \A r, q \in records : f[r] = f[q] => r = q
    OBVIOUS
  <2> HIDE DEF f
  <2>3. QED
    BY <2>1, <2>2, Fun_IsInj, Fun_InjectionProperties
<1> HIDE DEF f
<1>4. QED
  BY <1>1, <1>2, <1>3, FS_Surjection

(* The records sorted before one.                                           *)
Above(found, r) == {s \in found : Ahead(s, r)}

LEMMA AboveOrder ==
    ASSUME NEW found \in SUBSET Record, NEW r \in found
    PROVE  /\ IsFiniteSet(Above(found, r))
           /\ Cardinality(Above(found, r)) \in 0..(Cardinality(found) - 1)
           /\ \A s \in found : Ahead(s, r) =>
                Cardinality(Above(found, s)) < Cardinality(Above(found, r))
<1>1. IsFiniteSet(found) /\ Cardinality(found) \in Nat
  BY CrdsCount
<1>2. \A s \in found : s.crd \in Nat /\ s.copy \in Nat
  BY CollectionAssumption
<1>3. Above(found, r) \in SUBSET (found \ {r})
  BY <1>2 DEF Above, Ahead
<1>4. /\ IsFiniteSet(found \ {r})
      /\ Cardinality(found \ {r}) = Cardinality(found) - 1
  BY <1>1, FS_RemoveElement
<1>5. /\ IsFiniteSet(Above(found, r)) /\ Cardinality(Above(found, r)) \in Nat
      /\ Cardinality(Above(found, r)) <= Cardinality(found) - 1
  BY <1>3, <1>4, FS_Subset, FS_CardinalityType
<1>6. ASSUME NEW s \in found, Ahead(s, r)
      PROVE  Cardinality(Above(found, s)) < Cardinality(Above(found, r))
  <2>1. Above(found, s) \in SUBSET Above(found, r)
    BY <1>2, <1>6 DEF Above, Ahead
  <2>2. s \in Above(found, r) /\ s \notin Above(found, s)
    BY <1>2, <1>6 DEF Above, Ahead
  <2>3. /\ Cardinality(Above(found, s)) <= Cardinality(Above(found, r))
        /\ Cardinality(Above(found, s)) # Cardinality(Above(found, r))
        /\ Cardinality(Above(found, s)) \in Nat
    BY <1>5, <2>1, <2>2, FS_Subset, FS_CardinalityType
  <2>4. QED
    BY <1>5, <2>3
<1>7. QED
  BY <1>1, <1>5, <1>6

(* The search sorts strictly, so that the records sorted before one number  *)
(* each of 0 to the total less one, once.                                   *)
LEMMA RanksAreAll ==
    ASSUME NEW found \in SUBSET Record
    PROVE  LET rk == [r \in found |-> Cardinality(Above(found, r))]
               ranks == 0..(Cardinality(found) - 1)
           IN  /\ rk \in [found -> ranks]
               /\ \A r, s \in found : rk[r] = rk[s] => r = s
               /\ \A t \in ranks : \E r \in found : rk[r] = t
<1> DEFINE n == Cardinality(found)
           rk == [r \in found |-> Cardinality(Above(found, r))]
<1>1. IsFiniteSet(found) /\ n \in Nat
  BY CrdsCount
<1>2. rk \in [found -> 0..(n - 1)]
  BY AboveOrder
<1>3. \A r, s \in found : rk[r] = rk[s] => r = s
  <2>1. \A r, s \in found : r # s => Ahead(r, s) \/ Ahead(s, r)
    <3>1. \A r \in found : r \in [crd : Nat \ {0}, copy : Nat]
      BY CollectionAssumption
    <3>2. \A r, s \in found : r.crd = s.crd /\ r.copy = s.copy => r = s
      BY <3>1
    <3>3. QED
      BY <3>1, <3>2 DEF Ahead
  <2>2. \A r, s \in found : Ahead(r, s) => rk[r] < rk[s]
    BY AboveOrder
  <2>3. \A r \in found : rk[r] \in Int
    BY <1>1, <1>2
  <2>4. QED
    BY <2>1, <2>2, <2>3
<1>4. IsFiniteSet(0..(n - 1)) /\ Cardinality(0..(n - 1)) = n
  <2>1. \A m \in Nat : IsFiniteSet(0..(m - 1)) /\ Cardinality(0..(m - 1)) = m
    BY SMTT(20), FS_Interval
  <2> HIDE DEF n
  <2> QED
    BY <1>1, <2>1
<1> DEFINE ranks == 0..(n - 1)
<1> HIDE DEF rk, n, ranks
<1>5. rk \in Injection(found, ranks)
  BY <1>2, <1>3, Fun_IsInj DEF ranks
<1>6. rk \in Surjection(found, ranks)
  BY <1>4, <1>5, FS_Injection DEF n, ranks
<1>7. \A t \in ranks : \E r \in found : rk[r] = t
  BY <1>6, Fun_SurjectionProperties
<1>8. QED
  BY <1>2, <1>3, <1>7 DEF n, rk, ranks

(* A page that lies within the records found is as large as was asked for.  *)
LEMMA PageCount ==
    ASSUME NEW found \in SUBSET Record, NEW offset \in Nat, NEW size \in Nat,
           offset + size <= Cardinality(found)
    PROVE  Cardinality(Page(found, offset, size)) = size
<1> DEFINE n == Cardinality(found)
           rk == [r \in found |-> Cardinality(Above(found, r))]
           page == Page(found, offset, size)
           slots == offset..(offset + size - 1)
           f == [r \in page |-> rk[r]]
<1>1. n \in Nat
  BY CrdsCount
<1>2. page = {r \in found : rk[r] \in slots}
  BY DEF Page, Above
<1>3. /\ rk \in [found -> 0..(n - 1)]
      /\ \A r, s \in found : rk[r] = rk[s] => r = s
      /\ \A t \in 0..(n - 1) : \E r \in found : rk[r] = t
  BY RanksAreAll
<1> HIDE DEF rk, page
<1>4. slots \subseteq 0..(n - 1)
  BY <1>1
<1>5. f \in [page -> slots] /\ \A r, s \in page : f[r] = f[s] => r = s
  BY <1>2, <1>3
<1>6. \A t \in slots : \E r \in page : f[r] = t
  BY <1>2, <1>3, <1>4
<1> HIDE DEF f
<1>7. f \in Bijection(page, slots)
  BY <1>5, <1>6, Fun_IsBij
<1>8. IsFiniteSet(slots) /\ Cardinality(slots) = size
  BY FS_Interval
<1> HIDE DEF slots
<1>9. ExistsBijection(slots, page)
  BY <1>7, Fun_ExistsBij, Fun_ExistsBijSymmetric
<1>10. QED
  BY <1>8, <1>9, FS_Bijection DEF page

LEMMA MinOfTwo ==
    ASSUME NEW a \in Int, NEW b \in Int
    PROVE  Min({a, b}) = IF a <= b THEN a ELSE b
  BY DEF Min

(* What the first k pages of a range hold.                                  *)
Upto(s, k) == IF k * page_size <= s.count THEN k * page_size ELSE s.count

LEMMA UptoFacts ==
    ASSUME NEW s \in ShardType, NEW k \in Nat
    PROVE  /\ Upto(s, k) \in Nat /\ Upto(s, k) <= s.count /\ s.count \in Nat
           /\ Upto(s, k) < s.count =>
                Upto(s, k + 1) - Upto(s, k) = Min({page_size, s.count - Upto(s, k)})
           /\ Upto(s, 0) = 0
           /\ Upto(s, k + 1) \in Nat
<1>1. s.count \in Nat /\ page_size \in Nat
  BY CollectionAssumption DEF ShardType
<1>2. k * page_size \in Nat /\ (k + 1) * page_size = k * page_size + page_size
  BY <1>1
<1>3. 0 * page_size = 0
  BY <1>1
<1>4. Upto(s, k) \in Nat /\ Upto(s, k) <= s.count
  BY <1>1, <1>2 DEF Upto
<1>5. Upto(s, k) < s.count =>
        Upto(s, k + 1) - Upto(s, k) = Min({page_size, s.count - Upto(s, k)})
  <2>1. SUFFICES ASSUME Upto(s, k) < s.count
                 PROVE  Upto(s, k + 1) - Upto(s, k) = Min({page_size, s.count - Upto(s, k)})
    OBVIOUS
  <2>2. Upto(s, k) = k * page_size
    BY <1>1, <1>2, <2>1 DEF Upto
  <2>3. Upto(s, k + 1) = IF k * page_size + page_size <= s.count
                         THEN k * page_size + page_size ELSE s.count
    BY <1>2 DEF Upto
  <2>4. Min({page_size, s.count - Upto(s, k)}) =
            IF page_size <= s.count - Upto(s, k) THEN page_size ELSE s.count - Upto(s, k)
    BY <1>1, <1>4, MinOfTwo
  <2>5. QED
    BY <1>1, <1>2, <2>2, <2>3, <2>4
<1>6. Upto(s, k + 1) \in Nat
  BY <1>1, <1>2 DEF Upto
<1>7. Upto(s, 0) = 0
  BY <1>1, <1>3 DEF Upto
<1>8. QED
  BY <1>1, <1>4, <1>5, <1>6, <1>7

-----------------------------------------------------------------------------
(* What the files hold.  A page other than the last of its range is full,   *)
(* because a page is only taken while the total of the range is the one     *)
(* that was planned; so the number of a page alone says how many records    *)
(* come before it, in whichever download it was fetched.                    *)

SoundPage(f, s) ==
    /\ f.low = s.low /\ f.nr \in Nat \ {0}
    /\ Within(f.recs, s.low, s.high) = f.recs
    /\ Cardinality(f.recs) = Upto(s, f.nr) - Upto(s, f.nr - 1)

Filed(f) == \E s \in shards : SoundPage(f, s)

\* What a download has taken: pages with a manifest, no CRD twice, and of
\* every range as much as that many pages hold.
Retained(d) ==
    /\ pages[d] \subseteq manifests
    /\ \A p, q \in pages[d] : p # q => Crds(p.recs) \cap Crds(q.recs) = {}
    /\ \A r, q \in Recs(pages[d]) : r.crd = q.crd => r = q
    /\ \A s \in shards :
            Cardinality(Got(d, s)) = Upto(s, Cardinality(ShardPages(d, s)))

\* A page that may be taken next.
NextFile(d, s, f) ==
    SoundPage(f, s) /\ f.nr = page_number(d, s) /\ ValidPage(d, s, f.recs)

Writing(d) ==
    /\ pc[d] \in {"storing", "signing"} => \E s \in shards : NextFile(d, s, held[d])
    /\ pc[d] = "signing" => held[d] \in payloads \ manifests

\* Before there is a plan there is no file and no download.
Untouched ==
    /\ payloads = {} /\ manifests = {} /\ completions = {}
    /\ \A d \in Downloads : pc[d] = "idle" /\ pages[d] = {}

\* A payload without a manifest is removed only by the download that wrote it.
OwnPayloads ==
    \A d, e \in Downloads : pc[d] = "signing" /\ pc[e] = "signing" /\ d # e
        => held[d] # held[e]

FilesInv ==
    /\ ~Planned => Untouched
    /\ manifests \subseteq payloads /\ \A f \in payloads : Filed(f)
    /\ OwnPayloads
    /\ \A d \in Downloads : Retained(d) /\ Writing(d)
    /\ CompletionReconciles

LEMMA ShardsApart ==
    ASSUME Types, PlanInv, Planned, NEW s \in shards, NEW t \in shards, s # t
    PROVE  s.low # t.low /\ \A n \in Nat : s.low <= n /\ n <= s.high
                                => ~(t.low <= n /\ n <= t.high)
<1>1. s \in ShardType /\ t \in ShardType
  BY DEF Types, PlanTypes
<1>2. Disjoint(s, t) /\ s.low <= s.high /\ t.low <= t.high
  BY DEF PlanInv, ShardsPartition, Planned
<1>3. QED
  BY <1>1, <1>2 DEF ShardType, Disjoint

LEMMA HeldRecords ==
    ASSUME Types, NEW d \in Downloads
    PROVE  /\ Recs(pages[d]) \in SUBSET Record
           /\ \A s : Got(d, s) \in SUBSET Record
           /\ \A s : IsFiniteSet(ShardPages(d, s))
                        /\ Cardinality(ShardPages(d, s)) \in Nat
<1>1. pages[d] \subseteq PageFile /\ IsFiniteSet(pages[d])
  BY DEF Types, LocalTypes
<1>2. Recs(pages[d]) \in SUBSET Record
  BY <1>1 DEF Recs, PageFile
<1>3. \A s : ShardPages(d, s) \in SUBSET pages[d]
  BY DEF ShardPages
<1>4. QED
  BY <1>1, <1>2, <1>3, FS_Subset, FS_CardinalityType DEF Got, Within

(* A page that is taken.                                                    *)
LEMMA KeepRetained ==
    ASSUME Types, PlanInv, Planned, NEW d \in Downloads, NEW s \in shards,
           NEW f \in PageFile, Retained(d), NextFile(d, s, f), Keep(d, f),
           f \in manifests', manifests \subseteq manifests', shards' = shards
    PROVE  Retained(d)'
<1>1. /\ pages'[d] = pages[d] \cup {f} /\ f.recs \in SUBSET Record
      /\ Recs(pages'[d]) = Recs(pages[d]) \cup f.recs
  BY DEF Types, LocalTypes, Keep, Recs, PageFile
<1>2. /\ f.recs # {} /\ Crds(f.recs) \cap Crds(Recs(pages[d])) = {}
      /\ Cardinality(Crds(f.recs)) = Cardinality(f.recs)
      /\ f.low = s.low /\ Within(f.recs, s.low, s.high) = f.recs
      /\ f.nr = Cardinality(ShardPages(d, s)) + 1
      /\ Cardinality(f.recs) = Upto(s, f.nr) - Upto(s, f.nr - 1)
  BY DEF NextFile, SoundPage, ValidPage, page_number
<1>3. f \notin pages[d]
  BY <1>2 DEF Crds, Recs
<1>4. \A r, q \in f.recs : r.crd = q.crd => r = q
  BY <1>1, <1>2, CrdsCount
<1>5. pages'[d] \subseteq manifests'
  BY <1>1 DEF Retained
<1>6. \A p, q \in pages'[d] : p # q => Crds(p.recs) \cap Crds(q.recs) = {}
  <2>1. \A p \in pages[d] : Crds(p.recs) \subseteq Crds(Recs(pages[d]))
    BY DEF Crds, Recs
  <2>2. \A p \in pages[d] : Crds(p.recs) \cap Crds(f.recs) = {}
    BY <1>2, <2>1
  <2>3. QED
    BY <1>1, <2>2 DEF Retained
<1>7. \A r, q \in Recs(pages'[d]) : r.crd = q.crd => r = q
  <2>1. \A r \in Recs(pages[d]), q \in f.recs : r.crd # q.crd
    BY <1>2 DEF Crds
  <2>2. QED
    BY <1>1, <1>4, <2>1 DEF Retained
<1>8. ASSUME NEW t \in shards
      PROVE  Cardinality(Got(d, t)') = Upto(t, Cardinality(ShardPages(d, t)'))
  <2>1. /\ Cardinality(Got(d, t)) = Upto(t, Cardinality(ShardPages(d, t)))
        /\ Got(d, t)' = Got(d, t) \cup Within(f.recs, t.low, t.high)
    BY <1>1 DEF Retained, Got, Within
  <2>2. CASE t = s
    <3> DEFINE k == Cardinality(ShardPages(d, s))
    <3>1. k \in Nat /\ IsFiniteSet(ShardPages(d, s)) /\ Got(d, s) \in SUBSET Record
      BY HeldRecords
    <3>2. ShardPages(d, s)' = ShardPages(d, s) \cup {f} /\ f \notin ShardPages(d, s)
      BY <1>1, <1>2, <1>3 DEF ShardPages
    <3>3. Cardinality(ShardPages(d, s)') = k + 1
      BY <3>1, <3>2, FS_AddElement
    <3>4. Got(d, s) \cap f.recs = {}
      BY <1>2 DEF Got, Within, Crds
    <3>5. /\ IsFiniteSet(Got(d, s)) /\ IsFiniteSet(f.recs)
          /\ Cardinality(Got(d, s)) \in Nat /\ Cardinality(f.recs) \in Nat
      BY <1>1, <3>1, CrdsCount
    <3>6. Cardinality(Got(d, s) \cup f.recs) = Cardinality(Got(d, s)) + Cardinality(f.recs)
      <4>1. Cardinality(Got(d, s) \cap f.recs) = 0
        BY <3>4, FS_EmptySet
      <4>2. Cardinality(Got(d, s) \cup f.recs) =
                Cardinality(Got(d, s)) + Cardinality(f.recs)
                    - Cardinality(Got(d, s) \cap f.recs)
        BY <3>5, FS_Union
      <4>3. QED
        BY <3>5, <4>1, <4>2
    <3>7. f.nr = k + 1 /\ f.nr - 1 = k
      BY <1>2, <3>1
    <3>8. Upto(s, k) \in Nat /\ Upto(s, k + 1) \in Nat
      BY <3>1, UptoFacts DEF Types, PlanTypes
    <3>9. Cardinality(f.recs) = Upto(s, k + 1) - Upto(s, k)
      BY <1>2, <3>7
    <3>10. Got(d, s)' = Got(d, s) \cup f.recs /\ Cardinality(Got(d, s)) = Upto(s, k)
      BY <1>2, <2>1, <2>2
    <3> HIDE DEF k
    <3>11. Cardinality(Got(d, s)') = Upto(s, k + 1)
      BY <3>5, <3>6, <3>8, <3>9, <3>10
    <3>12. QED
      BY <2>2, <3>3, <3>11
  <2>3. CASE t # s
    <3>1. ShardPages(d, t)' = ShardPages(d, t)
      BY <1>1, <1>2, <2>3, ShardsApart DEF ShardPages
    <3>2. \A r \in f.recs : r.crd \in Nat /\ s.low <= r.crd /\ r.crd <= s.high
      BY <1>1, <1>2, CollectionAssumption DEF Within
    <3>3. Within(f.recs, t.low, t.high) = {}
      BY <2>3, <3>2, ShardsApart DEF Within
    <3>4. QED
      BY <2>1, <3>1, <3>3
  <2>4. QED
    BY <2>2, <2>3
<1>9. QED
  BY <1>5, <1>6, <1>7, <1>8 DEF Retained

(* A page that is fetched may be taken next.                                *)
LEMMA FetchedFile ==
    ASSUME Types, NEW d \in Downloads, NEW s \in shards, Retained(d),
           NextShard(d, s), NEW found, found = Within(index, s.low, s.high),
           NEW recs, recs = Page(found, shard_offset(d, s), requested_size(d, s)),
           Reconciled(Total(found), s), ValidPage(d, s, recs)
    PROVE  NextFile(d, s, [day |-> today, low |-> s.low, nr |-> page_number(d, s),
                           recs |-> recs])
<1> DEFINE k == Cardinality(ShardPages(d, s))
           offset == shard_offset(d, s)
           size == requested_size(d, s)
<1>1. s \in ShardType /\ found \in SUBSET Record /\ k \in Nat
  BY HeldRecords DEF Types, PlanTypes, SourceTypes, Within
<1>2. IsFiniteSet(found) /\ Cardinality(found) \in Nat
  BY <1>1, CrdsCount
<1>3. Cardinality(found) = s.count
  BY DEF Reconciled, Total
<1>4. offset = Upto(s, k) /\ offset < s.count
  BY DEF Retained, NextShard, OpenShards, shard_offset
<1>5. offset \in Nat /\ s.count \in Nat /\ Upto(s, k + 1) \in Nat
      /\ size = Upto(s, k + 1) - Upto(s, k) /\ Upto(s, k + 1) <= s.count
  <2>1. k + 1 \in Nat
    BY <1>1
  <2>2. Upto(s, k + 1) <= s.count
    BY <1>1, <2>1, UptoFacts
  <2>3. QED
    BY <1>1, <1>4, <2>2, UptoFacts DEF requested_size
<1>6. size \in Nat /\ offset + size <= s.count
  <2>1. size = Min({page_size, s.count - offset}) /\ page_size \in Nat
    BY CollectionAssumption DEF requested_size
  <2>2. size \in Nat
    BY <1>4, <1>5, <2>1, MinOfTwo
  <2>3. QED
    BY <1>4, <1>5, <2>2
<1>7. Cardinality(recs) = size
  BY <1>1, <1>3, <1>5, <1>6, PageCount
<1>8. Within(recs, s.low, s.high) = recs
  BY DEF Page, Within
<1>9. page_number(d, s) = k + 1 /\ page_number(d, s) - 1 = k
  BY <1>1 DEF page_number
<1> HIDE DEF k
<1>10. /\ Cardinality(recs) = Upto(s, page_number(d, s)) - Upto(s, page_number(d, s) - 1)
       /\ page_number(d, s) \in Nat \ {0}
  BY <1>1, <1>5, <1>7, <1>9
<1>11. QED
  BY <1>8, <1>10 DEF NextFile, SoundPage

-----------------------------------------------------------------------------
(* The steps of a download, and the files.                                 *)
(* The other downloads, in a step of one.                                   *)
SameLocals(e) == pc'[e] = pc[e] /\ pages'[e] = pages[e] /\ held'[e] = held[e]

LEMMA LocalsKept ==
    ASSUME Types, NEW d \in Downloads, NEW e \in Downloads, e # d, Download(d)
    PROVE  SameLocals(e)
<1>1. /\ e \in DOMAIN pc /\ e \in DOMAIN pages /\ e \in DOMAIN held
  BY DEF Types, LocalTypes
<1>2. ASSUME NEW how, End(d, how) PROVE SameLocals(e)
  BY <1>1, <1>2 DEF End, Go, Hold, SameLocals
<1>3. CASE StartDownload(d) \/ Seal(d) \/ Unlink(d) \/ Stop(d)
  BY <1>1, <1>2, <1>3 DEF StartDownload, Seal, Unlink, Stop, Go, SameLocals
<1>4. CASE SkipPage(d)
  BY <1>1, <1>2, <1>4 DEF SkipPage, Skip, Keep, SameLocals
<1>5. CASE FetchPage(d)
  <2>1. \/ \E how : End(d, how)
        \/ \E f : Go(d, "storing") /\ Hold(d, f) /\ UNCHANGED <<started, pages>>
    BY <1>5 DEF FetchPage, Take
  <2>2. QED
    BY <1>1, <1>2, <2>1 DEF Go, Hold, SameLocals
<1>6. CASE StorePayload(d) \/ StoreManifest(d)
  BY <1>1, <1>2, <1>6 DEF StorePayload, StoreManifest, Go, Keep, Hold, SameLocals
<1>7. CASE Complete(d)
  BY <1>1, <1>2, <1>7 DEF Complete, Go, Hold, SameLocals
<1>8. QED
  BY <1>3, <1>4, <1>5, <1>6, <1>7 DEF Download

LEMMA SameRetained ==
    ASSUME NEW e \in Downloads, SameLocals(e), shards' = shards,
           manifests \subseteq manifests', Retained(e)
    PROVE  Retained(e)'
<1>1. Recs(pages[e])' = Recs(pages[e])
  BY DEF Recs, SameLocals
<1>2. \A s : Got(e, s)' = Got(e, s) /\ ShardPages(e, s)' = ShardPages(e, s)
  BY <1>1 DEF Got, ShardPages, SameLocals
<1>3. QED
  BY <1>1, <1>2 DEF Retained, SameLocals

LEMMA SameNext ==
    ASSUME NEW e \in Downloads, pages'[e] = pages[e], NEW s, NEW f,
           NextFile(e, s, f)
    PROVE  NextFile(e, s, f)'
<1>1. Recs(pages[e])' = Recs(pages[e]) /\ ShardPages(e, s)' = ShardPages(e, s)
  BY DEF Recs, ShardPages
<1>2. page_number(e, s)' = page_number(e, s)
  BY <1>1 DEF page_number
<1>3. ValidPage(e, s, f.recs)'
  BY <1>1 DEF NextFile, ValidPage
<1>4. QED
  BY <1>2, <1>3 DEF NextFile

(* A step of a download keeps the invariant if it keeps its own part, the   *)
(* payloads that others are signing, and the completions.                   *)
LEMMA Reassemble ==
    ASSUME Types, FilesInv, NEW d \in Downloads, Planned, planning' = planning,
           shards' = shards, \A e \in Downloads : e # d => SameLocals(e),
           manifests \subseteq manifests', manifests' \subseteq payloads',
           \A f \in payloads' : Filed(f),
           \A e \in Downloads : e # d /\ pc[e] = "signing" =>
                /\ held[e] \in payloads' \ manifests'
                /\ pc'[d] = "signing" => held[e] # held'[d],
           Retained(d)', Writing(d)', CompletionReconciles'
    PROVE  FilesInv'
<1>1. Planned'
  BY DEF Planned
<1>2. \A f \in payloads' : Filed(f)'
  BY DEF Filed
<1>3. OwnPayloads'
  <2>1. SUFFICES ASSUME NEW e \in Downloads, NEW g \in Downloads, e # g,
                        pc'[e] = "signing", pc'[g] = "signing"
                 PROVE  held'[e] # held'[g]
    BY DEF OwnPayloads
  <2>2. CASE e # d /\ g # d
    BY <2>1, <2>2 DEF FilesInv, OwnPayloads, SameLocals
  <2>3. CASE e = d
    BY <2>1, <2>3 DEF SameLocals
  <2>4. CASE g = d
    BY <2>1, <2>4 DEF SameLocals
  <2>5. QED
    BY <2>2, <2>3, <2>4
<1>4. ASSUME NEW e \in Downloads, e # d
      PROVE  Retained(e)' /\ Writing(e)'
  <2>1. SameLocals(e) /\ Retained(e) /\ Writing(e)
    BY <1>4 DEF FilesInv
  <2>2. Retained(e)'
    BY <2>1, SameRetained
  <2>3. ASSUME pc'[e] \in {"storing", "signing"}
        PROVE  \E s \in shards' : NextFile(e, s, held[e])'
    <3>1. PICK s \in shards : NextFile(e, s, held[e])
      BY <2>1, <2>3 DEF Writing, SameLocals
    <3>2. PICK f : f = held[e]
      OBVIOUS
    <3>3. NextFile(e, s, f)'
      BY <2>1, <3>1, <3>2, SameNext DEF SameLocals
    <3>4. held'[e] = f
      BY <2>1, <3>2 DEF SameLocals
    <3>5. QED
      BY <3>3, <3>4
  <2>4. pc'[e] = "signing" => held'[e] \in payloads' \ manifests'
    BY <1>4, <2>1 DEF SameLocals
  <2>5. QED
    BY <2>2, <2>3, <2>4 DEF Writing
<1>5. QED
  BY <1>1, <1>2, <1>3, <1>4 DEF FilesInv

LEMMA CompletionsKept ==
    ASSUME CompletionReconciles, shards' = shards, completions' \subseteq completions,
           \A c \in completions' : c.pages \subseteq payloads' \cap manifests'
    PROVE  CompletionReconciles'
  BY DEF CompletionReconciles

(* A download that ends.                                                    *)
LEMMA EndRetained ==
    ASSUME Types, NEW d \in Downloads, NEW how \in Ended, End(d, how), shards' = shards
    PROVE  Retained(d)' /\ Writing(d)' /\ pc'[d] # "signing"
<1>1. pages'[d] = {} /\ pc'[d] \in Ended
  BY DEF End, Go, Types, LocalTypes
<1>2. \A s \in shards : Got(d, s)' = {} /\ ShardPages(d, s)' = {}
  BY <1>1 DEF Got, Within, Recs, ShardPages
<1>3. \A s \in shards : Upto(s, 0) = 0
  BY UptoFacts DEF Types, PlanTypes
<1>4. Retained(d)'
  BY <1>1, <1>2, <1>3, FS_EmptySet DEF Retained, Recs
<1>5. QED
  BY <1>1, <1>4 DEF Writing, Ended

LEMMA AtWorkPlanned ==
    ASSUME Types, FilesInv, NEW d \in Downloads, Download(d)
    PROVE  /\ Planned /\ planning' = planning /\ shards' = shards
           /\ index' = index /\ first' = first /\ gained' = gained /\ lost' = lost
<1>1. pc[d] = "idle" => Planned
  BY DEF Download, StartDownload, SkipPage, NextShard, FetchPage, StorePayload,
     StoreManifest, Complete, Seal, Unlink, Stop, At
<1>2. Planned
  BY <1>1 DEF FilesInv, Untouched
<1>3. UNCHANGED outside
  BY DEF Download, StartDownload, SkipPage, FetchPage, StorePayload,
     StoreManifest, Complete, Seal, Unlink, Stop
<1>4. QED
  BY <1>2, <1>3 DEF outside, planVars, history

LEMMA EndFiles ==
    ASSUME Types, FilesInv, NEW d \in Downloads, Download(d),
           NEW how \in Ended, End(d, how), UNCHANGED <<payloads, manifests, completions>>
    PROVE  FilesInv'
<1>1. /\ Planned /\ planning' = planning /\ shards' = shards
      /\ \A e \in Downloads : e # d => SameLocals(e)
  BY AtWorkPlanned, LocalsKept
<1>2. Retained(d)' /\ Writing(d)' /\ pc'[d] # "signing"
  BY <1>1, EndRetained
<1>3. CompletionReconciles'
  BY <1>1, CompletionsKept DEF FilesInv, CompletionReconciles
<1>4. \A e \in Downloads : pc[e] = "signing" => held[e] \in payloads' \ manifests'
  BY DEF FilesInv, Writing
<1>5. manifests' \subseteq payloads' /\ \A f \in payloads' : Filed(f)
  BY DEF FilesInv
<1>6. QED
  BY <1>1, <1>2, <1>3, <1>4, <1>5, Reassemble

LEMMA UnlinkFiles ==
    ASSUME Types, Holding, FilesInv, NEW d \in Downloads, Unlink(d)
    PROVE  FilesInv'
<1>1. /\ Planned /\ planning' = planning /\ shards' = shards
      /\ \A e \in Downloads : e # d => SameLocals(e)
  BY AtWorkPlanned, LocalsKept DEF Download
<1>2. /\ payloads' = payloads \ {held[d]} /\ completions' = completions \ {held[d]}
      /\ manifests' = manifests
  BY DEF Unlink
<1>3. Retained(d)' /\ Writing(d)' /\ pc'[d] # "signing"
  BY <1>1, EndRetained DEF Unlink, Ended
<1>4. held[d] \notin manifests
  <2>1. CASE pc[d] = "signing"
    BY <2>1 DEF FilesInv, Writing
  <2>2. CASE pc[d] = "sealing"
    <3>1. held[d] \in Completion /\ manifests \subseteq PageFile
      BY <2>2 DEF Holding, Types, FileTypes
    <3>2. \A f \in PageFile : "nr" \in DOMAIN f
      BY DEF PageFile
    <3>3. \A c \in Completion : "nr" \notin DOMAIN c
      BY DEF Completion
    <3>4. QED
      BY <3>1, <3>2, <3>3
  <2>3. QED
    BY <2>1, <2>2 DEF Unlink, At
<1>5. \A c \in completions' : c.pages \subseteq payloads' \cap manifests'
  BY <1>2, <1>4 DEF FilesInv, CompletionReconciles
<1>6. CompletionReconciles'
  BY <1>1, <1>2, <1>5, CompletionsKept DEF FilesInv
<1>7. manifests' \subseteq payloads' /\ \A f \in payloads' : Filed(f)
  BY <1>2, <1>4 DEF FilesInv
<1>8. ASSUME NEW e \in Downloads, e # d, pc[e] = "signing"
      PROVE  held[e] \in payloads' \ manifests'
  <2>1. held[e] \in payloads \ manifests
    BY <1>8 DEF FilesInv, Writing
  <2>2. held[e] # held[d]
    <3>1. CASE pc[d] = "signing"
      BY <1>8, <3>1 DEF FilesInv, OwnPayloads
    <3>2. CASE pc[d] = "sealing"
      <4>1. held[d] \in Completion /\ held[e] \in PageFile
        BY <1>8, <3>2 DEF Holding
      <4>2. \A f \in PageFile : "nr" \in DOMAIN f
        BY DEF PageFile
      <4>3. \A c \in Completion : "nr" \notin DOMAIN c
        BY DEF Completion
      <4>4. QED
        BY <4>1, <4>2, <4>3
    <3>3. QED
      BY <3>1, <3>2 DEF Unlink, At
  <2>3. QED
    BY <1>2, <2>1, <2>2
<1>9. QED
  BY <1>1, <1>2, <1>3, <1>6, <1>7, <1>8, Reassemble

LEMMA StartFiles ==
    ASSUME Types, FilesInv, NEW d \in Downloads, StartDownload(d)
    PROVE  FilesInv'
<1>1. /\ Planned /\ planning' = planning /\ shards' = shards
      /\ \A e \in Downloads : e # d => SameLocals(e)
  BY AtWorkPlanned, LocalsKept DEF Download
<1>2. /\ pages' = pages /\ held' = held /\ pc'[d] = "paging"
      /\ UNCHANGED <<payloads, manifests, completions>>
  BY DEF StartDownload, Go, files, Types, LocalTypes
<1>3. Retained(d)'
  <2>1. Retained(d)
    BY DEF FilesInv
  <2>2. Recs(pages[d])' = Recs(pages[d])
    BY <1>2 DEF Recs
  <2>3. \A s : Got(d, s)' = Got(d, s) /\ ShardPages(d, s)' = ShardPages(d, s)
    BY <1>2, <2>2 DEF Got, ShardPages
  <2>4. QED
    BY <1>1, <1>2, <2>1, <2>2, <2>3 DEF Retained
<1>4. Writing(d)'
  BY <1>2 DEF Writing
<1>5. CompletionReconciles'
  BY <1>1, <1>2, CompletionsKept DEF FilesInv, CompletionReconciles
<1>6. \A e \in Downloads : pc[e] = "signing" => held[e] \in payloads' \ manifests'
  BY <1>2 DEF FilesInv, Writing
<1>7. manifests' \subseteq payloads' /\ \A f \in payloads' : Filed(f)
  BY <1>2 DEF FilesInv
<1>8. QED
  BY <1>1, <1>2, <1>3, <1>4, <1>5, <1>6, <1>7, Reassemble

LEMMA SkipFiles ==
    ASSUME Types, PlanInv, FilesInv, NEW d \in Downloads, SkipPage(d)
    PROVE  FilesInv'
<1>1. /\ Planned /\ planning' = planning /\ shards' = shards
      /\ \A e \in Downloads : e # d => SameLocals(e)
  BY AtWorkPlanned, LocalsKept DEF Download
<1>2. UNCHANGED <<payloads, manifests, completions>>
  BY DEF SkipPage, files
<1>3. PICK s \in shards :
        /\ NextShard(d, s)
        /\ IF Cardinality(existing_paths(d, s)) > 1 THEN End(d, "drift")
           ELSE \E f \in existing_paths(d, s) : Skip(d, s, f)
  BY DEF SkipPage
<1>4. CASE \E how \in Ended : End(d, how)
  BY <1>2, <1>4, EndFiles DEF Download
<1>5. CASE ~\E how \in Ended : End(d, how)
  <2>1. PICK f \in existing_paths(d, s) : Skip(d, s, f)
    BY <1>3, <1>5 DEF Ended
  <2>2. /\ f \in manifests /\ ValidPage(d, s, f.recs)
        /\ Keep(d, f) /\ UNCHANGED <<pc, started, held>>
    BY <1>5, <2>1 DEF Skip, Ended
  <2>3. f \in payloads /\ f.low = s.low /\ f.nr = page_number(d, s) /\ f \in PageFile
    BY <2>1 DEF existing_paths, Types, FileTypes
  <2>4. PICK t \in shards : SoundPage(f, t)
    BY <2>3 DEF FilesInv, Filed
  <2>5. t = s
    BY <1>1, <2>3, <2>4, ShardsApart DEF SoundPage
  <2>6. NextFile(d, s, f)
    BY <2>2, <2>3, <2>4, <2>5 DEF NextFile
  <2>7. Retained(d)'
    BY <1>1, <1>2, <2>2, <2>3, <2>6, KeepRetained DEF FilesInv
  <2>8. Writing(d)' /\ pc'[d] # "signing"
    BY <1>3, <2>2 DEF Writing, NextShard, At
  <2>9. CompletionReconciles'
    BY <1>1, <1>2, CompletionsKept DEF FilesInv, CompletionReconciles
  <2>10. \A e \in Downloads : pc[e] = "signing" => held[e] \in payloads' \ manifests'
    BY <1>2 DEF FilesInv, Writing
  <2>11. manifests' \subseteq payloads' /\ \A g \in payloads' : Filed(g)
    BY <1>2 DEF FilesInv
  <2>12. QED
    BY <1>1, <1>2, <2>7, <2>8, <2>9, <2>10, <2>11, Reassemble
<1>6. QED
  BY <1>4, <1>5

LEMMA FetchFiles ==
    ASSUME Types, PlanInv, FilesInv, NEW d \in Downloads, FetchPage(d)
    PROVE  FilesInv'
<1>1. /\ Planned /\ planning' = planning /\ shards' = shards
      /\ \A e \in Downloads : e # d => SameLocals(e)
  BY AtWorkPlanned, LocalsKept DEF Download
<1>2. UNCHANGED <<payloads, manifests, completions>>
  BY DEF FetchPage, files
<1>3. PICK s \in shards :
        /\ NextShard(d, s)
        /\ LET found == Within(index, s.low, s.high)
           IN  Take(d, s, found, Page(found, shard_offset(d, s), requested_size(d, s)))
  BY DEF FetchPage
<1>4. CASE \E how \in Ended : End(d, how)
  BY <1>2, <1>4, EndFiles DEF Download
<1>5. CASE ~\E how \in Ended : End(d, how)
  <2>1. PICK found : found = Within(index, s.low, s.high)
    OBVIOUS
  <2>2. PICK recs : recs = Page(found, shard_offset(d, s), requested_size(d, s))
    OBVIOUS
  <2>3. PICK f : f = [day |-> today, low |-> s.low, nr |-> page_number(d, s),
                      recs |-> recs]
    OBVIOUS
  <2>4. Take(d, s, found, recs)
    BY <1>3, <2>1, <2>2
  <2>5. /\ Reconciled(Total(found), s) /\ ValidPage(d, s, recs)
        /\ Go(d, "storing") /\ Hold(d, f) /\ UNCHANGED <<started, pages>>
    BY <1>5, <2>3, <2>4 DEF Take, Ended
  <2>6. NextFile(d, s, f)
    BY <1>3, <2>1, <2>2, <2>3, <2>5, FetchedFile DEF FilesInv
  <2>7. pc'[d] = "storing" /\ held'[d] = f
    BY <2>5 DEF Go, Hold, Types, LocalTypes
  <2>8. NextFile(d, s, f)'
    BY <2>5, <2>6, SameNext
  <2>9. Writing(d)'
    BY <1>1, <2>7, <2>8 DEF Writing
  <2>10. Retained(d)'
    <3>1. Retained(d) /\ Recs(pages[d])' = Recs(pages[d])
      BY <2>5 DEF FilesInv, Recs
    <3>2. \A t : Got(d, t)' = Got(d, t) /\ ShardPages(d, t)' = ShardPages(d, t)
      BY <2>5, <3>1 DEF Got, ShardPages
    <3>3. QED
      BY <1>1, <1>2, <2>5, <3>1, <3>2 DEF Retained
  <2>11. CompletionReconciles'
    BY <1>1, <1>2, CompletionsKept DEF FilesInv, CompletionReconciles
  <2>12. \A e \in Downloads : pc[e] = "signing" => held[e] \in payloads' \ manifests'
    BY <1>2 DEF FilesInv, Writing
  <2>13. manifests' \subseteq payloads' /\ \A g \in payloads' : Filed(g)
    BY <1>2 DEF FilesInv
  <2>14. QED
    BY <1>1, <1>2, <2>7, <2>9, <2>10, <2>11, <2>12, <2>13, Reassemble
<1>6. QED
  BY <1>4, <1>5

LEMMA PayloadFiles ==
    ASSUME Types, Holding, PlanInv, FilesInv, NEW d \in Downloads, StorePayload(d)
    PROVE  FilesInv'
<1>1. /\ Planned /\ planning' = planning /\ shards' = shards
      /\ \A e \in Downloads : e # d => SameLocals(e)
  BY AtWorkPlanned, LocalsKept DEF Download
<1>2. UNCHANGED <<manifests, completions>> /\ pc[d] = "storing"
  BY DEF StorePayload, At
<1>3. held[d] \in PageFile
  BY <1>2 DEF Holding
<1>4. PICK s \in shards : NextFile(d, s, held[d])
  BY <1>2 DEF FilesInv, Writing
<1>5. CASE held[d] \notin payloads
  <2>1. /\ payloads' = payloads \cup {held[d]}
        /\ Go(d, "signing") /\ UNCHANGED <<started, pages, held>>
    BY <1>5 DEF StorePayload
  <2>2. pc'[d] = "signing" /\ held'[d] = held[d]
    BY <2>1 DEF Go, Types, LocalTypes
  <2>3. PICK f : f = held[d]
    OBVIOUS
  <2>4. NextFile(d, s, f)'
    BY <1>4, <2>1, <2>3, SameNext
  <2>5. f \in payloads' \ manifests'
    BY <1>2, <1>5, <2>1, <2>3 DEF FilesInv
  <2>6. Writing(d)'
    BY <1>1, <2>2, <2>3, <2>4, <2>5 DEF Writing
  <2>7. Retained(d)'
    <3>1. Retained(d) /\ Recs(pages[d])' = Recs(pages[d])
      BY <2>1 DEF FilesInv, Recs
    <3>2. \A t : Got(d, t)' = Got(d, t) /\ ShardPages(d, t)' = ShardPages(d, t)
      BY <2>1, <3>1 DEF Got, ShardPages
    <3>3. QED
      BY <1>1, <1>2, <2>1, <3>1, <3>2 DEF Retained
  <2>8. \A g \in payloads' : Filed(g)
    BY <1>4, <2>1 DEF FilesInv, Filed, NextFile
  <2>9. \A e \in Downloads : pc[e] = "signing" =>
            held[e] \in payloads' \ manifests' /\ held[e] # held'[d]
    BY <1>2, <1>5, <2>1, <2>2 DEF FilesInv, Writing
  <2>10. \A c \in completions' : c.pages \subseteq payloads' \cap manifests'
    BY <1>2, <2>1 DEF FilesInv, CompletionReconciles
  <2>11. CompletionReconciles'
    BY <1>1, <1>2, <2>10, CompletionsKept DEF FilesInv
  <2>12. manifests' \subseteq payloads'
    BY <1>2, <2>1 DEF FilesInv
  <2>13. QED
    BY <1>1, <1>2, <2>6, <2>7, <2>8, <2>9, <2>11, <2>12, Reassemble
<1>6. CASE held[d] \in payloads /\ held[d] \notin manifests
  <2>1. End(d, "refused") /\ UNCHANGED payloads
    BY <1>6 DEF StorePayload
  <2>2. QED
    BY <1>2, <2>1, EndFiles DEF Download, Ended
<1>7. CASE held[d] \in payloads /\ held[d] \in manifests
  <2>1. /\ Go(d, "paging") /\ Keep(d, held[d]) /\ UNCHANGED payloads
    BY <1>7 DEF StorePayload
  <2>2. pc'[d] = "paging"
    BY <2>1 DEF Go, Types, LocalTypes
  <2>3. Retained(d)'
    BY <1>1, <1>2, <1>3, <1>4, <1>7, <2>1, KeepRetained DEF FilesInv
  <2>4. Writing(d)'
    BY <2>2 DEF Writing
  <2>5. CompletionReconciles'
    BY <1>1, <1>2, <2>1, CompletionsKept DEF FilesInv, CompletionReconciles
  <2>6. \A e \in Downloads : pc[e] = "signing" => held[e] \in payloads' \ manifests'
    BY <1>2, <2>1 DEF FilesInv, Writing
  <2>7. manifests' \subseteq payloads' /\ \A g \in payloads' : Filed(g)
    BY <1>2, <2>1 DEF FilesInv
  <2>8. QED
    BY <1>1, <1>2, <2>2, <2>3, <2>4, <2>5, <2>6, <2>7, Reassemble
<1>8. QED
  BY <1>5, <1>6, <1>7

LEMMA ManifestFiles ==
    ASSUME Types, Holding, PlanInv, FilesInv, NEW d \in Downloads, StoreManifest(d)
    PROVE  FilesInv'
<1>1. /\ Planned /\ planning' = planning /\ shards' = shards
      /\ \A e \in Downloads : e # d => SameLocals(e)
  BY AtWorkPlanned, LocalsKept DEF Download
<1>2. /\ pc[d] = "signing" /\ manifests' = manifests \cup {held[d]}
      /\ Go(d, "paging") /\ Keep(d, held[d]) /\ UNCHANGED <<payloads, completions>>
  BY DEF StoreManifest, At
<1>3. held[d] \in PageFile
  BY <1>2 DEF Holding
<1>4. /\ \E s \in shards : NextFile(d, s, held[d])
      /\ held[d] \in payloads
  BY <1>2 DEF FilesInv, Writing
<1>5. PICK s \in shards : NextFile(d, s, held[d])
  BY <1>4
<1>6. pc'[d] = "paging"
  BY <1>2 DEF Go, Types, LocalTypes
<1>7. Retained(d)'
  BY <1>1, <1>2, <1>3, <1>5, KeepRetained DEF FilesInv
<1>8. Writing(d)'
  BY <1>6 DEF Writing
<1>9. CompletionReconciles'
  BY <1>1, <1>2, CompletionsKept DEF FilesInv, CompletionReconciles
<1>10. \A e \in Downloads : e # d /\ pc[e] = "signing" =>
            held[e] \in payloads' \ manifests'
  BY <1>2 DEF FilesInv, Writing, OwnPayloads
<1>11. manifests' \subseteq payloads' /\ \A g \in payloads' : Filed(g)
  BY <1>2, <1>4 DEF FilesInv
<1>12. manifests \subseteq manifests'
  BY <1>2
<1>13. QED
  BY <1>1, <1>6, <1>7, <1>8, <1>9, <1>10, <1>11, <1>12, Reassemble

(* The pages of a download that has every range, as its completion.         *)
LEMMA PagesReconcile ==
    ASSUME Types, FilesInv, NEW d \in Downloads, OpenShards(d) = {}
    PROVE  /\ pages[d] \subseteq payloads \cap manifests
           /\ \A s \in shards : /\ Cardinality(Got(d, s)) = s.count
                                /\ Cardinality(Crds(Got(d, s))) = s.count
           /\ \A p, q \in pages[d] : p # q => Crds(p.recs) \cap Crds(q.recs) = {}
<1>1. Retained(d) /\ manifests \subseteq payloads
  BY DEF FilesInv
<1>2. ASSUME NEW s \in shards
      PROVE  Cardinality(Got(d, s)) = s.count /\ Cardinality(Crds(Got(d, s))) = s.count
  <2>1. Got(d, s) \in SUBSET Record /\ Cardinality(ShardPages(d, s)) \in Nat
    BY HeldRecords
  <2>2. \A r, q \in Got(d, s) : r.crd = q.crd => r = q
    BY <1>1 DEF Retained, Got, Within
  <2>3. Cardinality(Crds(Got(d, s))) = Cardinality(Got(d, s))
    BY <2>1, <2>2, CrdsCount
  <2>4. /\ Cardinality(Got(d, s)) \in Nat /\ s.count \in Nat
        /\ Cardinality(Got(d, s)) <= s.count
    <3>1. s \in ShardType
      BY DEF Types, PlanTypes
    <3>2. PICK k \in Nat : k = Cardinality(ShardPages(d, s))
      BY <2>1
    <3>3. Cardinality(Got(d, s)) = Upto(s, k)
      BY <1>1, <3>2 DEF Retained
    <3>4. QED
      BY <3>1, <3>3, UptoFacts
  <2>5. ~(Cardinality(Got(d, s)) < s.count)
    BY DEF OpenShards
  <2>6. QED
    BY <2>3, <2>4, <2>5
<1>3. QED
  BY <1>1, <1>2 DEF Retained

LEMMA CompleteFiles ==
    ASSUME Types, PlanInv, FilesInv, NEW d \in Downloads, Complete(d)
    PROVE  FilesInv'
<1>1. /\ Planned /\ planning' = planning /\ shards' = shards
      /\ \A e \in Downloads : e # d => SameLocals(e)
  BY AtWorkPlanned, LocalsKept DEF Download
<1>2. UNCHANGED <<payloads, manifests>> /\ OpenShards(d) = {}
  BY DEF Complete
<1>3. CASE \E how \in Ended : End(d, how) /\ UNCHANGED completions
  BY <1>2, <1>3, EndFiles DEF Download
<1>4. CASE ~\E how \in Ended : End(d, how) /\ UNCHANGED completions
  <2>1. PICK c : c = [day |-> today, pages |-> pages[d]]
    OBVIOUS
  <2>2. /\ completions' = completions \cup {c}
        /\ Go(d, "sealing") /\ UNCHANGED <<started, pages>>
    BY <1>4, <2>1 DEF Complete, Ended
  <2>3. pc'[d] = "sealing"
    BY <2>2 DEF Go, Types, LocalTypes
  <2>4. Retained(d)'
    <3>1. Retained(d) /\ Recs(pages[d])' = Recs(pages[d])
      BY <2>2 DEF FilesInv, Recs
    <3>2. \A t : Got(d, t)' = Got(d, t) /\ ShardPages(d, t)' = ShardPages(d, t)
      BY <2>2, <3>1 DEF Got, ShardPages
    <3>3. QED
      BY <1>1, <1>2, <2>2, <3>1, <3>2 DEF Retained
  <2>5. Writing(d)'
    BY <2>3 DEF Writing
  <2>6. CompletionReconciles'
    <3>1. c.pages = pages[d]
      BY <2>1
    <3>2. \A s \in shards : Within(Recs(c.pages), s.low, s.high) = Got(d, s)
      BY <3>1 DEF Got
    <3>3. QED
      BY SMTT(30), <1>1, <1>2, <2>2, <3>1, <3>2, PagesReconcile DEF FilesInv, CompletionReconciles
  <2>7. \A e \in Downloads : pc[e] = "signing" => held[e] \in payloads' \ manifests'
    BY <1>2 DEF FilesInv, Writing
  <2>8. manifests' \subseteq payloads' /\ \A g \in payloads' : Filed(g)
    BY <1>2 DEF FilesInv
  <2>9. QED
    BY <1>1, <1>2, <2>3, <2>4, <2>5, <2>6, <2>7, <2>8, Reassemble
<1>5. QED
  BY <1>3, <1>4

LEMMA DownloadFiles ==
    ASSUME Types, Holding, PlanInv, FilesInv, NEW d \in Downloads, Download(d)
    PROVE  FilesInv'
<1>1. CASE Seal(d)
  BY <1>1, EndFiles DEF Seal, Ended
<1>2. CASE Stop(d)
  BY <1>2, EndFiles DEF Stop, Ended, files
<1>3. QED
  BY <1>1, <1>2, StartFiles, SkipFiles, FetchFiles, PayloadFiles, ManifestFiles,
     CompleteFiles, UnlinkFiles DEF Download

LEMMA UntouchedFiles ==
    ASSUME Types, Untouched
    PROVE  FilesInv
<1>1. \A d \in Downloads, s \in shards : Got(d, s) = {} /\ ShardPages(d, s) = {}
  BY DEF Untouched, Got, Within, Recs, ShardPages
<1>2. \A s \in shards : Upto(s, 0) = 0
  BY UptoFacts DEF Types, PlanTypes
<1>3. \A d \in Downloads : Recs(pages[d]) = {}
  BY DEF Untouched, Recs
<1>4. \A d \in Downloads : Retained(d)
  BY <1>1, <1>2, <1>3, FS_EmptySet DEF Retained, Untouched
<1>5. QED
  BY <1>4 DEF FilesInv, Untouched, OwnPayloads, Writing, CompletionReconciles

(* Nothing is downloaded until the planner is done, and it is done for good. *)
LEMMA PlanFiles ==
    ASSUME Types, FilesInv, Plan
    PROVE  FilesInv' /\ Untouched
<1>1. ~Planned /\ UNCHANGED <<files, locals>>
  BY DEF Plan, StartPlan, Probe, FinishPlan, SignPlan, StopPlan, SamePlan, Planned
<1>2. Untouched
  BY <1>1 DEF FilesInv
<1>3. Untouched'
  BY <1>1, <1>2 DEF Untouched, files, locals
<1>4. Types'
  BY PlanStepTypes
<1>5. FilesInv'
  <2>1. \A d \in Downloads, s \in shards' : Got(d, s)' = {} /\ ShardPages(d, s)' = {}
    BY <1>3 DEF Untouched, Got, Within, Recs, ShardPages
  <2>2. \A s \in shards' : Upto(s, 0) = 0
    BY <1>4, UptoFacts DEF Types, PlanTypes
  <2>3. \A d \in Downloads : Recs(pages[d])' = {}
    BY <1>3 DEF Untouched, Recs
  <2>4. \A d \in Downloads : Retained(d)'
    BY <1>3, <2>1, <2>2, <2>3, FS_EmptySet DEF Retained, Untouched
  <2>5. QED
    BY <1>3, <2>4 DEF FilesInv, Untouched, OwnPayloads, Writing, CompletionReconciles
<1>6. QED
  BY <1>2, <1>5

LEMMA SameFiles ==
    ASSUME FilesInv, UNCHANGED <<planning, shards, files, locals>>
    PROVE  FilesInv'
<1>1. \A d \in Downloads : SameLocals(d) /\ Retained(d) /\ Writing(d)
  BY DEF FilesInv, SameLocals, locals
<1>2. \A d \in Downloads : Retained(d)'
  BY <1>1, SameRetained DEF files
<1>3. ASSUME NEW d \in Downloads
      PROVE  Writing(d)'
  <2>1. ASSUME pc'[d] \in {"storing", "signing"}
        PROVE  \E s \in shards' : NextFile(d, s, held[d])'
    <3>1. PICK s \in shards : NextFile(d, s, held[d])
      BY <1>1, <2>1 DEF Writing, SameLocals
    <3>2. PICK f : f = held[d]
      OBVIOUS
    <3>3. NextFile(d, s, f)'
      BY <1>1, <3>1, <3>2, SameNext DEF SameLocals
    <3>4. held'[d] = f
      BY <1>1, <3>2 DEF SameLocals
    <3>5. QED
      BY <3>3, <3>4
  <2>2. QED
    BY <1>1, <2>1 DEF Writing, SameLocals, files
<1>4. CompletionReconciles' /\ OwnPayloads' /\ (~Planned' => Untouched')
  BY DEF FilesInv, CompletionReconciles, OwnPayloads, Untouched, Planned, files, locals
<1>5. manifests' \subseteq payloads' /\ \A f \in payloads' : Filed(f)'
  BY DEF FilesInv, Filed, files
<1>6. QED
  BY <1>2, <1>3, <1>4, <1>5 DEF FilesInv

LEMMA InitFiles == Init => FilesInv
<1>1. Init => Types /\ Untouched
  BY InitTypes DEF Init, Untouched
<1>2. QED
  BY <1>1, UntouchedFiles

LEMMA NextFiles == IInv /\ FilesInv /\ [Next]_vars => FilesInv'
<1> SUFFICES ASSUME IInv, FilesInv, [Next]_vars
             PROVE  FilesInv'
  OBVIOUS
<1>1. Types /\ Holding /\ PlanInv
  BY IInvParts
<1>2. CASE Plan
  BY <1>1, <1>2, PlanFiles
<1>3. CASE \E d \in Downloads : Download(d)
  BY <1>1, <1>3, DownloadFiles
<1>4. CASE World \/ UNCHANGED vars
  <2>1. UNCHANGED <<planning, shards, files, locals>>
    BY <1>4 DEF World, Gain, Lose, NextDay, planVars, vars, outside
  <2>2. QED
    BY <2>1, SameFiles
<1>5. QED
  BY <1>2, <1>3, <1>4 DEF Next, World

LEMMA FilesInvariance == Spec => [](IInv /\ FilesInv)
  BY InitInv, NextInv, InitFiles, NextFiles, PTL DEF Spec

\* Whatever pages a completion takes over from earlier downloads, of other
\* days or of runs that were stopped, it has every range in full, no CRD
\* twice, and no page without its manifest.
THEOREM CompletionsReconcile == Spec => []CompletionReconciles
<1>1. FilesInv => CompletionReconciles
  BY DEF FilesInv
<1>2. QED
  BY <1>1, FilesInvariance, PTL

-----------------------------------------------------------------------------
(* What was seen of the source.                                             *)

(* Injections of the parts of a set into disjoint parts of another.         *)
LEMMA PartsFit ==
    ASSUME NEW S, NEW W, IsFiniteSet(W), NEW I,
           NEW A \in [I -> SUBSET S], NEW B \in [I -> SUBSET W],
           \A r \in S : \E i \in I : r \in A[i],
           \A i, j \in I : i # j => B[i] \cap B[j] = {},
           \A i \in I : \E g : g \in Injection(A[i], B[i])
    PROVE  IsFiniteSet(S) /\ Cardinality(S) <= Cardinality(W)
<1> DEFINE g == [i \in I |-> CHOOSE h : h \in Injection(A[i], B[i])]
           part == [r \in S |-> CHOOSE i \in I : r \in A[i]]
           f == [r \in S |-> g[part[r]][r]]
<1>1. \A i \in I : g[i] \in Injection(A[i], B[i])
  OBVIOUS
<1>2. \A r \in S : part[r] \in I /\ r \in A[part[r]]
  OBVIOUS
<1>3. \A i \in I : g[i] \in [A[i] -> B[i]] /\ \A a, b \in A[i] : g[i][a] = g[i][b] => a = b
  BY <1>1, Fun_InjectionProperties
<1> HIDE DEF g, part
<1>4. \A r \in S : g[part[r]][r] \in B[part[r]]
  BY <1>2, <1>3
<1>5. f \in [S -> W]
  BY <1>2, <1>4
<1>6. \A a, b \in S : f[a] = f[b] => a = b
  <2>1. SUFFICES ASSUME NEW a \in S, NEW b \in S, f[a] = f[b]
                 PROVE  a = b
    OBVIOUS
  <2>2. g[part[a]][a] = g[part[b]][b]
    BY <2>1
  <2>3. part[a] = part[b]
    BY <1>2, <1>4, <2>2
  <2>4. QED
    BY <1>2, <1>3, <2>2, <2>3
<1> HIDE DEF f
<1>7. f \in Injection(S, W)
  BY <1>5, <1>6, Fun_IsInj
<1>8. QED
  BY <1>7, FS_Injection

(* Two sets of a size: what one has alone, it has as often as the other.    *)
LEMMA SameSizeSwap ==
    ASSUME NEW P \in SUBSET Record, NEW R \in SUBSET Record,
           Cardinality(P) = Cardinality(R)
    PROVE  \E g : g \in Injection(P \ R, R \ P)
<1>1. IsFiniteSet(P) /\ IsFiniteSet(R) /\ IsFiniteSet(P \ R) /\ IsFiniteSet(R \ P)
  BY CrdsCount, FS_Difference
<1>2. /\ Cardinality(P \ R) = Cardinality(P) - Cardinality(P \cap R)
      /\ Cardinality(R \ P) = Cardinality(R) - Cardinality(R \cap P)
  BY <1>1, FS_Difference
<1>3. P \cap R = R \cap P
  OBVIOUS
<1>4. Cardinality(P \ R) = Cardinality(R \ P)
  BY <1>2, <1>3
<1>5. ExistsBijection(P \ R, R \ P)
  BY <1>1, <1>4, FS_SameCardinalityBij
<1>6. ExistsInjection(P \ R, R \ P)
  BY <1>5, Fun_ExistsBijEquiv
<1>7. QED
  BY <1>6, Fun_ExistsInj

Stable == first \ lost

\* The pages retained, or fetched and about to be.
Fetched == Recs(payloads \cup {held[d] : d \in {e \in Downloads : pc[e] = "storing"}})

\* A range had its count at a moment when it held every stable record, and
\* of the records that were seen later none but others.
Through(s, stable, seen, others) ==
    \E P \in SUBSET Record :
        /\ Cardinality(P) = s.count
        /\ Within(P, s.low, s.high) = P
        /\ Within(stable, s.low, s.high) \subseteq P
        /\ Within(seen, s.low, s.high) \subseteq P \cup others

\* The records that came in, no more than the times that one did.
Newcomers(G) ==
    /\ Cardinality(G) <= gained
    /\ \A s \in shards : Through(s, Stable, Fetched \cup index, G)

DriftInv ==
    /\ Stable \subseteq index
    /\ planning # "none" => \A r \in first : r.crd <= highest
    /\ Fetched \subseteq index \cup lost
    /\ \E G \in SUBSET Record : Newcomers(G)
    /\ \A s \in shards : Through(s, Stable, Fetched, lost)

LEMMA ThroughLess ==
    ASSUME NEW s, NEW stable, NEW seen, NEW others, Through(s, stable, seen, others),
           NEW less, less \subseteq stable, NEW more, others \subseteq more,
           NEW newer, newer \subseteq seen \cup more
    PROVE  Through(s, less, newer, more)
<1>1. PICK P \in SUBSET Record :
        /\ Cardinality(P) = s.count
        /\ Within(P, s.low, s.high) = P
        /\ Within(stable, s.low, s.high) \subseteq P
        /\ Within(seen, s.low, s.high) \subseteq P \cup others
  BY DEF Through
<1>2. /\ Within(less, s.low, s.high) \subseteq P
      /\ Within(newer, s.low, s.high) \subseteq P \cup more
  BY <1>1 DEF Within
<1>3. QED
  BY <1>1, <1>2 DEF Through

(* A collection misses a stable record only for one of the others.          *)
LEMMA MissedAtMost ==
    ASSUME Types, PlanInv, Planned, DriftInv, NEW others \in SUBSET Record,
           \A s \in shards : Through(s, Stable, Fetched, others),
           NEW R \in SUBSET Fetched, Fetched \subseteq Record,
           \A s \in shards : Cardinality(Within(R, s.low, s.high)) = s.count
    PROVE  Cardinality(Stable \ R) <= Cardinality(others)
<1> DEFINE A == [s \in shards |-> Within(Stable \ R, s.low, s.high)]
           B == [s \in shards |-> Within(others, s.low, s.high)]
<1>1. A \in [shards -> SUBSET (Stable \ R)] /\ B \in [shards -> SUBSET others]
  BY DEF Within
<1>2. \A r \in Stable \ R : \E s \in shards : r \in A[s]
  <2>1. SUFFICES ASSUME NEW r \in Stable \ R
                 PROVE  \E s \in shards : r \in A[s]
    OBVIOUS
  <2>2. r.crd \in 1..highest
    BY CollectionAssumption DEF DriftInv, Stable, Planned, Types, SourceTypes, PlanTypes
  <2>3. PICK s \in shards : s.low <= r.crd /\ r.crd <= s.high
    BY <2>2 DEF PlanInv, ShardsPartition, Planned
  <2>4. r \in A[s]
    BY <2>3 DEF Within
  <2>5. QED
    BY <2>4
<1>3. \A s, t \in shards : s # t => B[s] \cap B[t] = {}
  <2>1. SUFFICES ASSUME NEW s \in shards, NEW t \in shards, s # t,
                        NEW r \in B[s], r \in B[t]
                 PROVE  FALSE
    OBVIOUS
  <2>2. /\ r.crd \in Nat /\ s.low <= r.crd /\ r.crd <= s.high
        /\ t.low <= r.crd /\ r.crd <= t.high
    BY <2>1, CollectionAssumption DEF Within
  <2>3. QED
    BY <2>1, <2>2, ShardsApart
<1>4. ASSUME NEW s \in shards
      PROVE  \E g : g \in Injection(A[s], B[s])
  <2>1. PICK P \in SUBSET Record :
            /\ Cardinality(P) = s.count
            /\ Within(P, s.low, s.high) = P
            /\ Within(Stable, s.low, s.high) \subseteq P
            /\ Within(Fetched, s.low, s.high) \subseteq P \cup others
    BY DEF Through
  <2> DEFINE Q == Within(R, s.low, s.high)
  <2>2. Q \in SUBSET Record /\ Cardinality(P) = Cardinality(Q)
    BY <2>1 DEF Within
  <2>3. A[s] \subseteq P \ Q
    BY <2>1 DEF Within
  <2>4. Q \ P \subseteq B[s]
    BY <2>1 DEF Within
  <2> HIDE DEF Q, A, B
  <2>5. PICK g : g \in Injection(P \ Q, Q \ P)
    BY <2>2, SameSizeSwap
  <2>6. /\ g \in [P \ Q -> Q \ P]
        /\ \A a, b \in P \ Q : g[a] = g[b] => a = b
    BY <2>5, Fun_InjectionProperties
  <2> DEFINE h == [a \in A[s] |-> g[a]]
  <2>7. h \in [A[s] -> B[s]] /\ \A a, b \in A[s] : h[a] = h[b] => a = b
    BY <2>3, <2>4, <2>6
  <2> HIDE DEF h
  <2>8. h \in Injection(A[s], B[s])
    BY <2>7, Fun_IsInj
  <2>9. QED
    BY <2>8
<1>5. IsFiniteSet(others)
  BY CrdsCount
<1>6. PICK missed : missed = Stable \ R
  OBVIOUS
<1> HIDE DEF A, B
<1>7. A \in [shards -> SUBSET missed] /\ \A r \in missed : \E s \in shards : r \in A[s]
  BY <1>1, <1>2, <1>6
<1>8. IsFiniteSet(missed) /\ Cardinality(missed) <= Cardinality(others)
  BY <1>1, <1>3, <1>4, <1>5, <1>7, PartsFit
<1>9. QED
  BY <1>6, <1>8

LEMMA DriftBounded ==
    ASSUME Types, PlanInv, FilesInv, DriftInv
    PROVE  DriftCosts
<1>1. SUFFICES ASSUME NEW c \in completions
               PROVE  Cardinality(Stable \ Recs(c.pages)) <= Exchanges
  BY DEF DriftCosts, Stable
<1>2. Planned
  BY DEF FilesInv, Untouched
<1>3. /\ Recs(c.pages) \in SUBSET Fetched
      /\ \A s \in shards : Cardinality(Within(Recs(c.pages), s.low, s.high)) = s.count
  BY DEF FilesInv, CompletionReconciles, Fetched, Recs
<1>4. Fetched \subseteq Record /\ lost \in SUBSET Record
  BY DEF DriftInv, Types, SourceTypes
<1>5. Cardinality(Stable \ Recs(c.pages)) <= Cardinality(lost)
  BY <1>2, <1>3, <1>4, MissedAtMost DEF DriftInv
<1>6. PICK G \in SUBSET Record : Newcomers(G)
  BY DEF DriftInv
<1>7. \A s \in shards : Through(s, Stable, Fetched, G)
  BY <1>6, ThroughLess DEF Newcomers
<1>8. Cardinality(Stable \ Recs(c.pages)) <= Cardinality(G)
  BY <1>2, <1>3, <1>4, <1>7, MissedAtMost
<1>9. /\ Stable \ Recs(c.pages) \in SUBSET Record
      /\ gained \in Nat
  BY DEF Types, SourceTypes, Stable
<1>10. /\ Cardinality(Stable \ Recs(c.pages)) \in Nat
       /\ Cardinality(lost) \in Nat /\ Cardinality(G) \in Nat
  BY <1>4, <1>9, CrdsCount
<1>11. QED
  BY <1>5, <1>6, <1>8, <1>9, <1>10 DEF Newcomers, Exchanges

(* A download adds to what was seen only when it fetches a page.            *)
LEMMA FetchedLess ==
    ASSUME NEW d \in Downloads, \A e \in Downloads : e # d => SameLocals(e),
           pc'[d] # "storing",
           \A f \in payloads' \ payloads : pc[d] = "storing" /\ f = held[d]
    PROVE  Fetched' \subseteq Fetched
<1> DEFINE Files == payloads \cup {held[e] : e \in {g \in Downloads : pc[g] = "storing"}}
<1>1. Files' \subseteq Files
  <2>1. payloads' \subseteq Files
    OBVIOUS
  <2>2. ASSUME NEW e \in Downloads, pc'[e] = "storing"
        PROVE  held'[e] \in Files
    BY <2>2 DEF SameLocals
  <2>3. QED
    BY <2>1, <2>2
<1>2. QED
  BY <1>1 DEF Fetched, Recs

LEMMA FetchedMore ==
    ASSUME Types, NEW d \in Downloads, Download(d)
    PROVE  \/ Fetched' \subseteq Fetched
           \/ \E s \in shards :
                LET found == Within(index, s.low, s.high) IN
                Reconciled(Total(found), s) /\ Fetched' \subseteq Fetched \cup found
<1>1. \A e \in Downloads : e # d => SameLocals(e)
  BY LocalsKept
<1>2. CASE pc'[d] # "storing"
  <2>1. \A f \in payloads' \ payloads : pc[d] = "storing" /\ f = held[d]
    BY DEF Download, StartDownload, SkipPage, FetchPage, StorePayload,
       StoreManifest, Complete, Seal, Unlink, Stop, At, files
  <2>2. QED
    BY <1>1, <1>2, <2>1, FetchedLess
<1>3. CASE pc'[d] = "storing"
  <2>1. FetchPage(d)
    <3>1. ~\E how \in Ended : End(d, how)
      BY <1>3 DEF End, Go, Ended, Types, LocalTypes
    <3>2. ~SkipPage(d)
      BY <1>3, <3>1 DEF SkipPage, NextShard, At, Skip, Ended
    <3>3. ~StartDownload(d) /\ ~StorePayload(d) /\ ~StoreManifest(d) /\ ~Complete(d)
      BY <1>3, <3>1 DEF StartDownload, StorePayload, StoreManifest, Complete, Go, Ended,
         Types, LocalTypes
    <3>4. QED
      BY <3>1, <3>2, <3>3 DEF Download, Seal, Unlink, Stop, Ended
  <2>2. PICK s \in shards :
          /\ NextShard(d, s)
          /\ LET found == Within(index, s.low, s.high)
             IN  Take(d, s, found, Page(found, shard_offset(d, s), requested_size(d, s)))
    BY <2>1 DEF FetchPage
  <2>3. PICK found : found = Within(index, s.low, s.high)
    OBVIOUS
  <2>4. PICK recs : recs = Page(found, shard_offset(d, s), requested_size(d, s))
    OBVIOUS
  <2>5. Take(d, s, found, recs)
    BY <2>2, <2>3, <2>4
  <2>6. Reconciled(Total(found), s) /\ held'[d].recs = recs
    <3>1. ~End(d, "drift")
      BY <1>3 DEF End, Go, Types, LocalTypes
    <3>2. QED
      BY <2>5, <3>1 DEF Take, Hold, Types, LocalTypes
  <2>7. recs \subseteq found
    BY <2>4 DEF Page
  <2>8. Fetched' \subseteq Fetched \cup recs
    <3> DEFINE Files == payloads \cup {held[e] : e \in {g \in Downloads : pc[g] = "storing"}}
    <3>1. payloads' = payloads
      BY <2>1 DEF FetchPage, files
    <3>2. \A e \in Downloads : e # d /\ pc'[e] = "storing" => held'[e] \in Files
      BY <1>1 DEF SameLocals
    <3>3. \A f \in Files' : f \in Files \/ f.recs = recs
      BY <2>6, <3>1, <3>2
    <3>4. QED
      BY <3>3 DEF Fetched, Recs
  <2>9. QED
    BY <2>3, <2>6, <2>7, <2>8
<1>4. QED
  BY <1>2, <1>3

LEMMA CountedRange ==
    ASSUME NEW s, NEW stable, stable \subseteq index, index \subseteq Record,
           Cardinality(Within(index, s.low, s.high)) = s.count
    PROVE  Through(s, stable, index, {})
<1>1. PICK P : P = Within(index, s.low, s.high)
  OBVIOUS
<1>2. /\ P \in SUBSET Record /\ Within(P, s.low, s.high) = P
      /\ Within(stable, s.low, s.high) \subseteq P
  BY <1>1 DEF Within
<1>3. QED
  BY <1>1, <1>2 DEF Through

LEMMA DownloadDrift ==
    ASSUME Types, PlanInv, FilesInv, DriftInv, NEW d \in Downloads, Download(d)
    PROVE  DriftInv'
<1>1. /\ Planned /\ planning' = planning /\ shards' = shards
      /\ index' = index /\ first' = first /\ gained' = gained /\ lost' = lost
  BY AtWorkPlanned
<1>2. highest' = highest
  BY DEF Download, StartDownload, SkipPage, FetchPage, StorePayload, StoreManifest,
     Complete, Seal, Unlink, Stop, outside, planVars
<1>3. Stable' = Stable
  BY <1>1 DEF Stable
<1>4. Fetched' \subseteq Fetched \cup index
  BY FetchedMore DEF Within
<1>5. Fetched' \subseteq index \cup lost
  BY <1>4 DEF DriftInv
<1>6. PICK G \in SUBSET Record : Newcomers(G)
  BY DEF DriftInv
<1>7. ASSUME NEW s \in shards
      PROVE  Through(s, Stable, Fetched' \cup index, G)
  BY <1>4, <1>6, ThroughLess DEF Newcomers
<1>8. Newcomers(G)'
  BY <1>1, <1>3, <1>6, <1>7 DEF Newcomers
<1>9. ASSUME NEW s \in shards
      PROVE  Through(s, Stable, Fetched', lost)
  <2>1. Through(s, Stable, Fetched, lost)
    BY DEF DriftInv
  <2>2. CASE Fetched' \subseteq Fetched
    BY <2>1, <2>2, ThroughLess
  <2>3. CASE ~(Fetched' \subseteq Fetched)
    <3>1. PICK t \in shards :
            /\ Reconciled(Total(Within(index, t.low, t.high)), t)
            /\ Fetched' \subseteq Fetched \cup Within(index, t.low, t.high)
      BY <2>3, FetchedMore
    <3>2. CASE s = t
      <4>1. Cardinality(Within(index, t.low, t.high)) = t.count
        BY <3>1 DEF Reconciled, Total
      <4>2. Through(s, Stable, index, {})
        BY <3>2, <4>1, CountedRange DEF DriftInv, Types, SourceTypes
      <4>3. QED
        BY <1>5, <4>2, ThroughLess
    <3>3. CASE s # t
      <4>1. PICK P \in SUBSET Record :
                /\ Cardinality(P) = s.count
                /\ Within(P, s.low, s.high) = P
                /\ Within(Stable, s.low, s.high) \subseteq P
                /\ Within(Fetched, s.low, s.high) \subseteq P \cup lost
        BY <2>1 DEF Through
      <4>2. \A r \in Within(index, t.low, t.high) :
                r.crd \in Nat /\ t.low <= r.crd /\ r.crd <= t.high
        BY CollectionAssumption DEF Within, Types, SourceTypes
      <4>3. \A r \in Within(index, t.low, t.high) : ~(s.low <= r.crd /\ r.crd <= s.high)
        BY <1>1, <3>3, <4>2, ShardsApart
      <4>4. Within(Fetched', s.low, s.high) \subseteq Within(Fetched, s.low, s.high)
        BY <3>1, <4>3 DEF Within
      <4>5. QED
        BY <4>1, <4>4 DEF Through
    <3>4. QED
      BY <3>2, <3>3
  <2>4. QED
    BY <2>2, <2>3
<1>10. QED
  BY <1>1, <1>2, <1>3, <1>5, <1>6, <1>8, <1>9 DEF DriftInv

LEMMA UntouchedFetched == Untouched => Fetched = {}
<1>1. Untouched => payloads \cup {held[d] : d \in {e \in Downloads : pc[e] = "storing"}} = {}
  BY DEF Untouched
<1>2. QED
  BY <1>1 DEF Fetched, Recs

LEMMA NoShards ==
    ASSUME shards = {}, gained \in Nat
    PROVE  Newcomers({})
<1>1. Cardinality({}) = 0
  BY FS_EmptySet
<1>2. QED
  BY <1>1 DEF Newcomers

(* A range is accepted with the number of records it has at that moment.    *)
LEMMA AcceptedCount ==
    ASSUME Plan, ~StartPlan, NEW s \in shards', s \notin shards
    PROVE  Cardinality(Within(index, s.low, s.high)) = s.count
<1>1. Probe
  BY DEF Plan, FinishPlan, SignPlan, StopPlan, SamePlan
<1>2. PICK total : /\ total = Total(Within(index, Top.low, Top.high))
                   /\ Accept(total) \/ Split(total) \/ GiveUp(total)
  BY <1>1 DEF Probe
<1>3. /\ total.exact
      /\ s = [low |-> Top.low, high |-> Top.high, count |-> total.value]
  BY <1>2 DEF Accept, Split, GiveUp, Fits
<1>4. total.value = Cardinality(Within(index, Top.low, Top.high))
  BY <1>2, <1>3 DEF Total
<1>5. QED
  BY <1>3, <1>4

LEMMA PlanDrift ==
    ASSUME Types, PlanInv, FilesInv, DriftInv, Plan
    PROVE  DriftInv'
<1>1. Fetched' = {} /\ Fetched = {}
  <2>1. Untouched /\ UNCHANGED <<files, locals>>
    BY PlanFiles DEF Plan, StartPlan, Probe, FinishPlan, SignPlan, StopPlan, SamePlan
  <2>2. Fetched = {} /\ Fetched' = Fetched
    BY <2>1, UntouchedFetched DEF Fetched, files, locals
  <2>3. QED
    BY <2>2
<1>2. index' = index /\ lost' = lost /\ gained' = gained
  BY DEF Plan, StartPlan, Probe, FinishPlan, SignPlan, StopPlan, SamePlan, history
<1>3. CASE StartPlan
  <2>1. /\ shards' = {} /\ Stable' \subseteq index
        /\ \A r \in first' : r.crd <= highest'
    BY <1>3 DEF StartPlan, PlanInv, Stable
  <2>2. Newcomers({})'
    <3>1. Cardinality({}) = 0 /\ gained' \in Nat
      BY <1>2, FS_EmptySet DEF Types, SourceTypes
    <3>2. QED
      BY <2>1, <3>1 DEF Newcomers
  <2>3. QED
    BY <1>1, <1>2, <2>1, <2>2 DEF DriftInv
<1>4. CASE ~StartPlan
  <2>1. /\ first' = first /\ highest' = highest /\ planning # "none"
    BY <1>4 DEF Plan, Probe, FinishPlan, SignPlan, StopPlan, SamePlan, history
  <2>2. Stable' = Stable /\ Stable \subseteq index
    BY <1>2, <2>1 DEF Stable, DriftInv
  <2>3. PICK G \in SUBSET Record : Newcomers(G)
    BY DEF DriftInv
  <2>4. ASSUME NEW s \in shards'
        PROVE  Through(s, Stable, index, G) /\ Through(s, Stable, {}, lost)
    <3>1. CASE s \in shards
      <4>1. Through(s, Stable, {} \cup index, G) /\ Through(s, Stable, {}, lost)
        BY <1>1, <2>3, <3>1 DEF Newcomers, DriftInv
      <4>2. QED
        BY <4>1, ThroughLess
    <3>2. CASE s \notin shards
      <4>1. Cardinality(Within(index, s.low, s.high)) = s.count
        BY <1>4, <3>2, AcceptedCount
      <4>2. Through(s, Stable, index, {})
        BY <2>2, <4>1, CountedRange DEF Types, SourceTypes
      <4>3. QED
        BY <4>2, ThroughLess
    <3>3. QED
      BY <3>1, <3>2
  <2>5. Newcomers(G)'
    <3>1. Fetched' \cup index' = index
      BY <1>1, <1>2
    <3>2. \A s \in shards' : Through(s, Stable', Fetched' \cup index', G)
      BY <2>2, <2>4, <3>1
    <3>3. QED
      BY <1>2, <2>3, <3>2 DEF Newcomers
  <2>6. \A s \in shards' : Through(s, Stable', Fetched', lost')
    BY <1>1, <1>2, <2>2, <2>4
  <2>7. QED
    BY <1>1, <1>2, <2>1, <2>2, <2>3, <2>5, <2>6 DEF DriftInv
<1>5. QED
  BY <1>3, <1>4

LEMMA WorldDrift ==
    ASSUME Types, DriftInv, World
    PROVE  DriftInv'
<1>1. UNCHANGED <<planVars, files, locals, first>>
  BY DEF World, Gain, Lose, NextDay, history
<1>2. shards' = shards /\ planning' = planning /\ highest' = highest /\ Fetched' = Fetched
  BY <1>1 DEF planVars, Fetched, files, locals
<1>3. PICK G \in SUBSET Record : Newcomers(G)
  BY DEF DriftInv
<1>4. /\ \A s \in shards : /\ Through(s, Stable, Fetched \cup index, G)
                           /\ Through(s, Stable, Fetched, lost)
      /\ Cardinality(G) <= gained /\ Cardinality(G) \in Nat /\ gained \in Nat
  BY <1>3, CrdsCount DEF Newcomers, DriftInv, Types, SourceTypes
<1>5. CASE NextDay
  <2>1. index' = index /\ lost' = lost /\ gained' = gained /\ Stable' = Stable
    BY <1>5 DEF NextDay, history, Stable
  <2>2. Newcomers(G)'
    BY <1>2, <1>3, <2>1 DEF Newcomers
  <2>3. QED
    BY <1>1, <1>2, <1>3, <2>1, <2>2 DEF DriftInv
<1>6. CASE \E r \in Record : Gain(r)
  <2>1. PICK r \in Record : Gain(r)
    BY <1>6
  <2>2. /\ index' = index \cup {r} /\ gained' = gained + 1 /\ lost' = lost
        /\ Stable' = Stable
    BY <2>1 DEF Gain, Stable
  <2>3. Cardinality(G \cup {r}) <= gained + 1
    <3>1. IsFiniteSet(G)
      BY CrdsCount
    <3>2. Cardinality(G \cup {r}) = Cardinality(G) \/ Cardinality(G \cup {r}) = Cardinality(G) + 1
      BY <3>1, FS_AddElement
    <3>3. QED
      BY <1>4, <3>2
  <2>4. \A s \in shards : Through(s, Stable, Fetched \cup (index \cup {r}), G \cup {r})
    BY <1>4, ThroughLess
  <2>5. PICK H \in SUBSET Record : H = G \cup {r}
    OBVIOUS
  <2>6. Newcomers(H)'
    BY <1>2, <2>2, <2>3, <2>4, <2>5 DEF Newcomers
  <2>7. QED
    BY <1>1, <1>2, <2>2, <2>6 DEF DriftInv
<1>7. CASE \E r \in Record : Lose(r)
  <2>1. PICK r \in Record : Lose(r)
    BY <1>7
  <2>2. /\ index' = index \ {r} /\ gained' = gained /\ lost' = lost \cup {r}
        /\ first' = first
    BY <2>1 DEF Lose
  <2>3. Stable' = Stable \ {r}
    BY <2>2 DEF Stable
  <2>4. \A s \in shards : /\ Through(s, Stable \ {r}, Fetched \cup (index \ {r}), G)
                          /\ Through(s, Stable \ {r}, Fetched, lost \cup {r})
    BY <1>4, ThroughLess
  <2>5. Newcomers(G)'
    BY <1>2, <1>4, <2>2, <2>3, <2>4 DEF Newcomers
  <2>6. /\ Stable' \subseteq index' /\ Fetched' \subseteq index' \cup lost'
    BY <1>2, <2>2, <2>3 DEF DriftInv
  <2>7. \A s \in shards' : Through(s, Stable', Fetched', lost')
    BY <1>2, <2>2, <2>3, <2>4
  <2>8. QED
    BY <1>2, <1>3, <2>2, <2>5, <2>6, <2>7 DEF DriftInv
<1>8. QED
  BY <1>5, <1>6, <1>7 DEF World

LEMMA InitDrift == Init => DriftInv
<1> SUFFICES ASSUME Init
             PROVE  DriftInv
  OBVIOUS
<1>1. Untouched /\ Types
  BY InitTypes DEF Init, Untouched
<1>2. Fetched = {}
  BY <1>1, UntouchedFetched
<1>3. Newcomers({})
  BY <1>1, NoShards DEF Init, Types, SourceTypes
<1>4. QED
  BY <1>2, <1>3 DEF DriftInv, Init, Stable

LEMMA NextDrift == IInv /\ FilesInv /\ DriftInv /\ [Next]_vars => DriftInv'
<1> SUFFICES ASSUME IInv, FilesInv, DriftInv, [Next]_vars
             PROVE  DriftInv'
  OBVIOUS
<1>1. Types /\ Holding /\ PlanInv
  BY IInvParts
<1>2. CASE Plan
  BY <1>1, <1>2, PlanDrift
<1>3. CASE \E d \in Downloads : Download(d)
  BY <1>1, <1>3, DownloadDrift
<1>4. CASE World
  BY <1>1, <1>4, WorldDrift
<1>5. CASE UNCHANGED vars
  BY <1>5 DEF DriftInv, Stable, Fetched, Newcomers, vars, outside, planVars, history,
     files, locals
<1>6. QED
  BY <1>2, <1>3, <1>4, <1>5 DEF Next, World

\* What a collection misses of the records that the source held throughout
\* is never more than the records that came in, nor than those that left,
\* however the changes fall between the probes and the pages.
THEOREM DriftIsBounded == Spec => []DriftCosts
<1>1. IInv /\ FilesInv /\ DriftInv => DriftCosts
  BY IInvParts, DriftBounded
<1>2. QED
  BY <1>1, InitInv, NextInv, InitFiles, NextFiles, InitDrift, NextDrift, PTL DEF Spec

-----------------------------------------------------------------------------
(* A source that stays as it was planned.                                   *)

(* What the sum over the ranges is: the value for all of them of any        *)
(* function that takes the ranges of a set one by one.                      *)
Summing(sum) ==
    sum = [S \in SUBSET shards |->
              IF S = {} THEN 0
              ELSE LET s == CHOOSE t \in S : TRUE IN s.count + sum[S \ {s}]]

LEMMA SumIsUnique ==
    ASSUME IsFiniteSet(shards), NEW g, Summing(g)
    PROVE  expected_individual_count = g[shards]
<1> DEFINE h == CHOOSE sum : Summing(sum)
<1>1. expected_individual_count = h[shards]
  BY DEF expected_individual_count, MapThenSumSet, MapThenFoldSet, Summing
<1>2. Summing(h)
  OBVIOUS
<1> HIDE DEF h
<1>3. ASSUME NEW S \in SUBSET shards, h[S] # g[S]
      PROVE  \E T \in SUBSET S : T # S /\ h[T] # g[T]
  <2>1. S # {}
    BY <1>2, <1>3 DEF Summing
  <2>2. PICK s : s = CHOOSE t \in S : TRUE
    OBVIOUS
  <2>3. s \in S /\ S \ {s} \in SUBSET shards
    BY <2>1, <2>2
  <2>4. h[S] = s.count + h[S \ {s}] /\ g[S] = s.count + g[S \ {s}]
    BY ZenonT(40), <1>2, <2>1, <2>2 DEF Summing
  <2>5. h[S \ {s}] # g[S \ {s}]
    BY <1>3, <2>4
  <2>6. QED
    BY <2>3, <2>5
<1>4. \A S \in SUBSET shards : h[S] = g[S]
  <2> DEFINE less == StrictSubsetOrdering(shards)
             Differ == {S \in SUBSET shards : h[S] # g[S]}
  <2>1. IsWellFoundedOn(less, SUBSET shards)
    BY FS_StrictSubsetOrderingWellFounded, FS_FiniteSubsetsOfFinite
  <2>2. ASSUME Differ # {}
        PROVE  FALSE
    <3>1. PICK S \in Differ : \A T \in Differ : <<T, S>> \notin less
      <4>1. Differ \subseteq SUBSET shards
        OBVIOUS
      <4> HIDE DEF less, Differ
      <4>2. QED
        BY <2>1, <2>2, <4>1, WFMin
    <3>2. PICK T \in SUBSET S : T # S /\ h[T] # g[T]
      BY <1>3, <3>1
    <3>3. T \in Differ
      BY <3>1, <3>2
    <3>4. <<T, S>> \in less
      BY <3>1, <3>2, <3>3 DEF StrictSubsetOrdering
    <3>5. QED
      BY <3>1, <3>3, <3>4
  <2>3. QED
    BY <2>2
<1>5. QED
  BY <1>1, <1>4

(* A plan that is there has finitely many ranges.                           *)
LEMMA FewShards ==
    ASSUME Types, PlanInv, Planned
    PROVE  IsFiniteSet(shards)
<1> DEFINE f == [s \in shards |-> s.low]
<1>1. \A s \in shards : s.low \in Nat \ {0} /\ s.low <= s.high /\ s.high <= highest
      /\ s.high \in Nat /\ highest \in Nat
  BY DEF Types, PlanTypes, ShardType, PlanInv, ShardsPartition, Planned
<1>2. f \in [shards -> 1..highest]
  BY <1>1
<1>3. \A s, t \in shards : f[s] = f[t] => s = t
  BY ShardsApart
<1> HIDE DEF f
<1>4. f \in Injection(shards, 1..highest)
  BY <1>2, <1>3, Fun_IsInj
<1>5. IsFiniteSet(1..highest)
  BY FS_Interval DEF Types, PlanTypes
<1>6. QED
  BY <1>4, <1>5, FS_Injection

(* The records of a download that has every range number the total of the   *)
(* plan: it never ends there, whatever the source does.                     *)
LEMMA AllRetrieved ==
    ASSUME Types, PlanInv, FilesInv, Planned, NEW d \in Downloads, OpenShards(d) = {}
    PROVE  Cardinality(Crds(Recs(pages[d]))) = expected_individual_count
<1> DEFINE has == Recs(pages[d])
           Of(S) == {r \in has : \E s \in S : s.low <= r.crd /\ r.crd <= s.high}
           g == [S \in SUBSET shards |-> Cardinality(Of(S))]
<1>1. has \in SUBSET Record /\ \A S : Of(S) \in SUBSET Record
  BY HeldRecords
<1>2. \A r \in has : r.crd \in Nat
  BY <1>1, CollectionAssumption
<1>3. ASSUME NEW S \in SUBSET shards, S # {}, NEW s, s = CHOOSE t \in S : TRUE
      PROVE  g[S] = s.count + g[S \ {s}]
  <2>1. s \in S /\ s \in shards
    BY <1>3
  <2>2. Of(S) = Got(d, s) \cup Of(S \ {s})
    BY <2>1 DEF Got, Within
  <2>3. \A t \in S \ {s} : \A n \in Nat : s.low <= n /\ n <= s.high
                                        => ~(t.low <= n /\ n <= t.high)
    BY <2>1, ShardsApart
  <2>4. Got(d, s) \cap Of(S \ {s}) = {}
    BY <1>2, <2>3 DEF Got, Within
  <2>5. Cardinality(Got(d, s)) = s.count
    BY <2>1, PagesReconcile
  <2>6. /\ IsFiniteSet(Got(d, s)) /\ IsFiniteSet(Of(S \ {s}))
        /\ Cardinality(Got(d, s)) \in Nat /\ Cardinality(Of(S \ {s})) \in Nat
    BY <1>1, CrdsCount, HeldRecords
  <2> HIDE DEF Of, has
  <2>7. Cardinality(Got(d, s) \cap Of(S \ {s})) = 0
    BY <2>4, FS_EmptySet
  <2>8. Cardinality(Of(S)) = Cardinality(Got(d, s)) + Cardinality(Of(S \ {s})) - 0
    BY <2>2, <2>6, <2>7, FS_Union
  <2>9. S \ {s} \in SUBSET shards
    OBVIOUS
  <2>10. QED
    BY <2>5, <2>6, <2>8, <2>9
<1>4. g[{}] = 0
  <2>1. Of({}) = {} /\ g[{}] = Cardinality(Of({}))
    OBVIOUS
  <2>2. QED
    BY <2>1, FS_EmptySet
<1>5. Summing(g)
  <2>1. DOMAIN g = SUBSET shards
    OBVIOUS
  <2>2. \A S \in SUBSET shards :
            g[S] = IF S = {} THEN 0
                   ELSE LET s == CHOOSE t \in S : TRUE IN s.count + g[S \ {s}]
    BY <1>3, <1>4
  <2>3. g = [S \in SUBSET shards |-> g[S]]
    OBVIOUS
  <2> HIDE DEF g
  <2>4. QED
    BY <2>2, <2>3 DEF Summing
<1>6. expected_individual_count = g[shards]
  <2> HIDE DEF g
  <2>1. QED
    BY <1>5, FewShards, SumIsUnique
<1>7. Of(shards) = has
  <2>1. ASSUME NEW p \in pages[d], NEW r \in p.recs
        PROVE  \E s \in shards : s.low <= r.crd /\ r.crd <= s.high
    <3>1. PICK s \in shards : SoundPage(p, s)
      BY DEF FilesInv, Retained, Filed
    <3>2. QED
      BY <3>1 DEF SoundPage, Within
  <2>2. QED
    BY <2>1 DEF Recs
<1>8. Cardinality(Crds(has)) = Cardinality(has)
  <2>1. \A r, q \in has : r.crd = q.crd => r = q
    BY DEF FilesInv, Retained
  <2>2. QED
    BY <1>1, <2>1, CrdsCount
<1>9. g[shards] = Cardinality(Of(shards))
  OBVIOUS
<1> HIDE DEF g, Of, has
<1>10. QED
  BY <1>6, <1>7, <1>8, <1>9 DEF has

LEMMA UptoGrows ==
    ASSUME NEW s \in ShardType, NEW j \in Nat, NEW k \in Nat, j <= k
    PROVE  Upto(s, j) <= Upto(s, k)
<1>1. s.count \in Nat /\ page_size \in Nat
  BY CollectionAssumption DEF ShardType
<1>2. PICK m \in Nat : k = j + m
  <2>1. k - j \in Nat /\ k = j + (k - j)
    OBVIOUS
  <2>2. QED
    BY <2>1
<1>3. j * page_size \in Nat /\ m * page_size \in Nat
  BY <1>1, <1>2
<1>4. k * page_size = j * page_size + m * page_size
  BY <1>1, <1>2
<1>5. QED
  BY <1>1, <1>3, <1>4 DEF Upto

(* Nothing has come in or left since the plan was started, and no CRD has   *)
(* two records.                                                             *)
Quiet == gained = 0 /\ lost = {} /\ Cardinality(Crds(first)) = Cardinality(first)

(* The n-th page of a range, as the plan's index has it.                    *)
NthPage(s, n) ==
    Page(Within(first, s.low, s.high), Upto(s, n - 1), Upto(s, n) - Upto(s, n - 1))

PlannedPage(f) == \A s \in shards : f.low = s.low => f.recs = NthPage(s, f.nr)

(* A download takes the pages of a range by number.                         *)
Numbered(d) ==
    \A s \in shards, p \in pages[d] :
        p.low = s.low => p.nr <= Cardinality(ShardPages(d, s))

QuietInv ==
    /\ \A d \in Downloads : Numbered(d)
    /\ Quiet =>
        /\ index = first
        /\ \A s \in shards : Cardinality(Within(first, s.low, s.high)) = s.count
        /\ \A f \in payloads : PlannedPage(f)
        /\ \A d \in Downloads : /\ pc[d] = "storing" => PlannedPage(held[d])
                                /\ pc[d] # "drift"

(* The next page of a download is the one for its number.                   *)
LEMMA NextIsNth ==
    ASSUME Types, FilesInv, NEW d \in Downloads, NEW s \in shards, NextShard(d, s)
    PROVE  LET k == Cardinality(ShardPages(d, s)) IN
           /\ k \in Nat /\ page_number(d, s) = k + 1
           /\ shard_offset(d, s) = Upto(s, k) /\ Upto(s, k) < s.count
           /\ Page(Within(first, s.low, s.high),
                   shard_offset(d, s), requested_size(d, s)) = NthPage(s, k + 1)
           /\ requested_size(d, s) \in Nat \ {0}
           /\ shard_offset(d, s) + requested_size(d, s) <= s.count
<1> DEFINE k == Cardinality(ShardPages(d, s))
<1>1. s \in ShardType /\ k \in Nat /\ s.count \in Nat
  BY HeldRecords DEF Types, PlanTypes, ShardType
<1>2. shard_offset(d, s) = Upto(s, k) /\ Upto(s, k) < s.count
  BY DEF FilesInv, Retained, NextShard, OpenShards, shard_offset
<1>3. /\ Upto(s, k) \in Nat /\ Upto(s, k + 1) \in Nat
      /\ requested_size(d, s) = Upto(s, k + 1) - Upto(s, k)
  BY <1>1, <1>2, UptoFacts DEF requested_size
<1>4. Upto(s, k + 1) <= s.count
  <2>1. k + 1 \in Nat
    BY <1>1
  <2>2. QED
    BY <1>1, <2>1, UptoFacts
<1>5. requested_size(d, s) \in Nat \ {0}
  <2>1. page_size \in Nat \ {0}
    BY CollectionAssumption
  <2>2. requested_size(d, s) =
            IF page_size <= s.count - Upto(s, k) THEN page_size ELSE s.count - Upto(s, k)
    <3>1. s.count - Upto(s, k) \in Int /\ page_size \in Int
      BY <1>1, <1>3, <2>1
    <3>2. requested_size(d, s) = Min({page_size, s.count - Upto(s, k)})
      BY <1>2 DEF requested_size
    <3>3. QED
      BY <3>1, <3>2, MinOfTwo
  <2>3. QED
    BY <1>1, <1>2, <1>3, <2>1, <2>2
<1>6. (k + 1) - 1 = k /\ page_number(d, s) = k + 1
  BY <1>1 DEF page_number
<1> HIDE DEF k
<1>7. shard_offset(d, s) + requested_size(d, s) <= s.count
  BY <1>1, <1>2, <1>3, <1>4
<1>8. QED
  BY <1>1, <1>2, <1>3, <1>5, <1>6, <1>7 DEF NthPage, k

(* In a quiet source it is valid.                                           *)
LEMMA NthIsValid ==
    ASSUME Types, PlanInv, FilesInv, QuietInv, Quiet, Planned,
           NEW d \in Downloads, NEW s \in shards, NextShard(d, s),
           NEW recs, recs = NthPage(s, page_number(d, s))
    PROVE  ValidPage(d, s, recs)
<1> DEFINE k == Cardinality(ShardPages(d, s))
           found == Within(first, s.low, s.high)
<1>1. /\ k \in Nat /\ page_number(d, s) = k + 1
      /\ recs = Page(found, shard_offset(d, s), requested_size(d, s))
      /\ shard_offset(d, s) = Upto(s, k)
      /\ requested_size(d, s) \in Nat \ {0}
      /\ shard_offset(d, s) + requested_size(d, s) <= s.count
  BY NextIsNth
<1>2. /\ found \in SUBSET Record /\ first \in SUBSET Record
      /\ Cardinality(found) = s.count /\ s \in ShardType
  BY DEF Within, Types, SourceTypes, PlanTypes, QuietInv
<1>3. \A r, q \in first : r.crd = q.crd => r = q
  BY <1>2, CrdsCount DEF Quiet
<1>4. recs \subseteq found /\ found \subseteq first
  BY <1>1 DEF Page, Within
<1>5. Upto(s, k) \in Nat
  BY <1>1, <1>2, UptoFacts
<1>6. Cardinality(recs) = requested_size(d, s)
  BY <1>1, <1>2, <1>5, PageCount
<1>7. recs # {}
  BY <1>1, <1>6, FS_EmptySet
<1>8. Cardinality(Crds(recs)) = Cardinality(recs)
  <2>1. \A r, q \in recs : r.crd = q.crd => r = q
    BY <1>3, <1>4
  <2>2. QED
    BY <1>2, <1>4, <2>1, CrdsCount
<1>9. ASSUME NEW p \in ShardPages(d, s), NEW r \in recs, NEW q \in p.recs
      PROVE  r.crd < q.crd
  <2>1. p \in payloads /\ p \in pages[d] /\ p.low = s.low
    BY DEF ShardPages, FilesInv, Retained
  <2>2. p.recs = NthPage(s, p.nr) /\ p.nr <= k
    BY <2>1 DEF QuietInv, PlannedPage, Numbered
  <2>3. p.nr \in Nat \ {0}
    BY <2>1 DEF FilesInv, Filed, SoundPage
  <2>4. p.recs = Page(found, Upto(s, p.nr - 1), Upto(s, p.nr) - Upto(s, p.nr - 1))
    BY <2>2 DEF NthPage
  <2>5. Upto(s, p.nr) <= Upto(s, k) /\ Upto(s, p.nr) \in Nat /\ Upto(s, p.nr - 1) \in Nat
    <3>1. p.nr \in Nat /\ p.nr - 1 \in Nat
      BY <2>3
    <3> HIDE DEF k
    <3>2. QED
      BY <1>1, <1>2, <2>2, <3>1, UptoGrows, UptoFacts
  <2>6. q \in found /\ Cardinality(Above(found, q)) < Upto(s, p.nr)
    <3>1. /\ q \in found
          /\ Cardinality(Above(found, q)) \in
                Upto(s, p.nr - 1)..(Upto(s, p.nr - 1) + (Upto(s, p.nr) - Upto(s, p.nr - 1)) - 1)
      BY <2>4 DEF Page, Above
    <3> HIDE DEF found
    <3>2. QED
      BY <2>5, <3>1
  <2>7. r \in found /\ Upto(s, k) <= Cardinality(Above(found, r))
    <3>1. /\ r \in found
          /\ Cardinality(Above(found, r)) \in
                Upto(s, k)..(Upto(s, k) + requested_size(d, s) - 1)
      BY <1>1 DEF Page, Above
    <3> HIDE DEF found
    <3>2. QED
      BY <1>1, <1>5, <3>1
  <2>8. /\ Cardinality(Above(found, q)) \in Int /\ Cardinality(Above(found, r)) \in Int
        /\ Ahead(r, q) => Cardinality(Above(found, r)) < Cardinality(Above(found, q))
    <3> HIDE DEF found
    <3>1. Cardinality(found) \in Nat
      BY <1>2, CrdsCount
    <3>2. QED
      BY <1>2, <2>6, <2>7, <3>1, AboveOrder
  <2>9. ~Ahead(r, q) /\ r # q
    <3> HIDE DEF found
    <3>1. QED
      BY <1>5, <2>5, <2>6, <2>7, <2>8
  <2>10. r.crd \in Nat /\ q.crd \in Nat /\ r.crd # q.crd
    BY <1>2, <1>3, <1>4, <2>6, <2>7, <2>9, CollectionAssumption
  <2>11. QED
    BY <2>9, <2>10 DEF Ahead
<1>10. ASSUME NEW p \in pages[d], NEW r \in recs, NEW q \in p.recs
       PROVE  r.crd # q.crd
  <2>1. PICK t \in shards : SoundPage(p, t)
    BY DEF FilesInv, Retained, Filed
  <2>2. r \in Record /\ r.crd \in Nat /\ s.low <= r.crd /\ r.crd <= s.high
    BY <1>2, <1>4, CollectionAssumption DEF Within
  <2>3. t.low <= q.crd /\ q.crd <= t.high
    BY <2>1 DEF SoundPage, Within
  <2>4. CASE t = s
    <3>1. p \in ShardPages(d, s)
      BY <2>1, <2>4 DEF ShardPages, SoundPage
    <3>2. r.crd < q.crd
      BY <1>9, <3>1
    <3>3. QED
      BY <2>2, <3>2
  <2>5. CASE t # s
    BY <2>2, <2>3, <2>5, ShardsApart
  <2>6. QED
    BY <2>4, <2>5
<1>11. Crds(recs) \cap Crds(Recs(pages[d])) = {}
  BY <1>10 DEF Crds, Recs
<1>12. QED
  BY <1>7, <1>8, <1>9, <1>11 DEF ValidPage

(* What a step of a download adds to its pages and to the payloads.         *)
LEMMA PagesTaken ==
    ASSUME Types, PlanInv, FilesInv, NEW d \in Downloads, Download(d)
    PROVE  /\ \/ pages'[d] = {}
              \/ pages'[d] = pages[d]
              \/ \E s \in shards : \E f :
                    /\ NextFile(d, s, f)
                    /\ pages'[d] = pages[d] \cup {f}
           /\ \A f \in payloads' : f \in payloads \/ (pc[d] = "storing" /\ f = held[d])
<1>1. Planned /\ d \in DOMAIN pages
  BY AtWorkPlanned DEF Types, LocalTypes
<1>2. ASSUME NEW how, End(d, how) PROVE pages'[d] = {}
  BY <1>1, <1>2 DEF End
<1>3. ASSUME NEW f, Keep(d, f) PROVE pages'[d] = pages[d] \cup {f}
  BY <1>1, <1>3 DEF Keep
<1>4. CASE StartDownload(d) \/ Seal(d) \/ Unlink(d) \/ Stop(d)
  BY <1>2, <1>4 DEF StartDownload, Seal, Unlink, Stop, files
<1>5. CASE SkipPage(d)
  <2>1. payloads' = payloads
    BY <1>5 DEF SkipPage, files
  <2>2. PICK s \in shards :
            IF Cardinality(existing_paths(d, s)) > 1 THEN End(d, "drift")
            ELSE \E f \in existing_paths(d, s) : Skip(d, s, f)
    BY <1>5 DEF SkipPage
  <2>3. CASE \E how : End(d, how)
    BY <1>2, <2>1, <2>3
  <2>4. CASE ~\E how : End(d, how)
    <3>1. PICK f \in existing_paths(d, s) : Skip(d, s, f)
      BY <2>2, <2>4
    <3>2. ValidPage(d, s, f.recs) /\ Keep(d, f)
      BY <2>4, <3>1 DEF Skip
    <3>3. /\ f \in payloads /\ f.low = s.low /\ f.nr = page_number(d, s)
      BY <3>1 DEF existing_paths
    <3>4. PICK t \in shards : SoundPage(f, t)
      BY <3>3 DEF FilesInv, Filed
    <3>5. t = s
      BY <1>1, <3>3, <3>4, ShardsApart DEF SoundPage
    <3>6. NextFile(d, s, f)
      BY <3>2, <3>3, <3>4, <3>5 DEF NextFile
    <3>7. QED
      BY <1>3, <2>1, <3>2, <3>3, <3>6
  <2>5. QED
    BY <2>3, <2>4
<1>6. CASE FetchPage(d)
  <2>1. payloads' = payloads
    BY <1>6 DEF FetchPage, files
  <2>2. (\E how : End(d, how)) \/ UNCHANGED pages
    BY <1>6 DEF FetchPage, Take
  <2>3. QED
    BY <1>2, <2>1, <2>2
<1>7. CASE StorePayload(d) \/ StoreManifest(d)
  <2>1. pc[d] \in {"storing", "signing"}
    BY <1>7 DEF StorePayload, StoreManifest, At
  <2>2. PICK s \in shards : NextFile(d, s, held[d])
    BY <2>1 DEF FilesInv, Writing
  <2>3. \/ \E how : End(d, how)
        \/ UNCHANGED pages
        \/ Keep(d, held[d])
    BY <1>7 DEF StorePayload, StoreManifest
  <2>4. \A f \in payloads' : f \in payloads \/ (pc[d] = "storing" /\ f = held[d])
    BY <1>7 DEF StorePayload, StoreManifest, At
  <2>5. QED
    BY <1>2, <1>3, <2>2, <2>3, <2>4
<1>8. CASE Complete(d)
  <2>1. payloads' = payloads
    BY <1>8 DEF Complete
  <2>2. (\E how : End(d, how)) \/ UNCHANGED pages
    BY <1>8 DEF Complete
  <2>3. QED
    BY <1>2, <2>1, <2>2
<1>9. QED
  BY <1>4, <1>5, <1>6, <1>7, <1>8 DEF Download

LEMMA NumberedKept ==
    ASSUME Types, PlanInv, FilesInv, NEW d \in Downloads, Download(d), Numbered(d)
    PROVE  Numbered(d)'
<1>1. Planned /\ shards' = shards
  BY AtWorkPlanned
<1>2. CASE pages'[d] = {} \/ pages'[d] = pages[d]
  BY <1>1, <1>2 DEF Numbered, ShardPages
<1>3. CASE \E s \in shards : \E f :
                NextFile(d, s, f) /\ pages'[d] = pages[d] \cup {f}
  <2>1. PICK s \in shards : \E f :
                NextFile(d, s, f) /\ pages'[d] = pages[d] \cup {f}
    BY <1>3
  <2>2. PICK f : NextFile(d, s, f) /\ pages'[d] = pages[d] \cup {f}
    BY <2>1
  <2>3. f.low = s.low /\ f.nr = Cardinality(ShardPages(d, s)) + 1
    BY <2>2 DEF NextFile, SoundPage, page_number
  <2>4. SUFFICES ASSUME NEW t \in shards, NEW p \in pages'[d], p.low = t.low
                 PROVE  p.nr <= Cardinality(ShardPages(d, t)')
    BY <1>1 DEF Numbered
  <2>5. /\ IsFiniteSet(ShardPages(d, t)) /\ Cardinality(ShardPages(d, t)) \in Nat
    BY HeldRecords
  <2>6. CASE t = s
    <3>1. ShardPages(d, s)' = ShardPages(d, s) \cup {f}
      BY <2>2, <2>3 DEF ShardPages
    <3>2. f \notin ShardPages(d, s)
      <4>1. ~(f.nr <= Cardinality(ShardPages(d, s)))
        BY <2>3, <2>5, <2>6
      <4>2. QED
        BY <2>3, <4>1 DEF Numbered, ShardPages
    <3>3. Cardinality(ShardPages(d, s)') = Cardinality(ShardPages(d, s)) + 1
      BY <2>5, <2>6, <3>1, <3>2, FS_AddElement
    <3>4. p.nr <= Cardinality(ShardPages(d, s)) \/ p = f
      BY <2>2, <2>4, <2>6 DEF Numbered
    <3>5. CASE p = f
      BY <2>3, <2>5, <2>6, <3>3, <3>5
    <3>6. CASE p # f
      <4>1. p \in PageFile /\ p.nr \in Nat
        BY <2>2, <2>4, <3>6 DEF Types, LocalTypes, PageFile
      <4>2. QED
        BY <2>5, <2>6, <3>3, <3>4, <3>6, <4>1
    <3>7. QED
      BY <3>5, <3>6
  <2>7. CASE t # s
    <3>1. s.low # t.low
      BY <1>1, <2>7, ShardsApart
    <3>2. ShardPages(d, t)' = ShardPages(d, t) /\ p \in pages[d]
      BY <2>2, <2>3, <2>4, <3>1 DEF ShardPages
    <3>3. QED
      BY <2>4, <3>2 DEF Numbered
  <2>8. QED
    BY <2>6, <2>7
<1>4. QED
  BY <1>2, <1>3, PagesTaken

(* A quiet source repeats the totals that were planned.                     *)
LEMMA QuietTotal ==
    ASSUME Types, PlanInv, QuietInv, Quiet, Planned, NEW s \in shards
    PROVE  Reconciled(Total(Within(index, s.low, s.high)), s)
<1>1. index = first /\ Cardinality(Within(first, s.low, s.high)) = s.count
  BY DEF QuietInv
<1>2. s.count <= max_shard_records /\ s.count \in Nat
  BY DEF PlanInv, ShardsPartition, Planned, Types, PlanTypes, ShardType
<1>3. s.count <= RESULT_CAP
  BY <1>2, CollectionAssumption
<1>4. QED
  BY <1>1, <1>3 DEF Reconciled, Total

(* So no step of a download finds drift, and a page it fetches is the one   *)
(* for its number.                                                          *)
LEMMA QuietSkip ==
    ASSUME Types, PlanInv, FilesInv, QuietInv, Quiet, NEW d \in Downloads, SkipPage(d)
    PROVE  pc'[d] # "drift" /\ pc'[d] # "storing"
<1>1. Planned /\ d \in DOMAIN pc
  BY AtWorkPlanned DEF Download, Types, LocalTypes
<1>2. PICK s \in shards :
        /\ NextShard(d, s)
        /\ IF Cardinality(existing_paths(d, s)) > 1 THEN End(d, "drift")
           ELSE \E f \in existing_paths(d, s) : Skip(d, s, f)
  BY DEF SkipPage
<1>3. ASSUME NEW f \in existing_paths(d, s)
      PROVE  /\ f \in PageFile /\ f.day = started[d] /\ f.low = s.low
             /\ f.nr = page_number(d, s) /\ f.recs = NthPage(s, page_number(d, s))
  <2>1. /\ f \in payloads /\ f \in PageFile /\ f.day = started[d] /\ f.low = s.low
        /\ f.nr = page_number(d, s)
    BY DEF existing_paths, Types, FileTypes
  <2>2. QED
    BY <2>1 DEF QuietInv, PlannedPage
<1>4. ~(Cardinality(existing_paths(d, s)) > 1)
  <2>1. \A f, g \in existing_paths(d, s) : f = g
    BY <1>3 DEF PageFile
  <2>2. \/ existing_paths(d, s) = {}
        \/ \E f : existing_paths(d, s) = {f}
    BY <2>1
  <2>3. CASE existing_paths(d, s) = {}
    BY <2>3, FS_EmptySet
  <2>4. CASE \E f : existing_paths(d, s) = {f}
    <3>1. PICK f : existing_paths(d, s) = {f}
      BY <2>4
    <3>2. Cardinality({f}) = 1
      BY FS_Singleton
    <3>3. QED
      BY <3>1, <3>2
  <2>5. QED
    BY <2>2, <2>3, <2>4
<1>5. PICK f \in existing_paths(d, s) : Skip(d, s, f)
  BY <1>2, <1>4
<1>6. ValidPage(d, s, f.recs)
  BY <1>1, <1>2, <1>3, NthIsValid
<1>7. End(d, "refused") \/ UNCHANGED pc
  BY <1>5, <1>6 DEF Skip
<1>8. pc[d] = "paging"
  BY <1>2 DEF NextShard, At
<1>9. QED
  BY <1>1, <1>7, <1>8 DEF End, Go

LEMMA QuietFetch ==
    ASSUME Types, PlanInv, FilesInv, QuietInv, Quiet, NEW d \in Downloads, FetchPage(d)
    PROVE  pc'[d] # "drift" /\ PlannedPage(held'[d])
<1>1. Planned /\ d \in DOMAIN pc /\ d \in DOMAIN held
  BY AtWorkPlanned DEF Download, Types, LocalTypes
<1>2. PICK s \in shards :
        /\ NextShard(d, s)
        /\ LET found == Within(index, s.low, s.high)
           IN  Take(d, s, found, Page(found, shard_offset(d, s), requested_size(d, s)))
  BY DEF FetchPage
<1>3. PICK found : found = Within(index, s.low, s.high)
  OBVIOUS
<1>4. PICK recs : recs = Page(found, shard_offset(d, s), requested_size(d, s))
  OBVIOUS
<1>5. index = first
  BY DEF QuietInv
<1>6. recs = NthPage(s, page_number(d, s))
  BY <1>2, <1>3, <1>4, <1>5, NextIsNth
<1>7. ValidPage(d, s, recs) /\ Reconciled(Total(found), s)
  BY <1>1, <1>2, <1>3, <1>6, NthIsValid, QuietTotal
<1>8. Take(d, s, found, recs)
  BY <1>2, <1>3, <1>4
<1>9. PICK f : f = [day |-> today, low |-> s.low, nr |-> page_number(d, s), recs |-> recs]
  OBVIOUS
<1>10. Go(d, "storing") /\ Hold(d, f)
  BY <1>7, <1>8, <1>9 DEF Take
<1>11. pc'[d] = "storing" /\ held'[d] = f
  BY <1>1, <1>10 DEF Go, Hold
<1>12. PlannedPage(f)
  <2>1. SUFFICES ASSUME NEW t \in shards, f.low = t.low
                 PROVE  f.recs = NthPage(t, f.nr)
    BY DEF PlannedPage
  <2>2. f.low = s.low /\ f.nr = page_number(d, s) /\ f.recs = recs
    BY <1>9
  <2>3. t = s
    BY <1>1, <2>1, <2>2, ShardsApart
  <2>4. QED
    BY <1>6, <2>2, <2>3
<1>13. QED
  BY <1>11, <1>12

LEMMA QuietStep ==
    ASSUME Types, PlanInv, FilesInv, QuietInv, Quiet, NEW d \in Downloads, Download(d)
    PROVE  /\ pc'[d] # "drift"
           /\ pc'[d] = "storing" => PlannedPage(held'[d])
<1>1. Planned /\ d \in DOMAIN pc /\ pc[d] # "drift"
  BY AtWorkPlanned DEF Types, LocalTypes, QuietInv
<1>2. CASE SkipPage(d)
  BY <1>2, QuietSkip
<1>3. CASE FetchPage(d)
  BY <1>3, QuietFetch
<1>4. CASE Complete(d)
  <2>1. Cardinality(Crds(Recs(pages[d]))) = expected_individual_count
    BY <1>1, <1>4, AllRetrieved DEF Complete
  <2>2. End(d, "refused") \/ Go(d, "sealing")
    BY <1>4, <2>1 DEF Complete
  <2>3. QED
    BY <1>1, <2>2 DEF End, Go
<1>5. CASE StorePayload(d)
  <2>1. End(d, "refused") \/ Go(d, "signing") \/ Go(d, "paging")
    BY <1>5 DEF StorePayload
  <2>2. QED
    BY <1>1, <2>1 DEF End, Go
<1>6. CASE StartDownload(d) \/ StoreManifest(d) \/ Seal(d) \/ Unlink(d) \/ Stop(d)
  BY <1>1, <1>6 DEF StartDownload, StoreManifest, Seal, Unlink, Stop, End, Go
<1>7. QED
  BY <1>2, <1>3, <1>4, <1>5, <1>6 DEF Download

LEMMA DownloadQuiet ==
    ASSUME Types, PlanInv, FilesInv, QuietInv, NEW d \in Downloads, Download(d)
    PROVE  QuietInv'
<1>1. /\ shards' = shards /\ index' = index /\ first' = first
      /\ gained' = gained /\ lost' = lost
      /\ \A e \in Downloads : e # d => SameLocals(e)
  BY AtWorkPlanned, LocalsKept
<1>2. Quiet' <=> Quiet
  BY <1>1 DEF Quiet
<1>3. ASSUME NEW e \in Downloads PROVE Numbered(e)'
  <2>1. CASE e = d
    BY <2>1, NumberedKept DEF QuietInv
  <2>2. CASE e # d
    BY <1>1, <2>2 DEF QuietInv, Numbered, ShardPages, SameLocals
  <2>3. QED
    BY <2>1, <2>2
<1>4. ASSUME Quiet
      PROVE  /\ index' = first'
             /\ \A s \in shards' : Cardinality(Within(first', s.low, s.high)) = s.count
             /\ \A f \in payloads' : PlannedPage(f)
             /\ \A e \in Downloads : /\ pc'[e] = "storing" => PlannedPage(held'[e])
                                     /\ pc'[e] # "drift"
  <2>1. \A f \in payloads' : PlannedPage(f)
    BY <1>4, PagesTaken DEF QuietInv
  <2>2. \A e \in Downloads : e # d =>
            /\ pc'[e] = "storing" => PlannedPage(held'[e])
            /\ pc'[e] # "drift"
    BY <1>1, <1>4 DEF QuietInv, SameLocals
  <2>3. QED
    BY <1>1, <1>4, <2>1, <2>2, QuietStep DEF QuietInv
<1>5. \A f : PlannedPage(f)' <=> PlannedPage(f)
  BY <1>1 DEF PlannedPage, NthPage
<1>6. ASSUME Quiet
      PROVE  \A e \in Downloads : pc'[e] = "storing" => PlannedPage(held[e])'
  <2>1. SUFFICES ASSUME NEW e \in Downloads, pc'[e] = "storing"
                 PROVE  PlannedPage(held[e])'
    OBVIOUS
  <2>2. PICK f : f = held'[e]
    OBVIOUS
  <2>3. PlannedPage(f)'
    BY <1>4, <1>5, <1>6, <2>1, <2>2
  <2>4. QED
    BY <2>2, <2>3
<1>7. QED
  BY <1>2, <1>3, <1>4, <1>5, <1>6 DEF QuietInv

LEMMA PlanQuiet ==
    ASSUME Types, PlanInv, FilesInv, QuietInv, Plan
    PROVE  QuietInv'
<1>1. Untouched /\ UNCHANGED <<files, locals>>
  BY PlanFiles DEF Plan, StartPlan, Probe, FinishPlan, SignPlan, StopPlan, SamePlan
<1>2. /\ payloads' = {}
      /\ \A d \in Downloads : pc'[d] = "idle" /\ pages'[d] = {}
  BY <1>1 DEF Untouched, files, locals
<1>3. index' = index /\ lost' = lost /\ gained' = gained
  BY DEF Plan, StartPlan, Probe, FinishPlan, SignPlan, StopPlan, SamePlan, history
<1>4. CASE StartPlan
  <2>1. shards' = {} /\ first' = index'
    BY <1>3, <1>4 DEF StartPlan, PlanInv
  <2>2. QED
    BY <1>2, <2>1 DEF QuietInv, Numbered
<1>5. CASE ~StartPlan
  <2>1. first' = first
    BY <1>5 DEF Plan, Probe, FinishPlan, SignPlan, StopPlan, SamePlan, history
  <2>2. ASSUME Quiet, NEW s \in shards'
        PROVE  Cardinality(Within(first, s.low, s.high)) = s.count
    <3>1. index = first
      BY <2>2 DEF QuietInv
    <3>2. CASE s \in shards
      BY <2>2, <3>2 DEF QuietInv
    <3>3. CASE s \notin shards
      BY <1>5, <3>1, <3>3, AcceptedCount
    <3>4. QED
      BY <3>2, <3>3
  <2>3. Quiet' => Quiet
    BY <1>3, <2>1 DEF Quiet
  <2>4. QED
    BY <1>2, <1>3, <2>1, <2>2, <2>3 DEF QuietInv, Numbered
<1>6. QED
  BY <1>4, <1>5

LEMMA WorldQuiet ==
    ASSUME Types, QuietInv, World
    PROVE  QuietInv'
<1>1. UNCHANGED <<planVars, files, locals, first>>
  BY DEF World, Gain, Lose, NextDay, history
<1>2. shards' = shards /\ pages' = pages /\ pc' = pc /\ held' = held /\ payloads' = payloads
  BY <1>1 DEF planVars, locals, files
<1>3. \A d \in Downloads : Numbered(d)'
  BY <1>2 DEF QuietInv, Numbered, ShardPages
<1>4. CASE NextDay
  <2>1. UNCHANGED <<index, history>>
    BY <1>4 DEF NextDay
  <2>2. \A f : PlannedPage(f)' <=> PlannedPage(f)
    BY <1>1, <1>2 DEF PlannedPage, NthPage
  <2>3. \A d \in Downloads : PlannedPage(held[d])' <=> PlannedPage(held[d])
    BY <1>1, <1>2 DEF PlannedPage, NthPage
  <2>4. Quiet' <=> Quiet
    BY <2>1 DEF Quiet, history
  <2>5. QED
    BY <1>1, <1>2, <1>3, <2>1, <2>2, <2>3, <2>4 DEF QuietInv, history
<1>5. CASE \E r \in Record : Gain(r) \/ Lose(r)
  <2>1. gained' # 0 \/ lost' # {}
    BY <1>5 DEF Gain, Lose, Types, SourceTypes
  <2>2. ~Quiet'
    BY <2>1 DEF Quiet
  <2>3. QED
    BY <1>3, <2>2 DEF QuietInv
<1>6. QED
  BY <1>4, <1>5 DEF World

LEMMA InitQuiet == Init => QuietInv
  BY DEF Init, QuietInv, Numbered

LEMMA NextQuiet == IInv /\ FilesInv /\ QuietInv /\ [Next]_vars => QuietInv'
<1> SUFFICES ASSUME IInv, FilesInv, QuietInv, [Next]_vars
             PROVE  QuietInv'
  OBVIOUS
<1>1. Types /\ Holding /\ PlanInv
  BY IInvParts
<1>2. CASE Plan
  BY <1>1, <1>2, PlanQuiet
<1>3. CASE \E d \in Downloads : Download(d)
  BY <1>1, <1>3, DownloadQuiet
<1>4. CASE World
  BY <1>1, <1>4, WorldQuiet
<1>5. CASE UNCHANGED vars
  BY <1>5 DEF QuietInv, Numbered, ShardPages, Quiet, PlannedPage, NthPage, vars, outside,
     planVars, history, files, locals
<1>6. QED
  BY <1>2, <1>3, <1>4, <1>5 DEF Next, World

\* Whatever downloads were stopped, overlap, or found pages of earlier ones:
\* none is refused for drift while the source stays as it was planned.
THEOREM QuietIsServed == Spec => []QuietSourceDownloads
<1>1. QuietInv => QuietSourceDownloads
  BY DEF QuietInv, Quiet, QuietSourceDownloads
<1>2. QED
  BY <1>1, InitInv, NextInv, InitFiles, NextFiles, InitQuiet, NextQuiet, PTL DEF Spec
=============================================================================

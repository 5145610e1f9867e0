------------------------------ MODULE BulkAdd ------------------------------
(***************************************************************************)
(* Saving CRDs to a list: the add-to-list command of the api, the         *)
(* background_job row it queues, the worker command that Inngest retries,  *)
(* and the chunked transactions both share.                                *)
(*                                                                         *)
(* A save s runs performBulkAdd in an "attempt": attempt 0 is the api's    *)
(* own synchronous path, attempts 1..Attempts are the worker's, started by *)
(* Inngest (external) when the event arrives and again after each failure. *)
(***************************************************************************)
EXTENDS Integers, Sequences, FiniteSets

CONSTANTS
    Save,          \* calls of add-to-list, and the job row each may create
    List,          \* list ids a caller may name
    Savable,       \* lists of the workspace whose entity has a sourceKind
    Crd,           \* market ids, as the bigint column stores them
    Name,          \* decimal spellings of a CRD, as requests carry them
    CrdOf,         \* the ::bigint cast
    Requests,      \* Requests[s]: the selections its caller may send, without
                   \* repeats; <<>> is a filter
    Matches,       \* what the prospecting query may return, row by row
    EarlierRecords, EarlierMembers, \* what the tables hold at the start
    CHUNK, SYNC_ADD_MAX, RESOLVE_MAX,
    Attempts,      \* INNGEST_OPTIONS.retries + 1
    CanCrash,      \* saves whose worker may die, or the write of its fail()
    CanLose,       \* whose inngest.send may fail, before or after delivery
    CanTimeOut     \* that Inngest may retry while the old attempt still runs

ASSUME BulkAddAssumption ==
    /\ Savable \subseteq List /\ "none" \notin List
    /\ CrdOf \in [Name -> Crd]
    /\ Requests \in [Save -> SUBSET Seq(Name)]
    /\ Matches \subseteq Seq(Name)
    /\ EarlierRecords \subseteq Crd
    /\ EarlierMembers \subseteq Savable \X EarlierRecords
    /\ CHUNK \in Nat \ {0} /\ RESOLVE_MAX \in Nat /\ Attempts \in Nat \ {0}
    /\ SYNC_ADD_MAX \in 0..CHUNK
    /\ UNION {CanCrash, CanLose, CanTimeOut} \subseteq Save

VARIABLES
    entity_record, \* CRDs that have a row of the entity
    list_member,   \* <<list, CRD of the record>>
    job,           \* job[s]: the background_job row
    asked,         \* asked[s]: [list, names], names empty for a filter
    reply,         \* reply[s]: what the api call came to
    inngest,       \* inngest[s]: the run of the event, as Inngest sees it
    started,       \* started[s]: attempts Inngest has started
    pc, plan, pos, \* [s][a]: the attempt's control, its CRDs, the loop index
    result,        \* [s][a]: counts of the last committed chunk
    brought,       \* history: records each save's commits inserted
    joined,        \* history: memberships each save's commits inserted
    overtaken      \* history: saves retried while an attempt still ran

rows == <<entity_record, list_member>>
attempt == <<pc, plan, pos, result>>
history == <<brought, joined, overtaken>>
vars == <<rows, job, asked, reply, inngest, started, attempt, history>>

Attempt == 0..Attempts

\* A save that has no background_job row has this one.
NoJob == [status |-> "none", requested |-> 0, processed |-> 0,
          created |-> 0, added |-> 0]

Nothing == [processed |-> 0, created |-> 0, added |-> 0]

Running == {"resolve", "start", "chunk", "advance", "complete", "failing"}

Ended == {"returned", "threw", "crashed"}

Init ==
    /\ entity_record = EarlierRecords
    /\ list_member = EarlierMembers
    /\ job = [s \in Save |-> NoJob]
    /\ asked = [s \in Save |-> [list |-> "none", names |-> <<>>]]
    /\ reply = [s \in Save |-> "none"]
    /\ inngest = [s \in Save |-> "none"]
    /\ started = [s \in Save |-> 0]
    /\ pc = [s \in Save |-> [a \in Attempt |-> "idle"]]
    /\ plan = [s \in Save |-> [a \in Attempt |-> <<>>]]
    /\ pos = [s \in Save |-> [a \in Attempt |-> 0]]
    /\ result = [s \in Save |-> [a \in Attempt |-> Nothing]]
    /\ brought = [s \in Save |-> {}]
    /\ joined = [s \in Save |-> {}]
    /\ overtaken = {}

----------------------------------------------------------------------------
(* The api: AddToListCommandHandler.execute *)

\* The list is not of this workspace, or no market entity backs it.
Refuse(s) ==
    /\ reply[s] = "none"
    /\ List \ Savable # {}
    /\ reply' = [reply EXCEPT ![s] = "error"]
    /\ UNCHANGED <<rows, job, asked, inngest, started, attempt, history>>

\* A filter, or more CRDs than SYNC_ADD_MAX: the row is written, the event next.
Queue(s) ==
    /\ reply[s] = "none"
    /\ \E l \in Savable, names \in Requests[s] :
        /\ names = <<>> \/ Len(names) > SYNC_ADD_MAX
        /\ asked' = [asked EXCEPT ![s] = [list |-> l, names |-> names]]
        /\ job' = [job EXCEPT ![s] = [NoJob EXCEPT !.status = "queued",
                                                   !.requested = Len(names)]]
    /\ reply' = [reply EXCEPT ![s] = "sending"]
    /\ UNCHANGED <<rows, inngest, started, attempt, history>>

\* The synchronous path enters performBulkAdd as attempt 0.
AddNow(s) ==
    /\ reply[s] = "none"
    /\ \E l \in Savable, names \in Requests[s] :
        /\ names # <<>> /\ Len(names) <= SYNC_ADD_MAX
        /\ asked' = [asked EXCEPT ![s] = [list |-> l, names |-> names]]
        /\ plan' = [plan EXCEPT ![s][0] = names]
    /\ reply' = [reply EXCEPT ![s] = "adding"]
    /\ pc' = [pc EXCEPT ![s][0] = "chunk"]
    /\ UNCHANGED <<rows, job, inngest, started, pos, result, history>>

\* sendEvent resolves: the caller gets the job id.
SendEvent(s) ==
    /\ reply[s] = "sending"
    /\ inngest' = [inngest EXCEPT ![s] = "due"]
    /\ reply' = [reply EXCEPT ![s] = "queued"]
    /\ UNCHANGED <<rows, job, asked, started, attempt, history>>

\* sendEvent rejects, or the api dies: the event may have gone out or not.
LoseEvent(s) ==
    /\ s \in CanLose
    /\ reply[s] = "sending"
    /\ \E arrival \in {"none", "due"} : inngest' = [inngest EXCEPT ![s] = arrival]
    /\ reply' = [reply EXCEPT ![s] = "error"]
    /\ UNCHANGED <<rows, job, asked, started, attempt, history>>

\* performBulkAdd has returned, or thrown, to the synchronous caller.
Answer(s) ==
    /\ reply[s] = "adding"
    /\ pc[s][0] \in Ended
    /\ reply' = [reply EXCEPT ![s] =
                    IF pc[s][0] = "returned" THEN "completed" ELSE "error"]
    /\ UNCHANGED <<rows, job, asked, inngest, started, attempt, history>>

----------------------------------------------------------------------------
(* Inngest: one step per function, so an attempt replays the whole command *)

AlwaysRetry(s) == TRUE  \* slip: no limit on the retries
AttemptsLeft(s) == started[s] < Attempts

StartAttempt(s) ==
    /\ inngest[s] = "due"
    /\ AttemptsLeft(s)
    /\ started' = [started EXCEPT ![s] = @ + 1]
    /\ pc' = [pc EXCEPT ![s][started[s] + 1] = "resolve"]
    /\ inngest' = [inngest EXCEPT ![s] = "active"]
    /\ UNCHANGED <<rows, job, asked, reply, plan, pos, result, history>>

\* A failed attempt is retried while attempts are left.
AfterFailure(s) == IF AttemptsLeft(s) THEN "due" ELSE "ended"

Report(s) ==
    /\ inngest[s] = "active"
    /\ pc[s][started[s]] \in Ended
    /\ inngest' = [inngest EXCEPT ![s] =
            IF pc[s][started[s]] = "returned" THEN "ended" ELSE AfterFailure(s)]
    /\ UNCHANGED <<rows, job, asked, reply, started, attempt, history>>

\* The request that carries the step is lost; the worker is not told, or has
\* died with its answer.
TimeOut(s) ==
    /\ \/ s \in CanTimeOut
       \/ s \in CanCrash /\ pc[s][started[s]] = "returned"
    /\ inngest[s] = "active"
    /\ inngest' = [inngest EXCEPT ![s] = AfterFailure(s)]
    /\ overtaken' = overtaken \cup {t \in {s} : pc[s][started[s]] \in Running}
    /\ UNCHANGED <<rows, job, asked, reply, started, attempt, brought, joined>>

----------------------------------------------------------------------------
(* The worker: BulkAddToListCommandHandler.run and its catch *)

Go(s, a, from, to) ==
    /\ pc[s][a] = from
    /\ pc' = [pc EXCEPT ![s][a] = to]

\* The first RESOLVE_MAX rows of the query: the rest is never looked at.
Limited(match) ==
    IF Len(match) > RESOLVE_MAX THEN SubSeq(match, 1, RESOLVE_MAX) ELSE match

Resolve(s, a) ==
    /\ Go(s, a, "resolve", "start")
    /\ \E names \in IF asked[s].names # <<>>
                    THEN {asked[s].names} ELSE {Limited(m) : m \in Matches} :
            plan' = [plan EXCEPT ![s][a] = names]
    /\ UNCHANGED <<rows, job, asked, reply, inngest, started, pos, result,
                   history>>

\* slip: a last chunk shorter than CHUNK is forgotten
LoopWhileFull(s, a, i) ==
    IF i + CHUNK <= Len(plan[s][a]) THEN "chunk" ELSE "complete"

\* Where the loop of performBulkAdd goes from index i.
LoopFrom(s, a, i) == IF i < Len(plan[s][a]) THEN "chunk" ELSE "complete"

\* slip: the counters of the attempt before are kept
RestartedRow(s, a) ==
    [job[s] EXCEPT !.status = "running", !.requested = Len(plan[s][a])]

\* A retry starts the counters over rather than double counting.
StartedRow(s, a) ==
    [NoJob EXCEPT !.status = "running", !.requested = Len(plan[s][a])]

StartJob(s, a) ==
    /\ Go(s, a, "start", LoopFrom(s, a, 0))
    /\ job' = [job EXCEPT ![s] = StartedRow(s, a)]
    /\ UNCHANGED <<rows, asked, reply, inngest, started, plan, pos, result,
                   history>>

AdvanceJob(s, a) ==
    /\ Go(s, a, "advance", LoopFrom(s, a, pos[s][a]))
    /\ job' = [job EXCEPT ![s].processed = @ + result[s][a].processed,
                          ![s].created = @ + result[s][a].created,
                          ![s].added = @ + result[s][a].added]
    /\ UNCHANGED <<rows, asked, reply, inngest, started, plan, pos, result,
                   history>>

\* slip: only finishedAt is written
CompleteSilently(s, a) ==
    /\ Go(s, a, "complete", "returned")
    /\ UNCHANGED <<rows, job, asked, reply, inngest, started, plan, pos, result,
                   history>>

CompleteJob(s, a) ==
    /\ Go(s, a, "complete", "returned")
    /\ job' = [job EXCEPT ![s].status = "completed"]
    /\ UNCHANGED <<rows, asked, reply, inngest, started, plan, pos, result,
                   history>>

\* Any await of the attempt may reject; the catch then writes the failure.
Throw(s, a) ==
    /\ pc[s][a] \in Running \ {"failing"}
    /\ pc' = [pc EXCEPT ![s][a] = IF a = 0 THEN "threw" ELSE "failing"]
    /\ UNCHANGED <<rows, job, asked, reply, inngest, started, plan, pos, result,
                   history>>

\* slip: only the message is written
FailSilently(s, a) ==
    /\ Go(s, a, "failing", "threw")
    /\ UNCHANGED <<rows, job, asked, reply, inngest, started, plan, pos, result,
                   history>>

FailJob(s, a) ==
    /\ Go(s, a, "failing", "threw")
    /\ job' = [job EXCEPT ![s].status = "failed"]
    /\ UNCHANGED <<rows, asked, reply, inngest, started, plan, pos, result,
                   history>>

\* The process dies, or fail() itself fails and its catch swallows that.
Crash(s, a) ==
    /\ s \in CanCrash
    /\ pc[s][a] \in Running
    /\ pc' = [pc EXCEPT ![s][a] = "crashed"]
    /\ UNCHANGED <<rows, job, asked, reply, inngest, started, plan, pos, result,
                   history>>

----------------------------------------------------------------------------
(* performBulkAdd: one transaction per chunk, shared by api and worker *)

ChunkEnd(s, a) ==
    IF pos[s][a] + CHUNK < Len(plan[s][a]) THEN pos[s][a] + CHUNK
                                           ELSE Len(plan[s][a])

Slice(s, a) == (pos[s][a] + 1)..ChunkEnd(s, a)

CrdAt(s, a, i) == CrdOf[plan[s][a][i]]

ChunkCrds(s, a) == {CrdAt(s, a, i) : i \in Slice(s, a)}

\* ON CONFLICT DO UPDATE refuses to touch one row twice in a statement.
OneRowEach(s, a) ==
    \A i, j \in Slice(s, a) : CrdAt(s, a, i) = CrdAt(s, a, j) => i = j

Inserted(crds) == crds \ entity_record

\* slips: ON CONFLICT DO NOTHING, and ids selected before the insert
OnlyInserted(crds) == Inserted(crds)
OnlyEarlier(crds) == crds \cap entity_record

\* ON CONFLICT DO UPDATE returns every row it was given, old or new ...
Returned(crds) == crds

\* slip: every returned row counts as created
CreatedOfAll(crds) == Cardinality(Returned(crds))

\* ... and (xmax = 0) tells the new ones.
Created(crds) == Cardinality(Inserted(crds))

\* The membership insert skips the records that are in the list already.
NewMembers(l, crds) == {c \in Returned(crds) : <<l, c>> \notin list_member}

CommitChunk(s, a) ==
    LET crds == ChunkCrds(s, a)
        new == Inserted(crds)
        members == NewMembers(asked[s].list, crds)
    IN  /\ pc[s][a] = "chunk"
        /\ OneRowEach(s, a)
        /\ entity_record' = entity_record \cup new
        /\ list_member' = list_member \cup ({asked[s].list} \X members)
        /\ brought' = [brought EXCEPT ![s] = @ \cup new]
        /\ joined' = [joined EXCEPT ![s] = @ \cup members]
        /\ result' = [result EXCEPT ![s][a] =
                [processed |-> Cardinality(Slice(s, a)),
                 created |-> Created(crds), added |-> Cardinality(members)]]
        /\ pos' = [pos EXCEPT ![s][a] = ChunkEnd(s, a)]
        /\ pc' = [pc EXCEPT ![s][a] = IF a = 0 THEN "returned" ELSE "advance"]
        /\ UNCHANGED <<job, asked, reply, inngest, started, plan, overtaken>>

----------------------------------------------------------------------------
Api(s) == Queue(s) \/ AddNow(s) \/ Refuse(s)

ApiStep(s) == SendEvent(s) \/ LoseEvent(s) \/ Answer(s)

InngestStep(s) == StartAttempt(s) \/ Report(s) \/ TimeOut(s)

AttemptStep(s, a) ==
    \/ Resolve(s, a)     \/ StartJob(s, a) \/ CommitChunk(s, a)
    \/ AdvanceJob(s, a)  \/ CompleteJob(s, a)
    \/ Throw(s, a)       \/ FailJob(s, a)  \/ Crash(s, a)

Next ==
    \E s \in Save :
        \/ Api(s) \/ ApiStep(s) \/ InngestStep(s)
        \/ \E a \in Attempt : AttemptStep(s, a)

Spec == Init /\ [][Next]_vars

(* A process that runs takes its next step, and Inngest delivers what it   *)
(* has accepted.  Nobody has to call the api.                               *)
Fairness ==
    \A s \in Save :
        /\ WF_vars(ApiStep(s))
        /\ WF_vars(InngestStep(s))
        /\ \A a \in Attempt : WF_vars(AttemptStep(s, a))

----------------------------------------------------------------------------
(* Properties *)

AttemptPc == Running \cup Ended \cup {"idle"}

TablesOK ==
    /\ entity_record \subseteq Crd
    /\ list_member \subseteq List \X Crd
    /\ job \in [Save -> [status : {"none", "queued", "running", "completed",
                                   "failed"},
                         requested : Nat, processed : Nat,
                         created : Nat, added : Nat]]

CallsOK ==
    /\ asked \in [Save -> [list : List \cup {"none"}, names : Seq(Name)]]
    /\ reply \in [Save -> {"none", "sending", "adding", "queued",
                           "completed", "error"}]
    /\ inngest \in [Save -> {"none", "due", "active", "ended"}]
    /\ started \in [Save -> Attempt]

AttemptsOK ==
    /\ pc \in [Save -> [Attempt -> AttemptPc]]
    /\ plan \in [Save -> [Attempt -> Seq(Name)]]
    /\ pos \in [Save -> [Attempt -> Nat]]
    /\ result \in [Save -> [Attempt ->
                    [processed : Nat, created : Nat, added : Nat]]]

HistoryOK ==
    /\ brought \in [Save -> SUBSET Crd]
    /\ joined \in [Save -> SUBSET Crd]
    /\ overtaken \subseteq Save

\* Every variable has the shape its row, message or local variable has.
TypeOK == TablesOK /\ CallsOK /\ AttemptsOK /\ HistoryOK

\* A record a save brought into the CRM is a member of the list it was saved
\* to, whatever attempt crashed or was replayed: nobody enters the CRM whom
\* nobody asked to save (perform-bulk-add, one transaction per chunk).
NoStrandedRecord ==
    \A s \in Save : \A c \in brought[s] : <<asked[s].list, c>> \in list_member

CrdsOf(names) == {CrdOf[names[i]] : i \in DOMAIN names}

Saved(s, names) == {asked[s].list} \X CrdsOf(names) \subseteq list_member

\* When the job row, or the api's own answer, says completed, every CRD the
\* caller picked is in the list, and an attempt that returned added all that
\* it had resolved, although chunks of several attempts interleave.
CompletedMeansSaved ==
    \A s \in Save :
        /\ (job[s].status = "completed" \/ reply[s] = "completed")
              => Saved(s, asked[s].names)
        /\ \A a \in Attempt : pc[s][a] = "returned" => Saved(s, plan[s][a])

\* The counters never claim more records or memberships than the save's own
\* commits inserted, even when attempts overlap on the row.
CountersNeverOverstate ==
    \A s \in Save : /\ job[s].created <= Cardinality(brought[s])
                    /\ job[s].added <= Cardinality(joined[s])

\* While attempts of one job follow one another, the progress of the row is
\* that of the last one: it never exceeds the request, and it is all of the
\* request once the row says completed.
ProgressAddsUp ==
    \A s \in Save \ overtaken :
        /\ job[s].processed <= job[s].requested
        /\ job[s].status = "completed" => job[s].processed = job[s].requested

\* Once Inngest has ended a run whose last attempt returned, unless it ever gave
\* up on one that was still running, the row says completed and no attempt is
\* left to change it: not the one that had completed it and died unheard.
SuccessIsFinal ==
    \A s \in Save \ overtaken :
        inngest[s] = "ended" /\ pc[s][started[s]] = "returned"
            => /\ job[s].status = "completed"
               /\ \A a \in Attempt \ {0} : pc[s][a] \notin Running

\* The counts of a synchronous answer are exactly what that call inserted,
\* whoever else was saving the same CRDs.
SyncCountsExact ==
    \A s \in Save :
        reply[s] = "completed" =>
            /\ result[s][0].created = Cardinality(brought[s])
            /\ result[s][0].added = Cardinality(joined[s])

\* A queued save settles: Inngest ends it, and unless a process of it died
\* its row stays completed or failed, never stuck at queued or running.
QueuedSaveSettles ==
    \A s \in Save : reply[s] = "queued" ~>
        [](/\ inngest[s] = "ended"
           /\ \/ job[s].status \in {"completed", "failed"}
              \/ \E a \in Attempt : pc[s][a] = "crashed")

----------------------------------------------------------------------------
(* BulkAdd implements ListSave: the tables move together, and only by what *)
(* a save asked for.                                                       *)

Abstract == INSTANCE ListSave WITH
    Found <- UNION {CrdsOf(m) : m \in Matches},
    Picks <- {CrdsOf(r) : r \in UNION {Requests[s] : s \in Save}},
    crm <- entity_record,
    members <- list_member,
    ask <- [s \in Save |-> [list |-> asked[s].list,
                            crds |-> CrdsOf(asked[s].names)]],
    saved <- {s \in Save : \/ reply[s] = "completed"
                           \/ \E a \in Attempt \ {0} : pc[s][a] = "returned"}

\* Every step of the api, of Inngest and of the workers is one of the promise
\* ListSave makes, or leaves what it is about alone.
ImplementsListSave == Abstract!Spec

============================================================================

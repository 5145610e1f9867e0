---------------------------- MODULE BulkAddProofs ----------------------------
(***************************************************************************)
(* BulkAdd: typing, and what a save has put into the tables when it says   *)
(* so, for any number of saves, attempts and CRDs, whatever crashes, is    *)
(* lost or times out, and for every interleaving of a save's attempts with *)
(* those of the others.  The argument: an attempt's loop index marks a     *)
(* prefix of its plan that is in the list already, memberships are never   *)
(* removed, and an attempt returns only when its index has reached the end *)
(* of a plan that names, for an explicit pick, what the caller asked for.  *)
(*                                                                         *)
(* Then what a save promises its callers.  The counts of the job row and   *)
(* of the answer are kept in step with the tables: a save that Inngest     *)
(* does not give up on has one attempt at a time, whose loop index is the  *)
(* progress of the row, and every row counted was created by the save and  *)
(* is still there.  The dashboard's watcher reports what the row says.     *)
(* And BulkAdd implements ListSave: every step of the api, of Inngest and  *)
(* of the workers asks, adds or finishes as ListSave allows, or changes    *)
(* nothing ListSave speaks of.                                             *)
(***************************************************************************)
EXTENDS WatchedSave, FiniteSetTheorems, SequenceTheorems, TLAPS

(* A chunk is finite, so its counts are natural numbers. *)
LEMMA ChunkCounts ==
    ASSUME TypeOK, NEW s \in Save, NEW a \in Attempt
    PROVE  /\ ChunkEnd(s, a) \in Nat
           /\ Slice(s, a) \subseteq Nat
           /\ Cardinality(Slice(s, a)) \in Nat
           /\ pos[s][a] <= Len(plan[s][a]) =>
                /\ pos[s][a] <= ChunkEnd(s, a)
                /\ ChunkEnd(s, a) <= Len(plan[s][a])
                /\ Cardinality(Slice(s, a)) = ChunkEnd(s, a) - pos[s][a]
           /\ ChunkCrds(s, a) \subseteq Crd
           /\ Created(ChunkCrds(s, a)) \in Nat
           /\ \A l : Cardinality(NewMembers(l, ChunkCrds(s, a))) \in Nat
<1>1. /\ pos[s][a] \in Nat
      /\ plan[s][a] \in Seq(Name)
      /\ Len(plan[s][a]) \in Nat
  BY DEF TypeOK, AttemptsOK
<1>2. ChunkEnd(s, a) \in Nat
  BY <1>1, BulkAddAssumption DEF ChunkEnd
<1>3. Slice(s, a) \subseteq Nat
  BY <1>1, <1>2 DEF Slice
<1>4. /\ IsFiniteSet(Slice(s, a))
      /\ Cardinality(Slice(s, a)) =
            IF pos[s][a] + 1 > ChunkEnd(s, a) THEN 0
            ELSE ChunkEnd(s, a) - (pos[s][a] + 1) + 1
  <2>1. pos[s][a] + 1 \in Int /\ ChunkEnd(s, a) \in Int
    BY <1>1, <1>2
  <2>2. QED
    BY <2>1, FS_Interval, Zenon DEF Slice
<1>5. \A i \in Slice(s, a) : i \in 1..Len(plan[s][a])
  BY <1>1, <1>2, BulkAddAssumption DEF Slice, ChunkEnd
<1>6. ChunkCrds(s, a) \subseteq Crd
  <2>1. ASSUME NEW i \in Slice(s, a) PROVE plan[s][a][i] \in Name
    BY <1>1, <1>5
  <2>2. QED
    BY <2>1, BulkAddAssumption DEF ChunkCrds, CrdAt
<1>7. IsFiniteSet(ChunkCrds(s, a))
  <2> DEFINE f == [i \in Slice(s, a) |-> CrdAt(s, a, i)]
  <2>1. f \in Surjection(Slice(s, a), ChunkCrds(s, a))
    BY DEF Surjection, ChunkCrds
  <2>2. QED
    BY <2>1, <1>4, FS_Surjection
<1>8. Created(ChunkCrds(s, a)) \in Nat
  <2>1. Inserted(ChunkCrds(s, a)) \subseteq ChunkCrds(s, a)
    BY DEF Inserted
  <2>2. QED
    BY <2>1, <1>7, FS_Subset, FS_CardinalityType DEF Created
<1>9. ASSUME NEW l PROVE Cardinality(NewMembers(l, ChunkCrds(s, a))) \in Nat
  <2>1. NewMembers(l, ChunkCrds(s, a)) \subseteq ChunkCrds(s, a)
    BY DEF NewMembers, Returned
  <2>2. QED
    BY <2>1, <1>7, FS_Subset, FS_CardinalityType
<1>10. pos[s][a] <= Len(plan[s][a]) =>
          /\ pos[s][a] <= ChunkEnd(s, a)
          /\ ChunkEnd(s, a) <= Len(plan[s][a])
          /\ Cardinality(Slice(s, a)) = ChunkEnd(s, a) - pos[s][a]
  <2>1. pos[s][a] <= Len(plan[s][a]) => /\ pos[s][a] <= ChunkEnd(s, a)
                                        /\ ChunkEnd(s, a) <= Len(plan[s][a])
    BY <1>1, BulkAddAssumption DEF ChunkEnd
  <2>2. QED
    BY <2>1, <1>1, <1>2, <1>4
<1>11. Cardinality(Slice(s, a)) \in Nat
  BY <1>4, FS_CardinalityType
<1>12. QED
  BY <1>2, <1>3, <1>6, <1>8, <1>9, <1>10, <1>11

LEMMA LimitedType == \A m \in Matches : Limited(m) \in Seq(Name)
<1> SUFFICES ASSUME NEW m \in Matches PROVE Limited(m) \in Seq(Name)
  OBVIOUS
<1>1. m \in Seq(Name) /\ RESOLVE_MAX \in Int /\ 1 \in Int
  BY BulkAddAssumption
<1>2. CASE Len(m) > RESOLVE_MAX
  <2>1. \A i \in 1..RESOLVE_MAX : m[i] \in Name
    BY <1>1, <1>2
  <2>2. SubSeq(m, 1, RESOLVE_MAX) \in Seq(Name)
    BY <2>1, <1>1, SubSeqProperties
  <2>3. QED
    BY <2>2, <1>2 DEF Limited
<1>3. CASE ~(Len(m) > RESOLVE_MAX)
  BY <1>1, <1>3 DEF Limited
<1>4. QED
  BY <1>2, <1>3

(* The next-state relation, one disjunct per action: the proofs that a     *)
(* step preserves an invariant name their cases after the actions.         *)
LEMMA Steps ==
    ASSUME Next
    PROVE  \E s \in Save :
              \/ Refuse(s) \/ Queue(s) \/ AddNow(s)
              \/ SendEvent(s) \/ LoseEvent(s) \/ Answer(s)
              \/ StartAttempt(s) \/ Report(s) \/ TimeOut(s)
              \/ \E a \in Attempt :
                    \/ Resolve(s, a) \/ StartJob(s, a) \/ CommitChunk(s, a)
                    \/ AdvanceJob(s, a) \/ CompleteJob(s, a)
                    \/ Throw(s, a) \/ FailJob(s, a) \/ Crash(s, a)
  BY Zenon DEF Next, Api, ApiStep, InngestStep, AttemptStep

\* A step of one save leaves the control, the row and the history of the
\* others alone.
Same(t) ==
    /\ job'[t] = job[t] /\ asked'[t] = asked[t] /\ reply'[t] = reply[t]
    /\ inngest'[t] = inngest[t] /\ started'[t] = started[t]
    /\ pc'[t] = pc[t] /\ plan'[t] = plan[t] /\ pos'[t] = pos[t]
    /\ result'[t] = result[t]
    /\ brought'[t] = brought[t] /\ joined'[t] = joined[t]

LEMMA CallLeavesOthers ==
    ASSUME TypeOK, NEW s \in Save, NEW t \in Save, t # s,
           \/ Refuse(s) \/ Queue(s) \/ AddNow(s) \/ SendEvent(s)
           \/ LoseEvent(s) \/ Answer(s)
           \/ StartAttempt(s) \/ Report(s) \/ TimeOut(s)
    PROVE  Same(t)
<1> USE DEF Same, TypeOK, TablesOK, CallsOK, AttemptsOK, HistoryOK, attempt,
            history
<1>1. CASE Refuse(s)
  BY <1>1 DEF Refuse
<1>2. CASE Queue(s)
  BY <1>2 DEF Queue
<1>3. CASE AddNow(s)
  BY <1>3 DEF AddNow
<1>4. CASE SendEvent(s)
  BY <1>4 DEF SendEvent
<1>5. CASE LoseEvent(s)
  BY <1>5 DEF LoseEvent
<1>6. CASE Answer(s)
  BY <1>6 DEF Answer
<1>7. CASE StartAttempt(s)
  BY <1>7 DEF StartAttempt
<1>8. CASE Report(s)
  BY <1>8 DEF Report
<1>9. CASE TimeOut(s)
  BY <1>9 DEF TimeOut
<1>10. QED
  BY <1>1, <1>2, <1>3, <1>4, <1>5, <1>6, <1>7, <1>8, <1>9

LEMMA AttemptLeavesOthers ==
    ASSUME TypeOK, NEW s \in Save, NEW t \in Save, t # s, NEW a \in Attempt,
           AttemptStep(s, a)
    PROVE  Same(t)
<1> USE DEF Same, TypeOK, TablesOK, CallsOK, AttemptsOK, HistoryOK, attempt,
            history, Go
<1>1. CASE Resolve(s, a)
  BY <1>1 DEF Resolve
<1>2. CASE StartJob(s, a)
  BY <1>2 DEF StartJob
<1>3. CASE CommitChunk(s, a)
  BY <1>3 DEF CommitChunk
<1>4. CASE AdvanceJob(s, a)
  BY <1>4 DEF AdvanceJob
<1>5. CASE CompleteJob(s, a)
  BY <1>5 DEF CompleteJob
<1>6. CASE Throw(s, a)
  BY <1>6 DEF Throw
<1>7. CASE FailJob(s, a)
  BY <1>7 DEF FailJob
<1>8. CASE Crash(s, a)
  BY <1>8 DEF Crash
<1>9. QED
  BY <1>1, <1>2, <1>3, <1>4, <1>5, <1>6, <1>7, <1>8 DEF AttemptStep

\* Nothing has been done, and nothing will be, for a save that named no list.
Idle(s) ==
    /\ reply[s] \in {"none", "error"}
    /\ job[s] = NoJob
    /\ inngest[s] = "none"
    /\ started[s] = 0
    /\ \A a \in Attempt : pc[s][a] = "idle" /\ pos[s][a] = 0
    /\ brought[s] = {} /\ joined[s] = {}

\* What runs was asked for: without it a chunk could be added to no list.
AskedFirst ==
    \A s \in Save : /\ asked[s].list \in Savable \/ Idle(s)
                    /\ reply[s] = "none" => Idle(s)

TypeInv == TypeOK /\ AskedFirst

(* Every variable keeps its shape: the counters stay natural numbers, and  *)
(* no attempt beyond the last is ever started.                             *)
LEMMA TypeStep == TypeInv /\ [Next]_vars => TypeOK'
<1> SUFFICES ASSUME TypeInv, [Next]_vars PROVE TypeOK'
  OBVIOUS
<1> USE DEF TypeInv, TypeOK, rows, attempt, history, AttemptPc, Running, Ended
<1>1. ASSUME NEW s \in Save, Refuse(s)
      PROVE  TypeOK'
  <2>1. CallsOK'
    BY <1>1 DEF Refuse, CallsOK
  <2>2. TablesOK' /\ AttemptsOK' /\ HistoryOK'
    BY <1>1 DEF Refuse, TablesOK, AttemptsOK, HistoryOK
  <2>3. QED
    BY <2>1, <2>2
<1>2. ASSUME NEW s \in Save, Queue(s)
      PROVE  TypeOK'
  <2>1. TablesOK'
    <3>1. PICK l \in Savable, names \in Requests[s] :
             job' = [job EXCEPT ![s] = [NoJob EXCEPT !.status = "queued",
                                                     !.requested = Len(names)]]
      BY <1>2 DEF Queue
    <3>2. Len(names) \in Nat
      BY BulkAddAssumption, EmptySeq, LenProperties
    <3>3. QED
      BY <1>2, <3>1, <3>2 DEF Queue, NoJob, TablesOK
  <2>2. CallsOK'
    <3>1. PICK l \in Savable, names \in Requests[s] :
             asked' = [asked EXCEPT ![s] = [list |-> l, names |-> names]]
      BY <1>2 DEF Queue
    <3>2. names \in Seq(Name) /\ l \in List
      BY BulkAddAssumption, EmptySeq
    <3>3. QED
      BY <1>2, <3>1, <3>2 DEF Queue, CallsOK
  <2>3. AttemptsOK' /\ HistoryOK'
    BY <1>2 DEF Queue, AttemptsOK, HistoryOK
  <2>4. QED
    BY <2>1, <2>2, <2>3
<1>3. ASSUME NEW s \in Save, AddNow(s)
      PROVE  TypeOK'
  <2>1. CallsOK'
    <3>1. PICK l \in Savable, names \in Requests[s] :
             asked' = [asked EXCEPT ![s] = [list |-> l, names |-> names]]
      BY <1>3 DEF AddNow
    <3>2. names \in Seq(Name) /\ l \in List
      BY BulkAddAssumption
    <3>3. QED
      BY <1>3, <3>1, <3>2 DEF AddNow, CallsOK
  <2>2. AttemptsOK'
    <3>1. PICK names \in Requests[s] : plan' = [plan EXCEPT ![s][0] = names]
      BY <1>3 DEF AddNow
    <3>2. names \in Seq(Name) /\ 0 \in Attempt
      BY BulkAddAssumption DEF Attempt
    <3>3. plan' \in [Save -> [Attempt -> Seq(Name)]]
      BY <3>1, <3>2 DEF AttemptsOK
    <3>4. QED
      BY <1>3, <3>2, <3>3 DEF AddNow, AttemptsOK
  <2>3. TablesOK' /\ HistoryOK'
    BY <1>3 DEF AddNow, TablesOK, HistoryOK
  <2>4. QED
    BY <2>1, <2>2, <2>3
<1>4. ASSUME NEW s \in Save, SendEvent(s)
      PROVE  TypeOK'
  <2>1. CallsOK'
    BY <1>4 DEF SendEvent, CallsOK
  <2>2. TablesOK' /\ AttemptsOK' /\ HistoryOK'
    BY <1>4 DEF SendEvent, TablesOK, AttemptsOK, HistoryOK
  <2>3. QED
    BY <2>1, <2>2
<1>5. ASSUME NEW s \in Save, LoseEvent(s)
      PROVE  TypeOK'
  <2>1. CallsOK'
    BY <1>5 DEF LoseEvent, CallsOK
  <2>2. TablesOK' /\ AttemptsOK' /\ HistoryOK'
    BY <1>5 DEF LoseEvent, TablesOK, AttemptsOK, HistoryOK
  <2>3. QED
    BY <2>1, <2>2
<1>6. ASSUME NEW s \in Save, Answer(s)
      PROVE  TypeOK'
  <2>1. CallsOK'
    BY <1>6 DEF Answer, CallsOK
  <2>2. TablesOK' /\ AttemptsOK' /\ HistoryOK'
    BY <1>6 DEF Answer, TablesOK, AttemptsOK, HistoryOK
  <2>3. QED
    BY <2>1, <2>2
<1>7. ASSUME NEW s \in Save, StartAttempt(s)
      PROVE  TypeOK'
  <2>1. CallsOK'
    BY <1>7, BulkAddAssumption DEF StartAttempt, AttemptsLeft, Attempt, CallsOK
  <2>2. AttemptsOK'
    BY <1>7, BulkAddAssumption DEF StartAttempt, AttemptsLeft, Attempt, AttemptsOK
  <2>3. TablesOK' /\ HistoryOK'
    BY <1>7 DEF StartAttempt, TablesOK, HistoryOK
  <2>4. QED
    BY <2>1, <2>2, <2>3
<1>8. ASSUME NEW s \in Save, Report(s)
      PROVE  TypeOK'
  <2>1. CallsOK'
    BY <1>8 DEF Report, AfterFailure, CallsOK
  <2>2. TablesOK' /\ AttemptsOK' /\ HistoryOK'
    BY <1>8 DEF Report, TablesOK, AttemptsOK, HistoryOK
  <2>3. QED
    BY <2>1, <2>2
<1>9. ASSUME NEW s \in Save, TimeOut(s)
      PROVE  TypeOK'
  <2>1. CallsOK'
    BY <1>9 DEF TimeOut, AfterFailure, CallsOK
  <2>2. TablesOK' /\ AttemptsOK' /\ HistoryOK'
    BY <1>9 DEF TimeOut, TablesOK, AttemptsOK, HistoryOK
  <2>3. QED
    BY <2>1, <2>2
<1>10. ASSUME NEW s \in Save, NEW a \in Attempt,
             Resolve(s, a)
      PROVE  TypeOK'
  <2>1. AttemptsOK'
    <3>1. PICK names : /\ names \in {asked[s].names} \cup {Limited(m) : m \in Matches}
                       /\ plan' = [plan EXCEPT ![s][a] = names]
      BY <1>10 DEF Resolve
    <3>2. names \in Seq(Name)
      BY <3>1, LimitedType DEF CallsOK
    <3>3. plan' \in [Save -> [Attempt -> Seq(Name)]]
      BY <3>1, <3>2 DEF AttemptsOK
    <3>4. pc' \in [Save -> [Attempt -> AttemptPc]]
      BY <1>10 DEF Resolve, Go, AttemptsOK
    <3>5. QED
      BY <1>10, <3>3, <3>4 DEF Resolve, AttemptsOK
  <2>2. TablesOK' /\ CallsOK' /\ HistoryOK'
    BY <1>10 DEF Resolve, TablesOK, CallsOK, HistoryOK
  <2>3. QED
    BY <2>1, <2>2
<1>11. ASSUME NEW s \in Save, NEW a \in Attempt,
             StartJob(s, a)
      PROVE  TypeOK'
  <2>1. TablesOK'
    <3>1. Len(plan[s][a]) \in Nat
      BY LenProperties DEF AttemptsOK
    <3>2. QED
      BY <1>11, <3>1 DEF StartJob, StartedRow, NoJob, TablesOK
  <2>2. AttemptsOK'
    BY <1>11 DEF StartJob, Go, StartedRow, NoJob, LoopFrom, AttemptsOK
  <2>3. CallsOK' /\ HistoryOK'
    BY <1>11 DEF StartJob, CallsOK, HistoryOK
  <2>4. QED
    BY <2>1, <2>2, <2>3
<1>12. ASSUME NEW s \in Save, NEW a \in Attempt,
             CommitChunk(s, a)
      PROVE  TypeOK'
  <2> DEFINE crds == ChunkCrds(s, a)
  <2>1. crds \subseteq Crd /\ Inserted(crds) \subseteq Crd
        /\ NewMembers(asked[s].list, crds) \subseteq Crd
    BY ChunkCounts DEF Inserted, NewMembers, Returned
  <2>2. asked[s].list \in List
    BY <1>12, BulkAddAssumption DEF CommitChunk, AskedFirst, Idle
  <2>3. TablesOK'
    BY <1>12, <2>1, <2>2 DEF CommitChunk, TablesOK
  <2>4. HistoryOK'
    BY <1>12, <2>1 DEF CommitChunk, HistoryOK
  <2>5. AttemptsOK'
    <3>1. [processed |-> Cardinality(Slice(s, a)),
           created |-> Created(crds),
           added |-> Cardinality(NewMembers(asked[s].list, crds))]
             \in [processed : Nat, created : Nat, added : Nat]
      BY ChunkCounts
    <3>2. result' \in [Save -> [Attempt ->
                      [processed : Nat, created : Nat, added : Nat]]]
      BY <1>12, <3>1 DEF CommitChunk, AttemptsOK
    <3>3. pos' \in [Save -> [Attempt -> Nat]]
      BY <1>12, ChunkCounts DEF CommitChunk, AttemptsOK
    <3>4. pc' \in [Save -> [Attempt -> AttemptPc]]
      BY <1>12 DEF CommitChunk, AttemptsOK
    <3>5. QED
      BY <1>12, <3>2, <3>3, <3>4 DEF CommitChunk, AttemptsOK
  <2>6. CallsOK'
    BY <1>12 DEF CommitChunk, CallsOK
  <2>7. QED
    BY <2>3, <2>4, <2>5, <2>6
<1>13. ASSUME NEW s \in Save, NEW a \in Attempt,
             AdvanceJob(s, a)
      PROVE  TypeOK'
  <2>1. TablesOK'
    <3> DEFINE old == job[s]
               more == result[s][a]
    <3>1. more \in [processed : Nat, created : Nat, added : Nat]
      BY DEF AttemptsOK
    <3>2. old \in [status : {"none", "queued", "running", "completed", "failed"},
                   requested : Nat, processed : Nat, created : Nat, added : Nat]
      BY DEF TablesOK
    <3> HIDE DEF old, more
    <3> DEFINE row == [old EXCEPT !.processed = @ + more.processed,
                                  !.created = @ + more.created,
                                  !.added = @ + more.added]
    <3>3. /\ old.processed + more.processed \in Nat
          /\ old.created + more.created \in Nat
          /\ old.added + more.added \in Nat
      BY <3>1, <3>2
    <3>4. row \in [status : {"none", "queued", "running", "completed", "failed"},
                   requested : Nat, processed : Nat, created : Nat, added : Nat]
      BY <3>2, <3>3
    <3>5. job' = [job EXCEPT ![s] = row]
      BY <1>13 DEF AdvanceJob, TablesOK, old, more
    <3> HIDE DEF row
    <3>6. UNCHANGED rows
      BY <1>13 DEF AdvanceJob
    <3>7. job' \in [Save -> [status : {"none", "queued", "running", "completed",
                                       "failed"},
                              requested : Nat, processed : Nat,
                              created : Nat, added : Nat]]
      BY <3>4, <3>5 DEF TablesOK
    <3>8. QED
      BY <3>6, <3>7 DEF TablesOK
  <2>2. AttemptsOK'
    BY <1>13 DEF AdvanceJob, Go, LoopFrom, AttemptsOK
  <2>3. CallsOK' /\ HistoryOK'
    BY <1>13 DEF AdvanceJob, CallsOK, HistoryOK
  <2>4. QED
    BY <2>1, <2>2, <2>3
<1>14. ASSUME NEW s \in Save, NEW a \in Attempt,
             CompleteJob(s, a)
      PROVE  TypeOK'
  <2>1. TablesOK'
    BY <1>14 DEF CompleteJob, Go, TablesOK
  <2>2. AttemptsOK'
    BY <1>14 DEF CompleteJob, Go, AttemptsOK
  <2>3. CallsOK' /\ HistoryOK'
    BY <1>14 DEF CompleteJob, CallsOK, HistoryOK
  <2>4. QED
    BY <2>1, <2>2, <2>3
<1>15. ASSUME NEW s \in Save, NEW a \in Attempt,
             Throw(s, a)
      PROVE  TypeOK'
  <2>1. AttemptsOK'
    BY <1>15 DEF Throw, AttemptsOK
  <2>2. TablesOK' /\ CallsOK' /\ HistoryOK'
    BY <1>15 DEF Throw, TablesOK, CallsOK, HistoryOK
  <2>3. QED
    BY <2>1, <2>2
<1>16. ASSUME NEW s \in Save, NEW a \in Attempt,
             FailJob(s, a)
      PROVE  TypeOK'
  <2>1. TablesOK'
    BY <1>16 DEF FailJob, Go, TablesOK
  <2>2. AttemptsOK'
    BY <1>16 DEF FailJob, Go, AttemptsOK
  <2>3. CallsOK' /\ HistoryOK'
    BY <1>16 DEF FailJob, CallsOK, HistoryOK
  <2>4. QED
    BY <2>1, <2>2, <2>3
<1>17. ASSUME NEW s \in Save, NEW a \in Attempt,
             Crash(s, a)
      PROVE  TypeOK'
  <2>1. AttemptsOK'
    BY <1>17 DEF Crash, AttemptsOK
  <2>2. TablesOK' /\ CallsOK' /\ HistoryOK'
    BY <1>17 DEF Crash, TablesOK, CallsOK, HistoryOK
  <2>3. QED
    BY <2>1, <2>2
<1>18. CASE UNCHANGED vars
  BY <1>18 DEF vars, TablesOK, CallsOK, AttemptsOK, HistoryOK
<1>19. QED
  BY Steps, <1>1, <1>2, <1>3, <1>4, <1>5, <1>6, <1>7, <1>8, <1>9, <1>10, <1>11, <1>12, <1>13, <1>14, <1>15, <1>16, <1>17, <1>18

(* Nothing runs for a save before its list is known. *)
LEMMA AskedStep == TypeInv /\ [Next]_vars => AskedFirst'
<1> SUFFICES ASSUME TypeInv, [Next]_vars, NEW t \in Save
             PROVE  /\ asked'[t].list \in Savable \/ Idle(t)'
                    /\ reply'[t] = "none" => Idle(t)'
  BY DEF AskedFirst
<1> USE DEF TypeInv
<1>1. Same(t) => /\ asked'[t].list \in Savable \/ Idle(t)'
                 /\ reply'[t] = "none" => Idle(t)'
  BY DEF AskedFirst, Idle, Same
<1>2. CASE UNCHANGED vars
  BY <1>1, <1>2 DEF vars, attempt, history, Same
<1>3. ASSUME NEW s \in Save, Refuse(s)
      PROVE  /\ asked'[t].list \in Savable \/ Idle(t)'
             /\ reply'[t] = "none" => Idle(t)'
  <2>1. CASE t # s
    BY <1>1, <1>3, <2>1, CallLeavesOthers
  <2>2. CASE t = s
    BY <1>3, <2>2 DEF Refuse, AskedFirst, Idle, rows, attempt, history,
       TypeOK, CallsOK, Ended
  <2>3. QED
    BY <2>1, <2>2
<1>4. ASSUME NEW s \in Save, Queue(s)
      PROVE  /\ asked'[t].list \in Savable \/ Idle(t)'
             /\ reply'[t] = "none" => Idle(t)'
  <2>1. CASE t # s
    BY <1>1, <1>4, <2>1, CallLeavesOthers
  <2>2. CASE t = s
    BY <1>4, <2>2 DEF Queue, AskedFirst, Idle, rows, attempt, history,
       TypeOK, CallsOK, Ended
  <2>3. QED
    BY <2>1, <2>2
<1>5. ASSUME NEW s \in Save, AddNow(s)
      PROVE  /\ asked'[t].list \in Savable \/ Idle(t)'
             /\ reply'[t] = "none" => Idle(t)'
  <2>1. CASE t # s
    BY <1>1, <1>5, <2>1, CallLeavesOthers
  <2>2. CASE t = s
    BY <1>5, <2>2 DEF AddNow, AskedFirst, Idle, rows, attempt, history,
       TypeOK, CallsOK, Ended
  <2>3. QED
    BY <2>1, <2>2
<1>6. ASSUME NEW s \in Save, SendEvent(s)
      PROVE  /\ asked'[t].list \in Savable \/ Idle(t)'
             /\ reply'[t] = "none" => Idle(t)'
  <2>1. CASE t # s
    BY <1>1, <1>6, <2>1, CallLeavesOthers
  <2>2. CASE t = s
    BY <1>6, <2>2 DEF SendEvent, AskedFirst, Idle, rows, attempt, history,
       TypeOK, CallsOK, Ended
  <2>3. QED
    BY <2>1, <2>2
<1>7. ASSUME NEW s \in Save, LoseEvent(s)
      PROVE  /\ asked'[t].list \in Savable \/ Idle(t)'
             /\ reply'[t] = "none" => Idle(t)'
  <2>1. CASE t # s
    BY <1>1, <1>7, <2>1, CallLeavesOthers
  <2>2. CASE t = s
    BY <1>7, <2>2 DEF LoseEvent, AskedFirst, Idle, rows, attempt, history,
       TypeOK, CallsOK, Ended
  <2>3. QED
    BY <2>1, <2>2
<1>8. ASSUME NEW s \in Save, Answer(s)
      PROVE  /\ asked'[t].list \in Savable \/ Idle(t)'
             /\ reply'[t] = "none" => Idle(t)'
  <2>1. CASE t # s
    BY <1>1, <1>8, <2>1, CallLeavesOthers
  <2>2. CASE t = s
    BY <1>8, <2>2 DEF Answer, AskedFirst, Idle, rows, attempt, history,
       TypeOK, CallsOK, Ended
  <2>3. QED
    BY <2>1, <2>2
<1>9. ASSUME NEW s \in Save, StartAttempt(s)
      PROVE  /\ asked'[t].list \in Savable \/ Idle(t)'
             /\ reply'[t] = "none" => Idle(t)'
  <2>1. CASE t # s
    BY <1>1, <1>9, <2>1, CallLeavesOthers
  <2>2. CASE t = s
    BY <1>9, <2>2 DEF StartAttempt, AskedFirst, Idle, rows, attempt, history,
       TypeOK, CallsOK, Ended
  <2>3. QED
    BY <2>1, <2>2
<1>10. ASSUME NEW s \in Save, Report(s)
      PROVE  /\ asked'[t].list \in Savable \/ Idle(t)'
             /\ reply'[t] = "none" => Idle(t)'
  <2>1. CASE t # s
    BY <1>1, <1>10, <2>1, CallLeavesOthers
  <2>2. CASE t = s
    BY <1>10, <2>2 DEF Report, AskedFirst, Idle, rows, attempt, history,
       TypeOK, CallsOK, Ended
  <2>3. QED
    BY <2>1, <2>2
<1>11. ASSUME NEW s \in Save, TimeOut(s)
      PROVE  /\ asked'[t].list \in Savable \/ Idle(t)'
             /\ reply'[t] = "none" => Idle(t)'
  <2>1. CASE t # s
    BY <1>1, <1>11, <2>1, CallLeavesOthers
  <2>2. CASE t = s
    BY <1>11, <2>2 DEF TimeOut, AskedFirst, Idle, rows, attempt, history,
       TypeOK, CallsOK, Ended
  <2>3. QED
    BY <2>1, <2>2
<1>12. ASSUME NEW s \in Save, NEW a \in Attempt, AttemptStep(s, a)
      PROVE  /\ asked'[t].list \in Savable \/ Idle(t)'
             /\ reply'[t] = "none" => Idle(t)'
  <2>1. pc[s][a] # "idle"
    BY <1>12 DEF AttemptStep, Resolve, StartJob, CommitChunk, AdvanceJob,
       CompleteJob, Throw, FailJob, Crash, Go, Running
  <2>2. ~Idle(s)
    BY <2>1 DEF Idle
  <2>3. asked' = asked /\ reply' = reply
    BY <1>12 DEF AttemptStep, Resolve, StartJob, CommitChunk, AdvanceJob,
       CompleteJob, Throw, FailJob, Crash
  <2>4. CASE t # s
    BY <1>1, <1>12, <2>4, AttemptLeavesOthers
  <2>5. CASE t = s
    BY <2>2, <2>3, <2>5 DEF AskedFirst
  <2>6. QED
    BY <2>4, <2>5
<1>13. QED
  BY <1>2, <1>3, <1>4, <1>5, <1>6, <1>7, <1>8, <1>9, <1>10, <1>11, <1>12
  DEF Next, Api, ApiStep, InngestStep

LEMMA TypeInvariant == Spec => []TypeInv
<1>1. Init => TypeInv
  BY BulkAddAssumption, EmptySeq
  DEF Init, TypeInv, TypeOK, TablesOK, CallsOK, AttemptsOK, HistoryOK,
      AskedFirst, Idle, NoJob, Nothing, Attempt, AttemptPc
<1>2. TypeInv /\ [Next]_vars => TypeInv'
  BY TypeStep, AskedStep DEF TypeInv
<1>3. QED
  BY <1>1, <1>2, PTL DEF Spec

THEOREM TypeCorrect == Spec => []TypeOK
<1>1. TypeInv => TypeOK
  BY DEF TypeInv
<1>2. QED
  BY <1>1, TypeInvariant, PTL

----------------------------------------------------------------------------
\* The loop has put everything before its index into the list.
PrefixSaved(s, a) ==
    \A i \in 1..pos[s][a] : <<asked[s].list, CrdAt(s, a, i)>> \in list_member

\* What the control of an attempt says of its index.
LoopInv(s, a) ==
    /\ pos[s][a] <= Len(plan[s][a])
    /\ pc[s][a] \in {"idle", "resolve", "start"} => pos[s][a] = 0
    /\ pc[s][a] \in {"complete", "returned"} => pos[s][a] = Len(plan[s][a])

\* A plan is what was asked for: the pick, or a selection of the filter.
PlanInv(s, a) ==
    pc[s][a] \in {"start", "chunk", "advance", "complete", "returned"}
        => plan[s][a] \in (IF asked[s].names = <<>>
                           THEN {Limited(m) : m \in Matches}
                           ELSE {asked[s].names})

\* The api's own attempt is one chunk.
SyncInv(s) ==
    /\ pc[s][0] \in {"idle", "chunk"} \cup Ended
    /\ pc[s][0] = "chunk" => pos[s][0] = 0 /\ Len(plan[s][0]) <= CHUNK

\* Success is reported after an attempt returned, and Inngest starts each
\* attempt once.
ReportInv(s) ==
    /\ job[s].status = "completed" =>
            \E a \in Attempt : pc[s][a] = "returned"
    /\ reply[s] = "completed" => pc[s][0] = "returned"
    /\ \A a \in Attempt : a > started[s] => pc[s][a] = "idle"

AttemptInv(s, a) == PrefixSaved(s, a) /\ LoopInv(s, a) /\ PlanInv(s, a)

SaveInv(s) ==
    /\ \A a \in Attempt : AttemptInv(s, a)
    /\ SyncInv(s)
    /\ ReportInv(s)

SafeInv == \A s \in Save : SaveInv(s)
----------------------------------------------------------------------------
(* Records and memberships are never removed.                              *)
LEMMA RowsGrow ==
    [Next]_vars => entity_record \subseteq entity_record' /\ list_member \subseteq list_member'
<1> SUFFICES ASSUME [Next]_vars
             PROVE  entity_record \subseteq entity_record' /\ list_member \subseteq list_member'
  OBVIOUS
<1>1. ASSUME NEW s \in Save, NEW a \in Attempt, CommitChunk(s, a)
      PROVE  entity_record \subseteq entity_record' /\ list_member \subseteq list_member'
  BY <1>1 DEF CommitChunk
<1>2. CASE UNCHANGED vars
  BY <1>2 DEF vars, rows
<1>3. CASE Next
  <2>1. PICK s \in Save : Api(s) \/ ApiStep(s) \/ InngestStep(s)
                          \/ \E a \in Attempt : AttemptStep(s, a)
    BY <1>3 DEF Next
  <2>2. CASE Api(s)
    BY <2>2 DEF Api, Queue, AddNow, Refuse, rows
  <2>3. CASE ApiStep(s)
    BY <2>3 DEF ApiStep, SendEvent, LoseEvent, Answer, rows
  <2>4. CASE InngestStep(s)
    BY <2>4 DEF InngestStep, StartAttempt, Report, TimeOut, rows
  <2>5. ASSUME NEW a \in Attempt, AttemptStep(s, a)
        PROVE  entity_record \subseteq entity_record' /\ list_member \subseteq list_member'
    BY <1>1, <2>5 DEF AttemptStep, Resolve, StartJob, AdvanceJob, CompleteJob,
       Throw, FailJob, Crash, rows
  <2>6. QED
    BY <2>1, <2>2, <2>3, <2>4, <2>5
<1>4. QED
  BY <1>2, <1>3

(* An attempt nobody moves keeps what is known of it.                      *)
LEMMA AttemptKept ==
    ASSUME TypeOK, NEW s \in Save, NEW a \in Attempt, AttemptInv(s, a),
           list_member \subseteq list_member',
           asked'[s] = asked[s], plan'[s][a] = plan[s][a],
           pos'[s][a] = pos[s][a], pc'[s][a] = pc[s][a]
    PROVE  AttemptInv(s, a)'
<1>1. PrefixSaved(s, a)'
  BY DEF AttemptInv, PrefixSaved, CrdAt
<1>2. LoopInv(s, a)'
  BY DEF AttemptInv, LoopInv
<1>3. PlanInv(s, a)'
  BY DEF AttemptInv, PlanInv
<1>4. QED
  BY <1>1, <1>2, <1>3 DEF AttemptInv

(* So does a save nobody moves.                                            *)
LEMMA SaveKept ==
    ASSUME TypeOK, NEW t \in Save, SaveInv(t), Same(t),
           list_member \subseteq list_member'
    PROVE  SaveInv(t)'
<1>1. ASSUME NEW a \in Attempt PROVE AttemptInv(t, a)'
  BY AttemptKept DEF SaveInv, Same
<1>2. SyncInv(t)'
  BY DEF SaveInv, SyncInv, Same
<1>3. ReportInv(t)'
  BY DEF SaveInv, ReportInv, Same
<1>4. QED
  BY <1>1, <1>2, <1>3 DEF SaveInv

(* A step of the api or of Inngest that starts no attempt.                 *)
LEMMA CallKeepsSafe ==
    ASSUME TypeInv, NEW s \in Save, SaveInv(s),
           \/ Refuse(s) \/ SendEvent(s) \/ LoseEvent(s)
           \/ Answer(s) \/ Report(s) \/ TimeOut(s)
    PROVE  SaveInv(s)'
<1> USE DEF TypeInv
<1>1. UNCHANGED <<rows, attempt, asked, job, started>>
  BY DEF Refuse, SendEvent, LoseEvent, Answer, Report, TimeOut
<1>2. ASSUME NEW a \in Attempt PROVE AttemptInv(s, a)'
  BY <1>1, AttemptKept DEF SaveInv, attempt, rows
<1>3. SyncInv(s)'
  BY <1>1 DEF SaveInv, SyncInv, attempt
<1>4. reply'[s] = "completed" => pc[s][0] = "returned"
  <2>1. CASE Answer(s)
    BY <2>1 DEF Answer, TypeOK, CallsOK
  <2>2. CASE ~Answer(s)
    BY <2>2 DEF Refuse, SendEvent, LoseEvent, Report, TimeOut, TypeOK, CallsOK,
       SaveInv, ReportInv
  <2>3. QED
    BY <2>1, <2>2
<1>5. ReportInv(s)'
  BY <1>1, <1>4 DEF SaveInv, ReportInv, attempt
<1>6. QED
  BY <1>2, <1>3, <1>5 DEF SaveInv

LEMMA QueueKeepsSafe ==
    ASSUME TypeInv, NEW s \in Save, SaveInv(s), Queue(s)
    PROVE  SaveInv(s)'
<1> USE DEF TypeInv
<1>1. Idle(s)
  BY DEF Queue, AskedFirst
<1>2. UNCHANGED <<attempt, started>>
  BY DEF Queue
<1>3. ASSUME NEW a \in Attempt PROVE AttemptInv(s, a)'
  <2>1. pc'[s][a] = "idle" /\ pos'[s][a] = 0 /\ plan'[s][a] \in Seq(Name)
    BY <1>1, <1>2 DEF Idle, attempt, TypeOK, AttemptsOK
  <2>2. QED
    BY <2>1 DEF AttemptInv, PrefixSaved, LoopInv, PlanInv
<1>4. SyncInv(s)'
  BY <1>2 DEF SaveInv, SyncInv, attempt
<1>5. job'[s].status = "queued" /\ reply'[s] = "sending"
  BY DEF Queue, NoJob, TypeOK, TablesOK, CallsOK
<1>6. ReportInv(s)'
  BY <1>2, <1>5 DEF SaveInv, ReportInv, attempt
<1>7. QED
  BY <1>3, <1>4, <1>6 DEF SaveInv

LEMMA AddNowKeepsSafe ==
    ASSUME TypeInv, NEW s \in Save, SaveInv(s), AddNow(s)
    PROVE  SaveInv(s)'
<1> USE DEF TypeInv
<1>1. Idle(s) /\ 0 \in Attempt
  BY BulkAddAssumption DEF AddNow, AskedFirst, Attempt
<1>2. PICK l \in Savable, names \in Requests[s] :
        /\ names # <<>> /\ Len(names) <= SYNC_ADD_MAX
        /\ asked' = [asked EXCEPT ![s] = [list |-> l, names |-> names]]
        /\ plan' = [plan EXCEPT ![s][0] = names]
  BY DEF AddNow
<1>3. /\ names \in Seq(Name) /\ names # <<>>
      /\ Len(names) \in Nat /\ Len(names) <= CHUNK
  BY <1>2, BulkAddAssumption
<1>4. /\ asked'[s].names = names
      /\ plan'[s][0] = names
      /\ pc'[s][0] = "chunk"
      /\ \A a \in Attempt : /\ pos'[s][a] = 0
                            /\ a # 0 => pc'[s][a] = "idle"
                            /\ plan'[s][a] \in Seq(Name)
  BY <1>1, <1>2, <1>3 DEF AddNow, Idle, TypeOK, AttemptsOK, CallsOK
<1>5. ASSUME NEW a \in Attempt PROVE AttemptInv(s, a)'
  BY <1>3, <1>4 DEF AttemptInv, PrefixSaved, LoopInv, PlanInv
<1>6. SyncInv(s)'
  BY <1>1, <1>3, <1>4 DEF SyncInv
<1>7. /\ job'[s] = job[s] /\ job[s].status = "none"
      /\ reply'[s] = "adding" /\ started'[s] = started[s] /\ started[s] = 0
  BY <1>1 DEF AddNow, Idle, NoJob, TypeOK, CallsOK
<1>8. ReportInv(s)'
  BY <1>4, <1>7 DEF ReportInv, Attempt
<1>9. QED
  BY <1>5, <1>6, <1>8 DEF SaveInv

LEMMA StartAttemptKeepsSafe ==
    ASSUME TypeInv, NEW s \in Save, SaveInv(s), StartAttempt(s)
    PROVE  SaveInv(s)'
<1> USE DEF TypeInv
<1> DEFINE next == started[s] + 1
<1>1. next \in Attempt \ {0} /\ started[s] \in Nat
  BY BulkAddAssumption DEF StartAttempt, AttemptsLeft, Attempt, TypeOK, CallsOK
<1>2. pc[s][next] = "idle" /\ pos[s][next] = 0
  BY <1>1 DEF SaveInv, ReportInv, AttemptInv, LoopInv, Attempt
<1>3. /\ pc'[s][next] = "resolve"
      /\ \A a \in Attempt \ {next} : pc'[s][a] = pc[s][a]
      /\ started'[s] = next
      /\ UNCHANGED <<rows, job, asked, reply, plan, pos>>
  BY <1>1 DEF StartAttempt, TypeOK, AttemptsOK, CallsOK
<1>4. ASSUME NEW a \in Attempt PROVE AttemptInv(s, a)'
  <2>1. CASE a = next
    <3>1. plan[s][a] \in Seq(Name)
      BY DEF TypeOK, AttemptsOK
    <3>2. pos'[s][a] = 0 /\ pc'[s][a] = "resolve"
      BY <1>2, <1>3, <2>1
    <3>3. Len(plan'[s][a]) \in Nat
      BY <1>3, <3>1
    <3>4. QED
      BY <3>2, <3>3 DEF AttemptInv, PrefixSaved, LoopInv, PlanInv
  <2>2. CASE a # next
    BY <1>3, <2>2, AttemptKept DEF SaveInv, rows
  <2>3. QED
    BY <2>1, <2>2
<1>5. pc'[s][0] = pc[s][0]
  BY <1>1, <1>3, BulkAddAssumption DEF Attempt
<1>6. SyncInv(s)'
  BY <1>3, <1>5 DEF SaveInv, SyncInv
<1>7. ReportInv(s)'
  <2>1. ASSUME NEW a \in Attempt, a > next PROVE pc'[s][a] = "idle"
    BY <1>1, <1>3, <2>1 DEF SaveInv, ReportInv, Attempt
  <2>2. \A a \in Attempt : pc[s][a] = "returned" => pc'[s][a] = "returned"
    BY <1>2, <1>3
  <2>3. QED
    BY <1>3, <1>5, <2>1, <2>2 DEF SaveInv, ReportInv
<1>8. QED
  BY <1>4, <1>6, <1>7 DEF SaveInv
(* What every step of an attempt leaves alone.                             *)
LEMMA AttemptFrame ==
    ASSUME TypeOK, NEW s \in Save, NEW a \in Attempt, AttemptStep(s, a)
    PROVE  /\ asked' = asked /\ reply' = reply /\ started' = started
           /\ \A b \in Attempt \ {a} : /\ pc'[s][b] = pc[s][b]
                                       /\ plan'[s][b] = plan[s][b]
                                       /\ pos'[s][b] = pos[s][b]
           /\ pc[s][a] \in Running
<1> USE DEF TypeOK, AttemptsOK, Go, Running
<1>1. CASE Resolve(s, a)
  BY <1>1 DEF Resolve
<1>2. CASE StartJob(s, a)
  BY <1>2 DEF StartJob
<1>3. CASE CommitChunk(s, a)
  BY <1>3 DEF CommitChunk
<1>4. CASE AdvanceJob(s, a)
  BY <1>4 DEF AdvanceJob
<1>5. CASE CompleteJob(s, a)
  BY <1>5 DEF CompleteJob
<1>6. CASE Throw(s, a)
  BY <1>6 DEF Throw
<1>7. CASE FailJob(s, a)
  BY <1>7 DEF FailJob
<1>8. CASE Crash(s, a)
  BY <1>8 DEF Crash
<1>9. QED
  BY <1>1, <1>2, <1>3, <1>4, <1>5, <1>6, <1>7, <1>8 DEF AttemptStep

(* The moved attempt keeps its invariant, action by action.                *)
LEMMA ResolveKeepsAttempt ==
    ASSUME TypeOK, NEW s \in Save, NEW a \in Attempt, SaveInv(s), Resolve(s, a)
    PROVE  AttemptInv(s, a)'
<1> USE DEF TypeOK
<1>1. /\ pc[s][a] = "resolve" /\ pc'[s][a] = "start"
      /\ pos' = pos /\ asked' = asked
  BY DEF Resolve, Go, AttemptsOK
<1>2. pos[s][a] = 0
  BY <1>1 DEF SaveInv, AttemptInv, LoopInv
<1>3. PICK names : /\ names \in (IF asked[s].names # <<>> THEN {asked[s].names}
                                 ELSE {Limited(m) : m \in Matches})
                   /\ plan' = [plan EXCEPT ![s][a] = names]
  BY DEF Resolve
<1>4. names \in Seq(Name)
  BY <1>3, LimitedType DEF CallsOK
<1>5. plan'[s][a] = names
  BY <1>3 DEF AttemptsOK
<1>6. names \in (IF asked[s].names = <<>> THEN {Limited(m) : m \in Matches}
                ELSE {asked[s].names})
  BY <1>3
<1>7. PrefixSaved(s, a)' /\ LoopInv(s, a)'
  <2>1. Len(names) \in Nat
    BY <1>4
  <2>2. QED
    BY <1>1, <1>2, <1>5, <2>1 DEF PrefixSaved, LoopInv
<1>8. PlanInv(s, a)'
  BY <1>1, <1>5, <1>6 DEF PlanInv
<1>9. QED
  BY <1>7, <1>8 DEF AttemptInv

LEMMA JobKeepsAttempt ==
    ASSUME TypeOK, NEW s \in Save, NEW a \in Attempt, SaveInv(s),
           \/ StartJob(s, a) \/ AdvanceJob(s, a) \/ CompleteJob(s, a)
           \/ Throw(s, a)    \/ FailJob(s, a)    \/ Crash(s, a)
    PROVE  AttemptInv(s, a)'
<1> USE DEF TypeOK
<1>1. UNCHANGED <<rows, plan, pos, asked>>
  BY DEF StartJob, AdvanceJob, CompleteJob, Throw, FailJob, Crash
<1>2. PrefixSaved(s, a)'
  BY <1>1 DEF SaveInv, AttemptInv, PrefixSaved, CrdAt, rows
<1>3. /\ Len(plan[s][a]) \in Nat
      /\ pos[s][a] \in Nat /\ pos[s][a] <= Len(plan[s][a])
  BY DEF SaveInv, AttemptInv, LoopInv, AttemptsOK
<1>4. /\ pc'[s][a] \in {"chunk", "complete", "returned", "failing", "threw",
                        "crashed"}
      /\ pc'[s][a] \in {"complete", "returned"} => pos[s][a] = Len(plan[s][a])
      /\ pc'[s][a] \in {"chunk", "complete", "returned"} =>
            pc[s][a] \in {"start", "advance", "complete"}
  <2> USE DEF Go, AttemptsOK
  <2>1. CASE StartJob(s, a)
    BY <1>3, <2>1 DEF StartJob, LoopFrom, SaveInv, AttemptInv, LoopInv
  <2>2. CASE AdvanceJob(s, a)
    BY <1>3, <2>2 DEF AdvanceJob, LoopFrom
  <2>3. CASE CompleteJob(s, a)
    BY <2>3 DEF CompleteJob, SaveInv, AttemptInv, LoopInv
  <2>4. CASE Throw(s, a) \/ FailJob(s, a) \/ Crash(s, a)
    BY <2>4 DEF Throw, FailJob, Crash
  <2>5. QED
    BY <2>1, <2>2, <2>3, <2>4
<1>5. LoopInv(s, a)'
  BY <1>1, <1>3, <1>4 DEF LoopInv
<1>6. PlanInv(s, a)'
  BY <1>1, <1>4 DEF SaveInv, AttemptInv, PlanInv
<1>7. QED
  BY <1>2, <1>5, <1>6 DEF AttemptInv

LEMMA ChunkKeepsAttempt ==
    ASSUME TypeOK, NEW s \in Save, NEW a \in Attempt, SaveInv(s),
           CommitChunk(s, a)
    PROVE  AttemptInv(s, a)'
<1> USE DEF TypeOK
<1>1. /\ pc[s][a] = "chunk"
      /\ pc'[s][a] = IF a = 0 THEN "returned" ELSE "advance"
      /\ pos'[s][a] = ChunkEnd(s, a)
      /\ plan' = plan /\ asked' = asked
  BY DEF CommitChunk, AttemptsOK
<1>2. /\ Len(plan[s][a]) \in Nat /\ pos[s][a] \in Nat
      /\ pos[s][a] <= Len(plan[s][a])
      /\ ChunkEnd(s, a) \in Nat /\ ChunkEnd(s, a) <= Len(plan[s][a])
  BY ChunkCounts DEF SaveInv, AttemptInv, LoopInv, AttemptsOK
<1>3. \A i \in Slice(s, a) : <<asked[s].list, CrdAt(s, a, i)>> \in list_member'
  <2>1. list_member' = list_member \cup ({asked[s].list} \X
                            NewMembers(asked[s].list, ChunkCrds(s, a)))
    BY DEF CommitChunk
  <2>2. \A i \in Slice(s, a) : CrdAt(s, a, i) \in ChunkCrds(s, a)
    BY DEF ChunkCrds
  <2>3. QED
    BY <2>1, <2>2 DEF NewMembers, Returned
<1>4. PrefixSaved(s, a)'
  <2>1. ASSUME NEW i \in 1..ChunkEnd(s, a)
        PROVE  <<asked[s].list, CrdAt(s, a, i)>> \in list_member'
    <3>1. CASE i <= pos[s][a]
      BY <3>1, <1>2 DEF SaveInv, AttemptInv, PrefixSaved, CommitChunk
    <3>2. CASE ~(i <= pos[s][a])
      <4>1. i \in Slice(s, a)
        BY <3>2, <1>2 DEF Slice
      <4>2. QED
        BY <4>1, <1>3
    <3>3. QED
      BY <3>1, <3>2
  <2>2. QED
    BY <1>1, <2>1 DEF PrefixSaved, CrdAt
<1>5. LoopInv(s, a)'
  <2>1. a = 0 => ChunkEnd(s, a) = Len(plan[s][a])
    BY <1>1, <1>2, BulkAddAssumption DEF SaveInv, SyncInv, ChunkEnd
  <2>2. QED
    BY <1>1, <1>2, <2>1 DEF LoopInv
<1>6. PlanInv(s, a)'
  BY <1>1 DEF SaveInv, AttemptInv, PlanInv
<1>7. QED
  BY <1>4, <1>5, <1>6 DEF AttemptInv

LEMMA AttemptKeepsSafe ==
    ASSUME TypeInv, NEW s \in Save, SaveInv(s), NEW a \in Attempt,
           AttemptStep(s, a), list_member \subseteq list_member'
    PROVE  SaveInv(s)'
<1> USE DEF TypeInv
<1>1. ASSUME NEW b \in Attempt PROVE AttemptInv(s, b)'
  <2>1. CASE b = a
    BY <2>1, ResolveKeepsAttempt, JobKeepsAttempt, ChunkKeepsAttempt
    DEF AttemptStep
  <2>2. CASE b # a
    BY <2>2, AttemptFrame, AttemptKept DEF SaveInv
  <2>3. QED
    BY <2>1, <2>2
<1>2. SyncInv(s)'
  <2>1. CASE a = 0
    <3>1. pc[s][0] = "chunk"
      BY <2>1, AttemptFrame DEF SaveInv, SyncInv, Running, Ended
    <3>2. pc'[s][0] \in Ended
      BY <2>1, <3>1 DEF AttemptStep, Resolve, StartJob, CommitChunk, AdvanceJob,
         CompleteJob, Throw, FailJob, Crash, Go, Ended, TypeOK, AttemptsOK
    <3>3. QED
      BY <3>2 DEF SyncInv, Ended
  <2>2. CASE a # 0
    <3>1. 0 \in Attempt \ {a}
      BY <2>2, BulkAddAssumption DEF Attempt
    <3>2. QED
      BY <3>1, AttemptFrame DEF SaveInv, SyncInv
  <2>3. QED
    BY <2>1, <2>2
<1>3. pc[s][a] \in Running
  BY AttemptFrame
<1>4. \A b \in Attempt : pc[s][b] = "returned" => pc'[s][b] = "returned"
  BY <1>3, AttemptFrame DEF Running
<1>5. job'[s].status = "completed" =>
            \E b \in Attempt : pc'[s][b] = "returned"
  <2>1. CASE CompleteJob(s, a)
    BY <2>1 DEF CompleteJob, Go, TypeOK, AttemptsOK
  <2>2. CASE ~CompleteJob(s, a)
    <3>1. job'[s].status = "completed" => job[s].status = "completed"
      BY <2>2 DEF AttemptStep, Resolve, StartJob, CommitChunk, AdvanceJob,
         Throw, FailJob, Crash, StartedRow, NoJob, TypeOK, TablesOK
    <3>2. QED
      BY <3>1, <1>4 DEF SaveInv, ReportInv
  <2>3. QED
    BY <2>1, <2>2
<1>6. \A b \in Attempt : b > started[s] => pc'[s][b] = "idle"
  BY <1>3, AttemptFrame DEF SaveInv, ReportInv, Running
<1>7. 0 \in Attempt
  BY BulkAddAssumption DEF Attempt
<1>8. ReportInv(s)'
  BY <1>4, <1>5, <1>6, <1>7, AttemptFrame DEF SaveInv, ReportInv
<1>9. QED
  BY <1>1, <1>2, <1>8 DEF SaveInv

LEMMA SafeStep == TypeInv /\ SafeInv /\ [Next]_vars => SafeInv'
<1> SUFFICES ASSUME TypeInv, SafeInv, [Next]_vars, NEW t \in Save
             PROVE  SaveInv(t)'
  BY DEF SafeInv
<1>1. list_member \subseteq list_member' /\ TypeOK /\ SaveInv(t)
  BY RowsGrow DEF SafeInv, TypeInv
<1>2. CASE UNCHANGED vars
  BY <1>1, <1>2, SaveKept DEF vars, attempt, history, Same
<1>3. CASE Next
  <2>1. PICK s \in Save :
              \/ Refuse(s) \/ Queue(s) \/ AddNow(s)
              \/ SendEvent(s) \/ LoseEvent(s) \/ Answer(s)
              \/ StartAttempt(s) \/ Report(s) \/ TimeOut(s)
              \/ \E a \in Attempt : AttemptStep(s, a)
    BY <1>3 DEF Next, Api, ApiStep, InngestStep
  <2>2. CASE s = t
    BY <1>1, <2>1, <2>2, CallKeepsSafe, QueueKeepsSafe, AddNowKeepsSafe,
       StartAttemptKeepsSafe, AttemptKeepsSafe
  <2>3. CASE s # t
    <3>1. Same(t)
      BY <1>1, <2>1, <2>3, CallLeavesOthers, AttemptLeavesOthers
    <3>2. QED
      BY <1>1, <3>1, SaveKept
  <2>4. QED
    BY <2>2, <2>3
<1>4. QED
  BY <1>2, <1>3

LEMMA SafeInvariant == Spec => []SafeInv
<1>1. Init => SafeInv
  <2> SUFFICES ASSUME Init, NEW s \in Save PROVE SaveInv(s)
    BY DEF SafeInv
  <2>1. /\ asked[s].names = <<>> /\ reply[s] = "none" /\ job[s] = NoJob
        /\ \A a \in Attempt : /\ pc[s][a] = "idle" /\ pos[s][a] = 0
                              /\ plan[s][a] = <<>>
        /\ 0 \in Attempt
    BY BulkAddAssumption DEF Init, Attempt
  <2>2. ASSUME NEW a \in Attempt PROVE AttemptInv(s, a)
    BY <2>1, EmptySeq DEF AttemptInv, PrefixSaved, LoopInv, PlanInv
  <2>3. SyncInv(s) /\ ReportInv(s)
    BY <2>1 DEF SyncInv, ReportInv, NoJob
  <2>4. QED
    BY <2>2, <2>3 DEF SaveInv
<1>2. QED
  BY <1>1, SafeStep, TypeInvariant, PTL DEF Spec

(* A completed row, or a completed answer, means that every CRD the caller *)
(* picked is in the list; an attempt that returned added all it resolved   *)
(* (perform-bulk-add, bulk-add-to-list.command, add-to-list).              *)
THEOREM CompletedSaved == Spec => []CompletedMeansSaved
<1>1. TypeInv /\ SafeInv => CompletedMeansSaved
  <2> SUFFICES ASSUME TypeInv, SafeInv, NEW s \in Save
               PROVE  /\ (job[s].status = "completed" \/ reply[s] = "completed")
                            => Saved(s, asked[s].names)
                      /\ \A a \in Attempt :
                            pc[s][a] = "returned" => Saved(s, plan[s][a])
    BY DEF CompletedMeansSaved
  <2>1. ASSUME NEW a \in Attempt, pc[s][a] = "returned"
        PROVE  Saved(s, plan[s][a])
    <3>1. PrefixSaved(s, a) /\ pos[s][a] = Len(plan[s][a])
      BY <2>1 DEF SafeInv, SaveInv, AttemptInv, LoopInv
    <3>2. DOMAIN plan[s][a] = 1..Len(plan[s][a])
      BY DEF TypeInv, TypeOK, AttemptsOK
    <3>3. QED
      BY <3>1, <3>2 DEF PrefixSaved, Saved, CrdsOf, CrdAt
  <2>2. ASSUME NEW a \in Attempt, pc[s][a] = "returned"
        PROVE  Saved(s, asked[s].names)
    <3>1. CASE asked[s].names = <<>>
      BY <3>1, EmptySeq DEF Saved, CrdsOf
    <3>2. CASE plan[s][a] = asked[s].names
      BY <3>2, <2>1, <2>2
    <3>3. QED
      BY <2>2, <3>1, <3>2 DEF SafeInv, SaveInv, AttemptInv, PlanInv
  <2>3. 0 \in Attempt
    BY BulkAddAssumption DEF Attempt
  <2>4. QED
    BY <2>1, <2>2, <2>3 DEF SafeInv, SaveInv, ReportInv
<1>2. QED
  BY <1>1, TypeInvariant, SafeInvariant, PTL

(* Nobody enters the CRM whom no list took in: what a save's commits have  *)
(* inserted is in its list (perform-bulk-add's transaction).               *)
THEOREM NobodyStranded == Spec => []NoStrandedRecord
<1>1. Init => NoStrandedRecord
  BY DEF Init, NoStrandedRecord
<1>2. TypeInv /\ NoStrandedRecord /\ [Next]_vars => NoStrandedRecord'
  <2> SUFFICES ASSUME TypeInv, NoStrandedRecord, [Next]_vars, NEW t \in Save
               PROVE  \A c \in brought'[t] :
                            <<asked'[t].list, c>> \in list_member'
    BY DEF NoStrandedRecord
  <2>1. \A c \in brought[t] : <<asked[t].list, c>> \in list_member'
    BY RowsGrow DEF NoStrandedRecord
  <2>2. CASE UNCHANGED vars
    BY <2>1, <2>2 DEF vars, history
  <2>3. CASE Next
    <3>1. PICK s \in Save :
              \/ Refuse(s) \/ Queue(s) \/ AddNow(s)
              \/ SendEvent(s) \/ LoseEvent(s) \/ Answer(s)
              \/ StartAttempt(s) \/ Report(s) \/ TimeOut(s)
              \/ \E a \in Attempt : AttemptStep(s, a)
      BY <2>3 DEF Next, Api, ApiStep, InngestStep
    <3>2. CASE s # t
      <4>1. Same(t)
        BY <3>1, <3>2, CallLeavesOthers, AttemptLeavesOthers DEF TypeInv
      <4>2. QED
        BY <4>1, <2>1 DEF Same
    <3>3. CASE s = t /\ (Queue(s) \/ AddNow(s))
      <4>1. brought[t] = {}
        BY <3>3 DEF Queue, AddNow, TypeInv, AskedFirst, Idle
      <4>2. brought' = brought
        BY <3>3 DEF Queue, AddNow, history
      <4>3. QED
        BY <4>1, <4>2
    <3>4. ASSUME NEW a \in Attempt, CommitChunk(s, a), s = t
          PROVE  \A c \in brought'[t] : <<asked'[t].list, c>> \in list_member'
      <4> DEFINE new == Inserted(ChunkCrds(s, a))
                 members == NewMembers(asked[s].list, ChunkCrds(s, a))
      <4>1. /\ brought'[t] = brought[t] \cup new
            /\ list_member' = list_member \cup ({asked[s].list} \X members)
            /\ asked' = asked
        BY <3>4 DEF CommitChunk, TypeInv, TypeOK, HistoryOK
      <4>2. \A c \in new : c \in members \/ <<asked[s].list, c>> \in list_member
        BY DEF NewMembers, Returned, Inserted
      <4>3. \A c \in new : <<asked[s].list, c>> \in list_member'
        BY <4>1, <4>2
      <4>4. QED
        BY <3>4, <4>1, <4>3, <2>1
    <3>5. CASE ~Queue(s) /\ ~AddNow(s) /\ ~(\E a \in Attempt : CommitChunk(s, a))
      <4>1. asked' = asked /\ brought' = brought
        BY <3>1, <3>5 DEF Refuse, SendEvent, LoseEvent, Answer, StartAttempt,
           Report, TimeOut, AttemptStep, Resolve, StartJob, AdvanceJob,
           CompleteJob, Throw, FailJob, Crash, history
      <4>2. QED
        BY <4>1, <2>1
    <3>6. QED
      BY <3>2, <3>3, <3>4, <3>5
  <2>4. QED
    BY <2>2, <2>3
<1>3. QED
  BY <1>1, <1>2, TypeInvariant, PTL DEF Spec

-----------------------------------------------------------------------------
(* Who may be running, and what the row says of it                          *)

(* A save that Inngest does not give up on has one attempt at a time, and  *)
(* nobody has started one before the event is out.                         *)
OneAttempt(s) ==
    /\ \A a \in Attempt \ {0} :
          pc[s][a] \in Running => inngest[s] = "active" /\ a = started[s]
    /\ inngest[s] \in {"active", "ended"} => started[s] # 0
    /\ reply[s] = "sending" => inngest[s] = "none"

(* The progress of the row is where that attempt's loop is: behind it by   *)
(* the chunk that was committed and not yet reported.                      *)
RowFollows(s, a) ==
    /\ pc[s][a] \in {"chunk", "advance", "complete"} =>
          job[s].status = "running" /\ job[s].requested = Len(plan[s][a])
    /\ pc[s][a] \in {"chunk", "complete"} => job[s].processed = pos[s][a]
    /\ pc[s][a] = "advance" => job[s].processed + result[s][a].processed = pos[s][a]
    /\ pc[s][a] = "returned" => job[s].status = "completed"

InStep(s) ==
    /\ job[s].processed <= job[s].requested
    /\ job[s].status = "completed" => job[s].processed = job[s].requested

ProgressOf(s) ==
    /\ OneAttempt(s) /\ InStep(s)
    /\ started[s] # 0 => RowFollows(s, started[s])

ProgressInv == \A s \in Save \ overtaken : ProgressOf(s)

LEMMA CallKeepsProgress ==
    ASSUME TypeInv, NEW s \in Save, s \notin overtaken', ProgressOf(s),
           \/ Refuse(s) \/ SendEvent(s) \/ LoseEvent(s)
           \/ Answer(s) \/ Report(s) \/ TimeOut(s)
    PROVE  ProgressOf(s)'
<1> USE DEF TypeInv, TypeOK, CallsOK, ProgressOf, OneAttempt
<1>1. UNCHANGED <<job, started, pc, plan, pos, result>>
  BY DEF Refuse, SendEvent, LoseEvent, Answer, Report, TimeOut, attempt
<1>2. InStep(s)' /\ (started'[s] # 0 => RowFollows(s, started[s])')
  BY <1>1 DEF InStep, RowFollows
<1>3. OneAttempt(s)'
  <2>1. CASE Refuse(s) \/ Answer(s)
    BY <1>1, <2>1 DEF Refuse, Answer
  <2>2. CASE SendEvent(s) \/ LoseEvent(s)
    BY <1>1, <2>2 DEF SendEvent, LoseEvent
  <2>3. CASE Report(s)
    BY <1>1, <2>3 DEF Report, AfterFailure, Running, Ended
  <2>4. CASE TimeOut(s)
    <3>1. pc[s][started[s]] \notin Running
      BY <2>4 DEF TimeOut
    <3>2. \A a \in Attempt \ {0} : pc'[s][a] \notin Running
      BY <1>1, <3>1
    <3>3. inngest'[s] # "none" /\ reply' = reply
      BY <2>4 DEF TimeOut, AfterFailure
    <3>4. QED
      BY <1>1, <2>4, <3>2, <3>3 DEF TimeOut
  <2>5. QED
    BY <2>1, <2>2, <2>3, <2>4
<1>4. QED
  BY <1>1, <1>2, <1>3

LEMMA AskKeepsProgress ==
    ASSUME TypeInv, NEW s \in Save, Queue(s) \/ AddNow(s)
    PROVE  ProgressOf(s)'
<1> USE DEF TypeInv
<1>1. Idle(s)
  BY DEF Queue, AddNow, AskedFirst
<1>2. \A a \in Attempt \ {0} : pc'[s][a] = "idle"
  <2>1. CASE Queue(s)
    BY <1>1, <2>1 DEF Queue, Idle, attempt
  <2>2. CASE AddNow(s)
    BY <1>1, <2>2 DEF AddNow, Idle, TypeOK, AttemptsOK
  <2>3. QED
    BY <2>1, <2>2
<1>3. inngest'[s] = "none" /\ started'[s] = 0
  BY <1>1 DEF Queue, AddNow, Idle
<1>4. InStep(s)'
  <2>1. CASE AddNow(s)
    BY <1>1, <2>1 DEF AddNow, Idle, NoJob, InStep
  <2>2. CASE Queue(s)
    <3>1. PICK names \in Requests[s] :
             job' = [job EXCEPT ![s] = [NoJob EXCEPT !.status = "queued",
                                                     !.requested = Len(names)]]
      BY <2>2 DEF Queue
    <3>2. Len(names) \in Nat
      BY BulkAddAssumption, EmptySeq, LenProperties
    <3>3. QED
      BY <3>1, <3>2 DEF NoJob, InStep, TypeOK, TablesOK
  <2>3. QED
    BY <2>1, <2>2
<1>5. QED
  BY <1>2, <1>3, <1>4 DEF ProgressOf, OneAttempt, Running

LEMMA StartKeepsProgress ==
    ASSUME TypeInv, NEW s \in Save, SaveInv(s), ProgressOf(s), StartAttempt(s)
    PROVE  ProgressOf(s)'
<1> USE DEF TypeInv, TypeOK
<1>1. PICK next \in Attempt \ {0} : next = started[s] + 1
  BY BulkAddAssumption DEF StartAttempt, AttemptsLeft, Attempt, CallsOK
<1>2. /\ pc'[s][next] = "resolve"
      /\ \A a \in Attempt \ {next} : pc'[s][a] = pc[s][a]
      /\ started'[s] = next /\ inngest'[s] = "active" /\ inngest[s] = "due"
      /\ UNCHANGED <<job, reply>>
  BY <1>1 DEF StartAttempt, AttemptsOK, CallsOK
<1>3. reply[s] # "sending"
  BY <1>2 DEF ProgressOf, OneAttempt
<1>4. \A a \in Attempt \ {0} : pc[s][a] \notin Running
  BY <1>2 DEF ProgressOf, OneAttempt
<1>5. OneAttempt(s)'
  BY <1>1, <1>2, <1>3, <1>4 DEF OneAttempt
<1>6. InStep(s)' /\ RowFollows(s, next)'
  BY <1>2 DEF ProgressOf, InStep, RowFollows
<1>7. QED
  BY <1>2, <1>5, <1>6 DEF ProgressOf

(* The api's own attempt has no row and leaves the others alone.           *)
LEMMA SyncKeepsProgress ==
    ASSUME TypeInv, NEW s \in Save, SaveInv(s), ProgressOf(s), AttemptStep(s, 0)
    PROVE  ProgressOf(s)'
<1> USE DEF TypeInv, TypeOK
<1>1. 0 \in Attempt
  BY BulkAddAssumption DEF Attempt
<1>2. pc[s][0] = "chunk"
  BY <1>1, AttemptFrame DEF SaveInv, SyncInv, Running, Ended
<1>3. CommitChunk(s, 0) \/ Throw(s, 0) \/ Crash(s, 0)
  BY <1>2 DEF AttemptStep, Resolve, StartJob, AdvanceJob, CompleteJob, FailJob, Go
<1>4. UNCHANGED <<job, inngest, started, reply>>
  BY <1>3 DEF CommitChunk, Throw, Crash
<1>5. \A a \in Attempt \ {0} : /\ pc'[s][a] = pc[s][a] /\ plan'[s][a] = plan[s][a]
                               /\ pos'[s][a] = pos[s][a] /\ result'[s][a] = result[s][a]
  BY <1>1, <1>3 DEF CommitChunk, Throw, Crash, AttemptsOK
<1>6. started[s] \in Attempt
  BY DEF CallsOK
<1>7. QED
  BY <1>4, <1>5, <1>6 DEF ProgressOf, OneAttempt, InStep, RowFollows

LEMMA AttemptKeepsProgress ==
    ASSUME TypeInv, NEW s \in Save, SaveInv(s), ProgressOf(s),
           NEW a \in Attempt \ {0}, AttemptStep(s, a)
    PROVE  ProgressOf(s)'
<1> USE DEF TypeInv, TypeOK
<1>1. /\ pc[s][a] \in Running /\ reply' = reply /\ started' = started
      /\ \A b \in Attempt \ {a} : pc'[s][b] = pc[s][b]
  BY AttemptFrame
<1>2. a = started[s] /\ inngest[s] = "active"
  BY <1>1 DEF ProgressOf, OneAttempt
<1>3. inngest' = inngest
  BY DEF AttemptStep, Resolve, StartJob, CommitChunk, AdvanceJob, CompleteJob, Throw, FailJob,
         Crash
<1>4. OneAttempt(s)'
  BY <1>1, <1>2, <1>3 DEF ProgressOf, OneAttempt
<1>5. RowFollows(s, a) /\ InStep(s)
  BY <1>2 DEF ProgressOf
<1>6. /\ plan[s][a] \in Seq(Name) /\ Len(plan[s][a]) \in Nat /\ pos[s][a] \in Nat
      /\ pos[s][a] <= Len(plan[s][a])
      /\ result[s][a] \in [processed : Nat, created : Nat, added : Nat]
      /\ job[s] \in [status : {"none", "queued", "running", "completed", "failed"},
                     requested : Nat, processed : Nat, created : Nat, added : Nat]
  BY DEF AttemptsOK, TablesOK, SaveInv, AttemptInv, LoopInv
<1>7. RowFollows(s, a)' /\ InStep(s)'
  <2>1. CASE Resolve(s, a)
    BY <1>5, <2>1 DEF Resolve, Go, RowFollows, InStep, AttemptsOK
  <2>2. CASE StartJob(s, a)
    <3>1. job'[s].status = "running" /\ job'[s].requested = Len(plan[s][a])
          /\ job'[s].processed = 0
      BY <2>2 DEF StartJob, StartedRow, NoJob, TablesOK
    <3>2. pc'[s][a] \in {"chunk", "complete"} /\ UNCHANGED <<plan, pos, result>>
      BY <2>2 DEF StartJob, Go, LoopFrom, AttemptsOK
    <3>3. pos[s][a] = 0
      BY <2>2 DEF StartJob, Go, SaveInv, AttemptInv, LoopInv
    <3>4. QED
      BY <1>6, <3>1, <3>2, <3>3 DEF RowFollows, InStep
  <2>3. CASE CommitChunk(s, a)
    <3>1. /\ pc[s][a] = "chunk" /\ pc'[s][a] = "advance" /\ UNCHANGED <<job, plan>>
          /\ pos'[s][a] = ChunkEnd(s, a)
          /\ result'[s][a].processed = Cardinality(Slice(s, a))
      BY <2>3 DEF CommitChunk, AttemptsOK
    <3>2. job[s].processed + Cardinality(Slice(s, a)) = ChunkEnd(s, a)
      BY SMTT(20), <1>5, <1>6, <3>1, ChunkCounts DEF RowFollows
    <3>3. QED
      BY <1>5, <3>1, <3>2 DEF RowFollows, InStep
  <2>4. CASE AdvanceJob(s, a)
    <3>1. /\ pc[s][a] = "advance" /\ pc'[s][a] \in {"chunk", "complete"}
          /\ UNCHANGED <<plan, pos>>
      BY <2>4 DEF AdvanceJob, Go, LoopFrom, AttemptsOK
    <3>2. /\ job'[s].processed = job[s].processed + result[s][a].processed
          /\ job'[s].requested = job[s].requested /\ job'[s].status = job[s].status
      BY <1>6, <2>4 DEF AdvanceJob, TablesOK
    <3>3. QED
      BY <1>5, <1>6, <3>1, <3>2 DEF RowFollows, InStep
  <2>5. CASE CompleteJob(s, a)
    <3>1. /\ pc[s][a] = "complete" /\ pc'[s][a] = "returned"
          /\ pos[s][a] = Len(plan[s][a])
      BY <2>5 DEF CompleteJob, Go, AttemptsOK, SaveInv, AttemptInv, LoopInv
    <3>2. /\ job'[s].status = "completed"
          /\ job'[s].processed = job[s].processed /\ job'[s].requested = job[s].requested
      BY <1>6, <2>5 DEF CompleteJob, TablesOK
    <3>3. QED
      BY <1>5, <3>1, <3>2 DEF RowFollows, InStep
  <2>6. CASE Throw(s, a) \/ Crash(s, a)
    BY <1>5, <2>6 DEF Throw, Crash, RowFollows, InStep, AttemptsOK
  <2>7. CASE FailJob(s, a)
    <3>1. pc'[s][a] = "threw"
      BY <2>7 DEF FailJob, Go, AttemptsOK
    <3>2. /\ job'[s].status = "failed"
          /\ job'[s].processed = job[s].processed /\ job'[s].requested = job[s].requested
      BY <1>6, <2>7 DEF FailJob, TablesOK
    <3>3. QED
      BY <1>5, <3>1, <3>2 DEF RowFollows, InStep
  <2>8. QED
    BY <2>1, <2>2, <2>3, <2>4, <2>5, <2>6, <2>7 DEF AttemptStep
<1>8. QED
  BY <1>1, <1>2, <1>4, <1>7 DEF ProgressOf

LEMMA ProgressStep == TypeInv /\ SafeInv /\ ProgressInv /\ [Next]_vars => ProgressInv'
<1> SUFFICES ASSUME TypeInv, SafeInv, ProgressInv, [Next]_vars, NEW t \in Save \ overtaken'
             PROVE  ProgressOf(t)'
  BY DEF ProgressInv
<1>0. overtaken \subseteq overtaken'
  <2>1. CASE Next
    <3>1. PICK s \in Save :
              \/ Refuse(s) \/ Queue(s) \/ AddNow(s)
              \/ SendEvent(s) \/ LoseEvent(s) \/ Answer(s)
              \/ StartAttempt(s) \/ Report(s) \/ TimeOut(s)
              \/ \E a \in Attempt : AttemptStep(s, a)
      BY <2>1 DEF Next, Api, ApiStep, InngestStep
    <3>2. CASE \E a \in Attempt : AttemptStep(s, a)
      BY <3>2 DEF AttemptStep, Resolve, StartJob, CommitChunk, AdvanceJob, CompleteJob, Throw,
                  FailJob, Crash, history
    <3>3. QED
      BY <3>1, <3>2 DEF Refuse, Queue, AddNow, SendEvent, LoseEvent, Answer, StartAttempt, Report,
                        TimeOut, history
  <2>2. QED
    BY <2>1 DEF vars, history
<1>1. TypeOK /\ SaveInv(t) /\ ProgressOf(t)
  BY <1>0 DEF TypeInv, SafeInv, ProgressInv
<1>2. Same(t) => ProgressOf(t)'
  BY <1>1 DEF Same, ProgressOf, OneAttempt, InStep, RowFollows
<1>3. CASE UNCHANGED vars
  BY <1>2, <1>3 DEF vars, attempt, history, Same
<1>4. CASE Next
  <2>1. PICK s \in Save :
              \/ Refuse(s) \/ Queue(s) \/ AddNow(s)
              \/ SendEvent(s) \/ LoseEvent(s) \/ Answer(s)
              \/ StartAttempt(s) \/ Report(s) \/ TimeOut(s)
              \/ \E a \in Attempt : AttemptStep(s, a)
    BY <1>4 DEF Next, Api, ApiStep, InngestStep
  <2>2. CASE s = t
    BY <1>1, <2>1, <2>2, CallKeepsProgress, AskKeepsProgress, StartKeepsProgress,
       SyncKeepsProgress, AttemptKeepsProgress
  <2>3. CASE s # t
    BY <1>1, <1>2, <2>1, <2>3, CallLeavesOthers, AttemptLeavesOthers
  <2>4. QED
    BY <2>2, <2>3
<1>5. QED
  BY <1>3, <1>4

LEMMA ProgressInvariant == Spec => []ProgressInv
<1>1. Init => ProgressInv
  BY DEF Init, ProgressInv, ProgressOf, OneAttempt, InStep, NoJob, Running
<1>2. QED
  BY <1>1, ProgressStep, TypeInvariant, SafeInvariant, PTL DEF Spec

(* background-job.ts: as long as Inngest does not give up on an attempt    *)
(* that is still running, the progress of a row stays within the request   *)
(* and is all of it when the row says completed, over any retries.         *)
THEOREM ProgressIsWhole == Spec => []ProgressAddsUp
<1>1. ProgressInv => ProgressAddsUp
  BY DEF ProgressInv, ProgressOf, InStep, ProgressAddsUp
<1>2. QED
  BY <1>1, ProgressInvariant, PTL

(* After the run has ended well the row says so, and no attempt of it is   *)
(* left that could write anything else.                                    *)
THEOREM SuccessStays == Spec => []SuccessIsFinal
<1>1. ProgressInv => SuccessIsFinal
  BY DEF ProgressInv, ProgressOf, OneAttempt, RowFollows, SuccessIsFinal
<1>2. QED
  BY <1>1, ProgressInvariant, PTL

-----------------------------------------------------------------------------
(* Counts that are backed by rows                                           *)

(* The rows a save has inserted can be dealt out: some to what its row     *)
(* reports, some to each attempt that is about to report a chunk.          *)
Backed(total, due, own) ==
    \E kept \in SUBSET own, part \in [Attempt -> SUBSET own] :
        /\ total <= Cardinality(kept)
        /\ \A a \in Attempt :
              /\ kept \cap part[a] = {} /\ due[a] <= Cardinality(part[a])
              /\ \A b \in Attempt \ {a} : part[a] \cap part[b] = {}

LEMMA BackedLess ==
    ASSUME NEW own, IsFiniteSet(own), NEW total \in Nat, NEW less \in Nat, less <= total,
           NEW due \in [Attempt -> Nat], NEW fewer \in [Attempt -> Nat],
           \A a \in Attempt : fewer[a] <= due[a],
           Backed(total, due, own)
    PROVE  Backed(less, fewer, own)
<1>1. PICK kept \in SUBSET own, part \in [Attempt -> SUBSET own] :
        /\ total <= Cardinality(kept)
        /\ \A a \in Attempt :
              /\ kept \cap part[a] = {} /\ due[a] <= Cardinality(part[a])
              /\ \A b \in Attempt \ {a} : part[a] \cap part[b] = {}
  BY DEF Backed
<1>2. Cardinality(kept) \in Nat /\ \A a \in Attempt : Cardinality(part[a]) \in Nat
  BY FS_Subset, FS_CardinalityType
<1>3. less <= Cardinality(kept) /\ \A a \in Attempt : fewer[a] <= Cardinality(part[a])
  BY <1>1, <1>2
<1>4. QED
  BY <1>1, <1>3 DEF Backed

(* A report moves what is due to the total.                                *)
LEMMA BackedReport ==
    ASSUME NEW own, IsFiniteSet(own), NEW total \in Nat, NEW due \in [Attempt -> Nat],
           Backed(total, due, own), NEW a \in Attempt
    PROVE  Backed(total + due[a], [due EXCEPT ![a] = 0], own)
<1>1. PICK kept \in SUBSET own, part \in [Attempt -> SUBSET own] :
        /\ total <= Cardinality(kept)
        /\ \A b \in Attempt :
              /\ kept \cap part[b] = {} /\ due[b] <= Cardinality(part[b])
              /\ \A c \in Attempt \ {b} : part[b] \cap part[c] = {}
  BY DEF Backed
<1> DEFINE more == kept \cup part[a]
           rest == [part EXCEPT ![a] = {}]
<1>2. more \in SUBSET own /\ rest \in [Attempt -> SUBSET own]
  OBVIOUS
<1>3. /\ Cardinality(kept) \in Nat /\ Cardinality(part[a]) \in Nat
      /\ Cardinality(more) = Cardinality(kept) + Cardinality(part[a])
  <2>1. IsFiniteSet(kept) /\ IsFiniteSet(part[a])
    BY FS_Subset
  <2>2. Cardinality(kept \cap part[a]) = 0
    BY <1>1, FS_EmptySet
  <2>3. /\ Cardinality(kept) \in Nat /\ Cardinality(part[a]) \in Nat
        /\ Cardinality(kept \cup part[a]) =
                Cardinality(kept) + Cardinality(part[a]) - Cardinality(kept \cap part[a])
    BY <2>1, FS_Union, FS_CardinalityType
  <2>4. QED
    BY <2>2, <2>3
<1>4. total + due[a] <= Cardinality(more)
  BY <1>1, <1>3
<1>5. ASSUME NEW b \in Attempt
      PROVE  /\ more \cap rest[b] = {} /\ [due EXCEPT ![a] = 0][b] <= Cardinality(rest[b])
             /\ \A c \in Attempt \ {b} : rest[b] \cap rest[c] = {}
  BY <1>1, FS_EmptySet
<1>6. QED
  <2> HIDE DEF more, rest
  <2>1. QED
    BY <1>2, <1>4, <1>5 DEF Backed

(* A chunk brings new rows, due to its attempt.                            *)
LEMMA BackedChunk ==
    ASSUME NEW own, NEW new, IsFiniteSet(new), own \cap new = {},
           NEW total \in Nat, NEW due \in [Attempt -> Nat],
           Backed(total, due, own), NEW a \in Attempt
    PROVE  Backed(total, [due EXCEPT ![a] = Cardinality(new)], own \cup new)
<1>1. PICK kept \in SUBSET own, part \in [Attempt -> SUBSET own] :
        /\ total <= Cardinality(kept)
        /\ \A b \in Attempt :
              /\ kept \cap part[b] = {} /\ due[b] <= Cardinality(part[b])
              /\ \A c \in Attempt \ {b} : part[b] \cap part[c] = {}
  BY DEF Backed
<1> DEFINE dealt == [part EXCEPT ![a] = new]
<1>2. kept \in SUBSET (own \cup new) /\ dealt \in [Attempt -> SUBSET (own \cup new)]
  OBVIOUS
<1>3. dealt[a] = new /\ \A b \in Attempt \ {a} : dealt[b] = part[b] /\ part[b] \subseteq own
  OBVIOUS
<1> HIDE DEF dealt
<1>4. ASSUME NEW b \in Attempt
      PROVE  /\ kept \cap dealt[b] = {}
             /\ [due EXCEPT ![a] = Cardinality(new)][b] <= Cardinality(dealt[b])
             /\ \A c \in Attempt \ {b} : dealt[b] \cap dealt[c] = {}
  <2>1. kept \cap dealt[b] = {} /\ \A c \in Attempt \ {b} : dealt[b] \cap dealt[c] = {}
    BY <1>1, <1>3
  <2>2. CASE b = a
    <3>1. [due EXCEPT ![a] = Cardinality(new)][b] = Cardinality(dealt[b])
      BY <1>3, <2>2
    <3>2. Cardinality(dealt[b]) \in Nat
      BY <1>3, <2>2, FS_CardinalityType
    <3>3. QED
      BY <2>1, <3>1, <3>2
  <2>3. CASE b # a
    BY <1>1, <1>3, <2>1, <2>3
  <2>4. QED
    BY <2>2, <2>3
<1>5. QED
  BY <1>1, <1>2, <1>4 DEF Backed

(* The rows that a commit is the first to insert.                          *)
LEMMA ChunkNew ==
    ASSUME TypeOK, NEW s \in Save, NEW a \in Attempt
    PROVE  /\ IsFiniteSet(Inserted(ChunkCrds(s, a)))
           /\ Inserted(ChunkCrds(s, a)) \cap entity_record = {}
           /\ \A l : IsFiniteSet(NewMembers(l, ChunkCrds(s, a)))
<1>1. pos[s][a] + 1 \in Int /\ ChunkEnd(s, a) \in Int
  BY ChunkCounts DEF TypeOK, AttemptsOK
<1>2. IsFiniteSet(Slice(s, a))
  BY <1>1, FS_Interval, Zenon DEF Slice
<1>3. IsFiniteSet(ChunkCrds(s, a))
  <2> DEFINE f == [i \in Slice(s, a) |-> CrdAt(s, a, i)]
  <2>1. f \in Surjection(Slice(s, a), ChunkCrds(s, a))
    BY DEF Surjection, ChunkCrds
  <2>2. QED
    BY <2>1, <1>2, FS_Surjection
<1>4. Inserted(ChunkCrds(s, a)) \subseteq ChunkCrds(s, a)
  BY DEF Inserted
<1>5. \A l : NewMembers(l, ChunkCrds(s, a)) \subseteq ChunkCrds(s, a)
  BY DEF NewMembers, Returned
<1>6. QED
  BY <1>3, <1>4, <1>5, FS_Subset DEF Inserted

(* What an attempt has committed and not yet reported.                     *)
DueCreated(s) == [a \in Attempt |-> IF pc[s][a] = "advance" THEN result[s][a].created ELSE 0]
DueAdded(s) == [a \in Attempt |-> IF pc[s][a] = "advance" THEN result[s][a].added ELSE 0]

CountsBacked(s) ==
    /\ IsFiniteSet(brought[s]) /\ brought[s] \subseteq entity_record
    /\ IsFiniteSet(joined[s]) /\ \A c \in joined[s] : <<asked[s].list, c>> \in list_member
    /\ Backed(job[s].created, DueCreated(s), brought[s])
    /\ Backed(job[s].added, DueAdded(s), joined[s])

(* The api's own attempt is the only one of its save, and commits once.    *)
SyncAlone(s) ==
    /\ pc[s][0] # "idle" =>
          /\ inngest[s] = "none" /\ reply[s] \notin {"none", "sending"}
          /\ \A a \in Attempt \ {0} : pc[s][a] = "idle"
    /\ pc[s][0] = "chunk" => brought[s] = {} /\ joined[s] = {}
    /\ pc[s][0] = "returned" => /\ result[s][0].created = Cardinality(brought[s])
                                /\ result[s][0].added = Cardinality(joined[s])

CountsInv == \A s \in Save : CountsBacked(s) /\ SyncAlone(s)

LEMMA DueType ==
    ASSUME TypeOK, NEW s \in Save
    PROVE  /\ DueCreated(s) \in [Attempt -> Nat] /\ DueAdded(s) \in [Attempt -> Nat]
           /\ job[s].created \in Nat /\ job[s].added \in Nat
BY DEF DueCreated, DueAdded, TypeOK, TablesOK, AttemptsOK

(* A step that commits nothing, and reports and makes due no more.         *)
LEMMA CountsKept ==
    ASSUME TypeOK, TypeOK', [Next]_vars, NEW s \in Save, CountsBacked(s),
           brought'[s] = brought[s], joined'[s] = joined[s],
           asked'[s] = asked[s] \/ joined[s] = {},
           job'[s].created <= job[s].created, job'[s].added <= job[s].added,
           \A a \in Attempt : /\ pc'[s][a] = "advance" => pc[s][a] = "advance"
                              /\ result'[s][a] = result[s][a]
    PROVE  CountsBacked(s)'
<1>1. \A a \in Attempt : /\ DueCreated(s)'[a] <= DueCreated(s)[a]
                         /\ DueAdded(s)'[a] <= DueAdded(s)[a]
  BY DueType DEF DueCreated, DueAdded
<1>2. /\ DueCreated(s)' \in [Attempt -> Nat] /\ DueAdded(s)' \in [Attempt -> Nat]
      /\ job'[s].created \in Nat /\ job'[s].added \in Nat
  BY DueType DEF DueCreated, DueAdded, TypeOK, TablesOK, AttemptsOK
<1> DEFINE dueC == DueCreated(s)'
           dueA == DueAdded(s)'
           nowC == job'[s].created
           nowA == job'[s].added
<1>3. Backed(nowC, dueC, brought[s])
  <2>1. dueC \in [Attempt -> Nat] /\ nowC \in Nat /\ nowC <= job[s].created
        /\ \A a \in Attempt : dueC[a] <= DueCreated(s)[a]
    BY <1>1, <1>2
  <2> HIDE DEF dueC, nowC
  <2>2. QED
    BY <2>1, DueType, BackedLess DEF CountsBacked
<1>4. Backed(nowA, dueA, joined[s])
  <2>1. dueA \in [Attempt -> Nat] /\ nowA \in Nat /\ nowA <= job[s].added
        /\ \A a \in Attempt : dueA[a] <= DueAdded(s)[a]
    BY <1>1, <1>2
  <2> HIDE DEF dueA, nowA
  <2>2. QED
    BY <2>1, DueType, BackedLess DEF CountsBacked
<1>5. Backed(job[s].created, DueCreated(s), brought[s])'
  BY <1>3 DEF Backed
<1>6. Backed(job[s].added, DueAdded(s), joined[s])'
  BY <1>4 DEF Backed
<1>7. /\ IsFiniteSet(brought[s])' /\ (brought[s] \subseteq entity_record)'
      /\ IsFiniteSet(joined[s])' /\ \A c \in joined'[s] : <<asked'[s].list, c>> \in list_member'
  BY RowsGrow DEF CountsBacked
<1>8. QED
  BY <1>5, <1>6, <1>7 DEF CountsBacked

LEMMA CallKeepsCounts ==
    ASSUME TypeInv, TypeOK', [Next]_vars, NEW s \in Save, CountsBacked(s), SyncAlone(s),
           \/ Refuse(s) \/ Queue(s) \/ AddNow(s) \/ SendEvent(s) \/ LoseEvent(s)
           \/ Answer(s) \/ StartAttempt(s) \/ Report(s) \/ TimeOut(s)
    PROVE  CountsBacked(s)' /\ SyncAlone(s)'
<1> USE DEF TypeInv
<1>1. UNCHANGED <<result, brought, joined>>
  BY DEF Refuse, Queue, AddNow, SendEvent, LoseEvent, Answer, StartAttempt, Report, TimeOut,
         attempt, history
<1>2. Queue(s) \/ AddNow(s) => Idle(s)
  BY DEF Queue, AddNow, AskedFirst
<1>3. asked'[s] = asked[s] \/ joined[s] = {}
  BY <1>2 DEF Refuse, Queue, AddNow, SendEvent, LoseEvent, Answer, StartAttempt, Report, TimeOut,
              Idle
<1>4. job'[s].created <= job[s].created /\ job'[s].added <= job[s].added
  <2>1. CASE Queue(s)
    <3>1. job[s].created = 0 /\ job[s].added = 0
      BY <1>2, <2>1 DEF Idle, NoJob
    <3>2. job'[s].created = 0 /\ job'[s].added = 0
      BY <2>1 DEF Queue, NoJob, TypeOK, TablesOK
    <3>3. QED
      BY <3>1, <3>2
  <2>2. CASE ~Queue(s)
    <3>1. job' = job
      BY <2>2 DEF Refuse, AddNow, SendEvent, LoseEvent, Answer, StartAttempt, Report, TimeOut
    <3>2. QED
      BY <3>1, DueType
  <2>3. QED
    BY <2>1, <2>2
<1>5. \A a \in Attempt : /\ pc'[s][a] \in {pc[s][a], "chunk", "resolve"}
                         /\ ~AddNow(s) => pc'[s][a] \in {pc[s][a], "resolve"}
  <2> USE DEF attempt, TypeOK, AttemptsOK
  <2>1. CASE Refuse(s) \/ Queue(s) \/ SendEvent(s) \/ LoseEvent(s) \/ Answer(s) \/ Report(s)
             \/ TimeOut(s)
    BY <2>1 DEF Refuse, Queue, SendEvent, LoseEvent, Answer, Report, TimeOut
  <2>2. CASE AddNow(s)
    BY <2>2 DEF AddNow
  <2>3. CASE StartAttempt(s)
    BY <2>3 DEF StartAttempt
  <2>4. QED
    BY <2>1, <2>2, <2>3
<1>6. CountsBacked(s)'
  BY <1>1, <1>3, <1>4, <1>5, CountsKept
<1>7. 0 \in Attempt
  BY BulkAddAssumption DEF Attempt
<1>8. SyncAlone(s)'
  <2>1. CASE AddNow(s)
    <3>1. /\ inngest'[s] = "none" /\ reply'[s] = "adding"
          /\ pc'[s][0] = "chunk" /\ \A a \in Attempt \ {0} : pc'[s][a] = "idle"
          /\ brought[s] = {} /\ joined[s] = {}
      <4>1. inngest'[s] = "none" /\ brought[s] = {} /\ joined[s] = {}
        BY <1>2, <2>1 DEF AddNow, Idle
      <4>2. reply'[s] = "adding"
        BY <2>1 DEF AddNow, TypeOK, CallsOK
      <4>3. pc'[s][0] = "chunk" /\ \A a \in Attempt \ {0} : pc'[s][a] = pc[s][a]
        BY <1>7, <2>1 DEF AddNow, TypeOK, AttemptsOK
      <4>4. QED
        BY <1>2, <2>1, <4>1, <4>2, <4>3 DEF Idle
    <3>2. QED
      BY <1>1, <3>1 DEF SyncAlone
  <2>2. CASE Queue(s)
    <3>1. pc'[s][0] = "idle"
      BY <1>2, <1>7, <2>2 DEF Queue, Idle, attempt
    <3>2. QED
      BY <3>1 DEF SyncAlone
  <2>3. CASE StartAttempt(s)
    <3>1. pc[s][0] = "idle" /\ pc'[s][0] = "idle"
      <4>1. started[s] + 1 # 0 /\ inngest[s] = "due"
        BY <2>3, BulkAddAssumption DEF StartAttempt, TypeOK, CallsOK, Attempt
      <4>2. QED
        BY <1>7, <2>3, <4>1 DEF StartAttempt, SyncAlone, TypeOK, AttemptsOK
    <3>2. QED
      BY <3>1 DEF SyncAlone
  <2>4. CASE Refuse(s) \/ SendEvent(s) \/ LoseEvent(s) \/ Answer(s) \/ Report(s) \/ TimeOut(s)
    <3>1. pc' = pc
      BY <2>4 DEF Refuse, SendEvent, LoseEvent, Answer, Report, TimeOut, attempt
    <3>2. pc[s][0] # "idle" => inngest'[s] = "none" /\ reply'[s] \notin {"none", "sending"}
      BY <2>4 DEF Refuse, SendEvent, LoseEvent, Answer, Report, TimeOut, SyncAlone, TypeOK, CallsOK
    <3>3. QED
      BY <1>1, <3>1, <3>2 DEF SyncAlone
  <2>5. QED
    BY <2>1, <2>2, <2>3, <2>4
<1>9. QED
  BY <1>6, <1>8

LEMMA ChunkKeepsCounts ==
    ASSUME TypeInv, TypeOK', [Next]_vars, NEW s \in Save, CountsBacked(s), SyncAlone(s),
           NEW a \in Attempt, CommitChunk(s, a)
    PROVE  CountsBacked(s)' /\ SyncAlone(s)'
<1> USE DEF TypeInv
<1> DEFINE new == Inserted(ChunkCrds(s, a))
           mem == NewMembers(asked[s].list, ChunkCrds(s, a))
<1>1. /\ IsFiniteSet(new) /\ IsFiniteSet(mem)
      /\ new \cap entity_record = {} /\ \A c \in mem : <<asked[s].list, c>> \notin list_member
  BY ChunkNew DEF NewMembers
<1>2. /\ entity_record' = entity_record \cup new
      /\ list_member' = list_member \cup ({asked[s].list} \X mem)
      /\ brought'[s] = brought[s] \cup new /\ joined'[s] = joined[s] \cup mem
      /\ asked' = asked /\ job' = job /\ inngest' = inngest /\ reply' = reply
      /\ pc[s][a] = "chunk" /\ pc'[s][a] = IF a = 0 THEN "returned" ELSE "advance"
      /\ result'[s][a].created = Cardinality(new) /\ result'[s][a].added = Cardinality(mem)
      /\ \A b \in Attempt \ {a} : pc'[s][b] = pc[s][b] /\ result'[s][b] = result[s][b]
  BY DEF CommitChunk, TypeOK, HistoryOK, AttemptsOK, Created
<1> HIDE DEF new, mem
<1>10. \A c \in mem : <<asked[s].list, c>> \in list_member'
  BY <1>2
<1>3. brought[s] \cap new = {} /\ joined[s] \cap mem = {}
  BY <1>1 DEF CountsBacked
<1>4. /\ IsFiniteSet(brought[s])' /\ (brought[s] \subseteq entity_record)'
      /\ IsFiniteSet(joined[s])' /\ \A c \in joined'[s] : <<asked'[s].list, c>> \in list_member'
  <2>1. IsFiniteSet(brought[s] \cup new) /\ IsFiniteSet(joined[s] \cup mem)
    BY <1>1, FS_Union DEF CountsBacked
  <2>2. \A c \in joined[s] : <<asked[s].list, c>> \in list_member'
    BY <1>2 DEF CountsBacked
  <2>3. brought[s] \subseteq entity_record'
    BY <1>2 DEF CountsBacked
  <2>4. QED
    BY <1>2, <1>10, <2>1, <2>2, <2>3
<1>5. Backed(job[s].created, DueCreated(s), brought[s])'
  <2> DEFINE due == DueCreated(s)'
             more == [DueCreated(s) EXCEPT ![a] = Cardinality(new)]
             own == brought[s] \cup new
  <2>1. Backed(job[s].created, more, own)
    BY <1>1, <1>3, DueType, BackedChunk DEF CountsBacked
  <2>2. /\ more \in [Attempt -> Nat] /\ due \in [Attempt -> Nat] /\ IsFiniteSet(own)
        /\ \A b \in Attempt : due[b] <= more[b]
    <3>1. Cardinality(new) \in Nat /\ more \in [Attempt -> Nat]
      BY <1>1, DueType, FS_CardinalityType
    <3>2. due \in [Attempt -> Nat]
      BY DEF DueCreated, TypeOK, AttemptsOK
    <3>3. \A b \in Attempt : due[b] <= more[b]
      BY <1>2, <3>1, <3>2, DueType DEF DueCreated
    <3>4. QED
      BY <1>2, <1>4, <3>1, <3>2, <3>3
  <2>3. job[s].created \in Nat /\ job[s].created <= job[s].created
    BY DueType
  <2> HIDE DEF due, more, own
  <2>4. Backed(job[s].created, due, own)
    BY <2>1, <2>2, <2>3, BackedLess
  <2>5. QED
    BY <1>2, <2>4 DEF Backed, due, own
<1>6. Backed(job[s].added, DueAdded(s), joined[s])'
  <2> DEFINE due == DueAdded(s)'
             more == [DueAdded(s) EXCEPT ![a] = Cardinality(mem)]
             own == joined[s] \cup mem
  <2>1. Backed(job[s].added, more, own)
    BY <1>1, <1>3, DueType, BackedChunk DEF CountsBacked
  <2>2. /\ more \in [Attempt -> Nat] /\ due \in [Attempt -> Nat] /\ IsFiniteSet(own)
        /\ \A b \in Attempt : due[b] <= more[b]
    <3>1. Cardinality(mem) \in Nat /\ more \in [Attempt -> Nat]
      BY <1>1, DueType, FS_CardinalityType
    <3>2. due \in [Attempt -> Nat]
      BY DEF DueAdded, TypeOK, AttemptsOK
    <3>3. \A b \in Attempt : due[b] <= more[b]
      BY <1>2, <3>1, <3>2, DueType DEF DueAdded
    <3>4. QED
      BY <1>2, <1>4, <3>1, <3>2, <3>3
  <2>3. job[s].added \in Nat /\ job[s].added <= job[s].added
    BY DueType
  <2> HIDE DEF due, more, own
  <2>4. Backed(job[s].added, due, own)
    BY <2>1, <2>2, <2>3, BackedLess
  <2>5. QED
    BY <1>2, <2>4 DEF Backed, due, own
<1>7. 0 \in Attempt
  BY BulkAddAssumption DEF Attempt
<1>8. SyncAlone(s)'
  <2>1. CASE a = 0
    <3>1. brought'[s] = new /\ joined'[s] = mem
      BY <1>2, <2>1 DEF SyncAlone
    <3>2. QED
      BY <1>2, <1>7, <2>1, <3>1 DEF SyncAlone
  <2>2. CASE a # 0
    <3>1. pc[s][0] = "idle"
      BY <1>2, <2>2 DEF SyncAlone
    <3>2. pc'[s][0] = "idle"
      BY <1>2, <1>7, <2>2, <3>1
    <3>3. QED
      BY <3>2 DEF SyncAlone
  <2>3. QED
    BY <2>1, <2>2
<1>9. QED
  BY <1>4, <1>5, <1>6, <1>8 DEF CountsBacked

LEMMA ReportKeepsCounts ==
    ASSUME TypeInv, TypeOK', [Next]_vars, NEW s \in Save, CountsBacked(s),
           NEW a \in Attempt, AdvanceJob(s, a)
    PROVE  CountsBacked(s)'
<1> USE DEF TypeInv
<1>1. /\ pc[s][a] = "advance" /\ pc'[s][a] # "advance"
      /\ \A b \in Attempt \ {a} : pc'[s][b] = pc[s][b]
      /\ UNCHANGED <<rows, asked, result, brought, joined>>
  BY DEF AdvanceJob, Go, LoopFrom, TypeOK, AttemptsOK, history
<1>2. /\ DueCreated(s)[a] = result[s][a].created /\ DueAdded(s)[a] = result[s][a].added
      /\ DueCreated(s)' = [DueCreated(s) EXCEPT ![a] = 0]
      /\ DueAdded(s)' = [DueAdded(s) EXCEPT ![a] = 0]
  BY <1>1 DEF DueCreated, DueAdded
<1>3. /\ job[s] \in [status : {"none", "queued", "running", "completed", "failed"},
                     requested : Nat, processed : Nat, created : Nat, added : Nat]
      /\ job'[s].created = job[s].created + result[s][a].created
      /\ job'[s].added = job[s].added + result[s][a].added
  BY DEF AdvanceJob, TypeOK, TablesOK
<1>4. Backed(job'[s].created, DueCreated(s)', brought[s])
  <2>1. Backed(job[s].created + DueCreated(s)[a], [DueCreated(s) EXCEPT ![a] = 0], brought[s])
    BY DueType, BackedReport DEF CountsBacked
  <2>2. QED
    BY <1>2, <1>3, <2>1
<1>5. Backed(job'[s].added, DueAdded(s)', joined[s])
  <2>1. Backed(job[s].added + DueAdded(s)[a], [DueAdded(s) EXCEPT ![a] = 0], joined[s])
    BY DueType, BackedReport DEF CountsBacked
  <2>2. QED
    BY <1>2, <1>3, <2>1
<1>6. /\ Backed(job[s].created, DueCreated(s), brought[s])'
      /\ Backed(job[s].added, DueAdded(s), joined[s])'
  BY <1>1, <1>4, <1>5 DEF Backed
<1>7. QED
  BY <1>1, <1>6 DEF CountsBacked, rows

LEMMA AttemptKeepsCounts ==
    ASSUME TypeInv, TypeOK', [Next]_vars, NEW s \in Save, SaveInv(s),
           CountsBacked(s), SyncAlone(s), NEW a \in Attempt, AttemptStep(s, a)
    PROVE  CountsBacked(s)' /\ SyncAlone(s)'
<1> USE DEF TypeInv
<1>1. CASE CommitChunk(s, a)
  BY <1>1, ChunkKeepsCounts
<1>2. CASE ~CommitChunk(s, a)
  <2>1. UNCHANGED <<result, brought, joined, asked, reply, inngest>>
    BY <1>2 DEF AttemptStep, Resolve, StartJob, AdvanceJob, CompleteJob, Throw, FailJob, Crash,
                history
  <2>2. /\ pc[s][a] \in Running
        /\ \A b \in Attempt \ {a} : pc'[s][b] = pc[s][b]
    BY AttemptFrame
  <2>3. pc'[s][a] # "advance" /\ (pc[s][a] = "chunk" => pc'[s][a] \in {"failing", "threw", "crashed"})
    BY <1>2 DEF AttemptStep, Resolve, StartJob, AdvanceJob, CompleteJob, Throw, FailJob, Crash,
                Go, LoopFrom, TypeOK, AttemptsOK
  <2>4. CountsBacked(s)'
    <3>1. CASE AdvanceJob(s, a)
      BY <3>1, ReportKeepsCounts
    <3>2. CASE ~AdvanceJob(s, a)
      <4>1. job'[s].created <= job[s].created /\ job'[s].added <= job[s].added
        <5>1. CASE StartJob(s, a)
          BY <5>1, DueType DEF StartJob, StartedRow, NoJob, TypeOK, TablesOK
        <5>2. CASE ~StartJob(s, a)
          <6>1. job'[s].created = job[s].created /\ job'[s].added = job[s].added
            <7>1. CASE CompleteJob(s, a) \/ FailJob(s, a)
              BY <7>1 DEF CompleteJob, FailJob, TypeOK, TablesOK
            <7>2. CASE Resolve(s, a) \/ Throw(s, a) \/ Crash(s, a)
              BY <7>2 DEF Resolve, Throw, Crash
            <7>3. QED
              BY <1>2, <3>2, <5>2, <7>1, <7>2 DEF AttemptStep
          <6>2. QED
            BY <6>1, DueType
        <5>3. QED
          BY <5>1, <5>2
      <4>2. \A b \in Attempt : /\ pc'[s][b] = "advance" => pc[s][b] = "advance"
                               /\ result'[s][b] = result[s][b]
        BY <2>1, <2>2, <2>3
      <4>3. QED
        BY <2>1, <4>1, <4>2, CountsKept
    <3>3. QED
      BY <3>1, <3>2
  <2>5. SyncAlone(s)'
    <3>1. 0 \in Attempt
      BY BulkAddAssumption DEF Attempt
    <3>2. CASE a = 0
      <4>1. pc[s][0] = "chunk"
        BY <2>2, <3>2 DEF SaveInv, SyncInv, Running, Ended
      <4>2. QED
        BY <2>1, <2>2, <2>3, <3>2, <4>1 DEF SyncAlone
    <3>3. CASE a # 0
      <4>1. pc[s][0] = "idle" /\ pc'[s][0] = "idle"
        BY <2>2, <3>1, <3>3 DEF SyncAlone, Running
      <4>2. QED
        BY <4>1 DEF SyncAlone
    <3>4. QED
      BY <3>2, <3>3
  <2>6. QED
    BY <2>4, <2>5
<1>3. QED
  BY <1>1, <1>2

LEMMA CountsStep == TypeInv /\ SafeInv /\ CountsInv /\ [Next]_vars => CountsInv'
<1> SUFFICES ASSUME TypeInv, SafeInv, CountsInv, [Next]_vars, NEW t \in Save
             PROVE  CountsBacked(t)' /\ SyncAlone(t)'
  BY DEF CountsInv
<1>1. TypeOK /\ TypeOK' /\ SaveInv(t) /\ CountsBacked(t) /\ SyncAlone(t)
  BY TypeStep DEF TypeInv, SafeInv, CountsInv
<1>2. ASSUME Same(t) PROVE CountsBacked(t)' /\ SyncAlone(t)'
  <2>1. CountsBacked(t)'
    BY <1>1, <1>2, DueType, CountsKept DEF Same
  <2>2. QED
    BY <1>1, <1>2, <2>1 DEF Same, SyncAlone
<1>3. CASE UNCHANGED vars
  BY <1>2, <1>3 DEF vars, attempt, history, Same
<1>4. CASE Next
  <2>1. PICK s \in Save :
              \/ Refuse(s) \/ Queue(s) \/ AddNow(s)
              \/ SendEvent(s) \/ LoseEvent(s) \/ Answer(s)
              \/ StartAttempt(s) \/ Report(s) \/ TimeOut(s)
              \/ \E a \in Attempt : AttemptStep(s, a)
    BY <1>4 DEF Next, Api, ApiStep, InngestStep
  <2>2. CASE s = t
    BY <1>1, <2>1, <2>2, CallKeepsCounts, AttemptKeepsCounts
  <2>3. CASE s # t
    BY <1>1, <1>2, <2>1, <2>3, CallLeavesOthers, AttemptLeavesOthers
  <2>4. QED
    BY <2>2, <2>3
<1>5. QED
  BY <1>3, <1>4

LEMMA CountsInvariant == Spec => []CountsInv
<1>1. Init => CountsInv
  <2> SUFFICES ASSUME Init, NEW s \in Save PROVE CountsBacked(s) /\ SyncAlone(s)
    BY DEF CountsInv
  <2>1. /\ job[s] = NoJob /\ brought[s] = {} /\ joined[s] = {}
        /\ \A a \in Attempt : pc[s][a] = "idle"
        /\ 0 \in Attempt
    BY BulkAddAssumption DEF Init, Attempt
  <2>2. \A a \in Attempt : DueCreated(s)[a] = 0 /\ DueAdded(s)[a] = 0
    BY <2>1 DEF DueCreated, DueAdded
  <2>3. \A due : (\A a \in Attempt : due[a] = 0) => Backed(0, due, {})
    <3> SUFFICES ASSUME NEW due, \A a \in Attempt : due[a] = 0 PROVE Backed(0, due, {})
      OBVIOUS
    <3> DEFINE part == [a \in Attempt |-> {}]
    <3>1. /\ part \in [Attempt -> SUBSET {}]
          /\ \A a \in Attempt : part[a] = {} /\ due[a] <= Cardinality(part[a])
      BY FS_EmptySet
    <3> HIDE DEF part
    <3>2. {} \in SUBSET {} /\ 0 <= Cardinality({})
      BY FS_EmptySet
    <3>3. QED
      BY <3>1, <3>2 DEF Backed
  <2>4. job[s].created = 0 /\ job[s].added = 0
    BY <2>1 DEF NoJob
  <2>5. CountsBacked(s)
    BY <2>1, <2>2, <2>3, <2>4, FS_EmptySet DEF CountsBacked
  <2>6. QED
    BY <2>1, <2>5 DEF SyncAlone
<1>2. QED
  BY <1>1, CountsStep, TypeInvariant, SafeInvariant, PTL DEF Spec

(* The row never claims more records or memberships than the save's own    *)
(* commits have inserted, even when attempts that Inngest has given up on  *)
(* go on reporting to it: every number it holds is backed by rows of its   *)
(* own, and a start throws the earlier ones away.                          *)
THEOREM RowsBackCounters == Spec => []CountersNeverOverstate
<1>1. TypeInv /\ CountsInv => CountersNeverOverstate
  <2> SUFFICES ASSUME TypeInv, CountsInv, NEW s \in Save
               PROVE  /\ job[s].created <= Cardinality(brought[s])
                      /\ job[s].added <= Cardinality(joined[s])
    BY DEF CountersNeverOverstate
  <2>1. ASSUME NEW own, IsFiniteSet(own), NEW total \in Nat, NEW due, Backed(total, due, own)
        PROVE  total <= Cardinality(own)
    <3>1. PICK kept \in SUBSET own : total <= Cardinality(kept)
      BY <2>1 DEF Backed
    <3>2. /\ Cardinality(kept) \in Nat /\ Cardinality(own) \in Nat
          /\ Cardinality(kept) <= Cardinality(own)
      BY <2>1, FS_Subset, FS_CardinalityType
    <3>3. QED
      BY <3>1, <3>2
  <2>2. QED
    BY <2>1, DueType DEF CountsInv, CountsBacked, TypeInv
<1>2. QED
  BY <1>1, TypeInvariant, CountsInvariant, PTL

(* add-to-list.ts, the synchronous path: the counts of the answer are what *)
(* that call inserted, whoever else saves the same CRDs meanwhile.         *)
THEOREM AnswerCountsExact == Spec => []SyncCountsExact
<1>1. SafeInv /\ CountsInv => SyncCountsExact
  BY DEF SafeInv, SaveInv, ReportInv, CountsInv, SyncAlone, SyncCountsExact
<1>2. QED
  BY <1>1, SafeInvariant, CountsInvariant, PTL

-----------------------------------------------------------------------------
(* The dashboard                                                            *)

\* Who watches a save has been told that it is queued.
WatchInv ==
    /\ watch \in [Save -> {"off", "polling", "completed", "failed", "stopped"}]
    /\ \A s \in Save : watch[s] # "off" => reply[s] = "queued"

LEMMA WatchedImplements == WatchedSpec => Spec
<1>1. WatchedInit => Init
  BY DEF WatchedInit
<1>2. [WatchedNext]_watchedVars => [Next]_vars
  BY DEF WatchedNext, watchedVars, WatchStep, StartWatch, Poll, StopWatching
<1>3. QED
  BY <1>1, <1>2, PTL DEF WatchedSpec, Spec

LEMMA AskedKept ==
    ASSUME TypeOK, NEW t \in Save, reply[t] = "queued", [Next]_vars
    PROVE  asked'[t] = asked[t] /\ reply'[t] = "queued"
<1>1. CASE UNCHANGED vars
  BY <1>1 DEF vars
<1>2. ASSUME NEW s \in Save, Api(s) \/ ApiStep(s)
      PROVE  asked'[t] = asked[t] /\ reply'[t] = "queued"
  <2>1. s # t
    BY <1>2 DEF Api, ApiStep, Queue, AddNow, Refuse, SendEvent, LoseEvent, Answer
  <2>2. QED
    BY <1>2, <2>1, CallLeavesOthers DEF Api, ApiStep, Same
<1>3. ASSUME NEW s \in Save, InngestStep(s)
      PROVE  asked'[t] = asked[t] /\ reply'[t] = "queued"
  BY <1>3 DEF InngestStep, StartAttempt, Report, TimeOut
<1>4. ASSUME NEW s \in Save, NEW a \in Attempt, AttemptStep(s, a)
      PROVE  asked'[t] = asked[t] /\ reply'[t] = "queued"
  BY <1>4, AttemptFrame
<1>5. QED
  BY <1>1, <1>2, <1>3, <1>4 DEF Next

(* watch-job.ts: the dashboard reports success only of what is in the list *)
(* and stays there, whatever attempt still runs when it polls.             *)
THEOREM SuccessToastHolds == WatchedSpec => []SuccessToastIsTrue
<1> DEFINE Toast == WatchInv /\ SuccessToastIsTrue
<1>1. WatchedInit => Toast
  BY DEF WatchedInit, WatchInv, SuccessToastIsTrue
<1>2. TypeInv /\ CompletedMeansSaved /\ Toast /\ [WatchedNext]_watchedVars => Toast'
  <2> SUFFICES ASSUME TypeInv, CompletedMeansSaved, WatchInv, SuccessToastIsTrue,
                      [WatchedNext]_watchedVars
               PROVE  WatchInv' /\ SuccessToastIsTrue'
    OBVIOUS
  <2>1. [Next]_vars
    BY DEF WatchedNext, watchedVars, WatchStep, StartWatch, Poll, StopWatching
  <2>2. \A s \in Save : reply[s] = "queued" => asked'[s] = asked[s] /\ reply'[s] = "queued"
    BY <2>1, AskedKept DEF TypeInv
  <2>3. ASSUME NEW s \in Save, reply[s] = "queued", Saved(s, asked[s].names)
        PROVE  Saved(s, asked[s].names)'
    BY <2>1, <2>2, <2>3, RowsGrow DEF Saved, CrdsOf
  <2>4. CASE UNCHANGED watch
    BY <2>2, <2>3, <2>4 DEF WatchInv, SuccessToastIsTrue
  <2>5. ASSUME NEW s \in Save, WatchStep(s)
        PROVE  WatchInv' /\ SuccessToastIsTrue'
    <3>1. \A t \in Save \ {s} : watch'[t] = watch[t]
      BY <2>5 DEF WatchStep, StartWatch, Poll, StopWatching, WatchInv
    <3>2. /\ UNCHANGED vars /\ reply[s] = "queued"
          /\ watch' \in [Save -> {"off", "polling", "completed", "failed", "stopped"}]
          /\ watch'[s] = "completed" => job[s].status = "completed"
      BY <2>5 DEF WatchStep, StartWatch, Poll, StopWatching, WatchInv
    <3>3. watch'[s] = "completed" => Saved(s, asked[s].names)
      BY <3>2 DEF CompletedMeansSaved
    <3>4. QED
      BY <2>2, <2>3, <3>1, <3>2, <3>3 DEF WatchInv, SuccessToastIsTrue
  <2>6. QED
    BY <2>4, <2>5 DEF WatchedNext, watchedVars
<1>3. QED
  BY <1>1, <1>2, WatchedImplements, TypeInvariant, CompletedSaved, PTL DEF WatchedSpec

----------------------------------------------------------------------------
(* The refinement of ListSave                                               *)

\* A save that has not been called has named no list.
Unasked(s) == reply[s] = "none" => asked[s] = [list |-> "none", names |-> <<>>]

AskInv == \A s \in Save : Unasked(s)

Inv == TypeInv /\ SafeInv /\ AskInv

LEMMA AskInvariant == Spec => []AskInv
<1>1. Init => AskInv
  BY DEF Init, AskInv, Unasked
<1>2. TypeInv /\ AskInv /\ [Next]_vars => AskInv'
  <2> SUFFICES ASSUME TypeInv, AskInv, [Next]_vars, NEW t \in Save
               PROVE  Unasked(t)'
    BY DEF AskInv
  <2>1. Same(t) => Unasked(t)'
    BY DEF AskInv, Unasked, Same
  <2>2. CASE UNCHANGED vars
    BY <2>1, <2>2 DEF vars, attempt, history, Same
  <2>3. CASE Next
    <3>1. PICK s \in Save :
              \/ Refuse(s) \/ Queue(s) \/ AddNow(s)
              \/ SendEvent(s) \/ LoseEvent(s) \/ Answer(s)
              \/ StartAttempt(s) \/ Report(s) \/ TimeOut(s)
              \/ \E a \in Attempt : AttemptStep(s, a)
      BY <2>3 DEF Next, Api, ApiStep, InngestStep
    <3>2. CASE s # t
      BY <2>1, <3>1, <3>2, CallLeavesOthers, AttemptLeavesOthers DEF TypeInv
    <3>3. CASE s = t /\ \/ Refuse(s) \/ Queue(s) \/ AddNow(s) \/ SendEvent(s)
                        \/ LoseEvent(s) \/ Answer(s)
      BY <3>3 DEF Refuse, Queue, AddNow, SendEvent, LoseEvent, Answer,
         TypeInv, TypeOK, CallsOK, Unasked
    <3>4. CASE s = t /\ (StartAttempt(s) \/ Report(s) \/ TimeOut(s))
      BY <3>4 DEF StartAttempt, Report, TimeOut, AskInv, Unasked
    <3>5. CASE s = t /\ \E a \in Attempt : AttemptStep(s, a)
      BY <3>5, AttemptFrame DEF AskInv, Unasked, TypeInv
    <3>6. QED
      BY <3>1, <3>2, <3>3, <3>4, <3>5
  <2>4. QED
    BY <2>2, <2>3
<1>3. QED
  BY <1>1, <1>2, TypeInvariant, PTL DEF Spec

(* The mapped variables, by name.                                          *)
Asks == [s \in Save |-> [list |-> asked[s].list, crds |-> CrdsOf(asked[s].names)]]

Succeeded(s) == \/ reply[s] = "completed"
                \/ \E a \in Attempt \ {0} : pc[s][a] = "returned"

SavedSet == {s \in Save : Succeeded(s)}

mapped == <<entity_record, list_member, Asks, SavedSet>>

(* A step that keeps the tables, what was asked for and who succeeded.     *)
LEMMA AsksKept == asked' = asked => Asks' = Asks
  BY DEF Asks, CrdsOf

LEMMA SavedKept ==
    ASSUME \A t \in Save : Succeeded(t)' <=> Succeeded(t)
    PROVE  SavedSet' = SavedSet
  BY DEF SavedSet

LEMMA StutterCall ==
    ASSUME TypeInv, NEW s \in Save,
           \/ SendEvent(s) \/ LoseEvent(s) \/ Report(s) \/ TimeOut(s)
           \/ Refuse(s)
    PROVE  UNCHANGED mapped
<1> USE DEF TypeInv, TypeOK, CallsOK
<1>1. UNCHANGED <<rows, asked, pc>>
  BY DEF SendEvent, LoseEvent, Report, TimeOut, Refuse, attempt
<1>2. \A t \in Save : reply'[t] = "completed" <=> reply[t] = "completed"
  BY DEF SendEvent, LoseEvent, Report, TimeOut, Refuse
<1>3. \A t \in Save : Succeeded(t)' <=> Succeeded(t)
  BY <1>1, <1>2 DEF Succeeded
<1>4. QED
  BY <1>1, <1>3, AsksKept, SavedKept DEF mapped, rows

LEMMA CrdsOfEmpty ==
    ASSUME NEW names \in Seq(Name)
    PROVE  CrdsOf(names) = {} <=> names = <<>>
<1>1. CASE names = <<>>
  BY <1>1 DEF CrdsOf
<1>2. CASE names # <<>>
  <2>1. 1 \in DOMAIN names
    BY <1>2
  <2>2. QED
    BY <1>2, <2>1 DEF CrdsOf
<1>3. QED
  BY <1>1, <1>2

(* Queue and AddNow ask.                                                   *)
LEMMA AskMaps ==
    ASSUME TypeInv, AskInv, NEW s \in Save, Queue(s) \/ AddNow(s)
    PROVE  Abstract!Ask(s)
<1> USE DEF TypeInv
<1>1. reply[s] = "none" /\ reply'[s] \in {"sending", "adding"}
  BY DEF Queue, AddNow, TypeOK, CallsOK
<1>2. PICK l \in Savable, names \in Requests[s] :
        asked' = [asked EXCEPT ![s] = [list |-> l, names |-> names]]
  BY DEF Queue, AddNow
<1>3. Asks[s].list = "none"
  BY <1>1 DEF AskInv, Unasked, Asks
<1>4. Asks' = [Asks EXCEPT ![s] = [list |-> l, crds |-> CrdsOf(names)]]
  <2>1. \A t \in Save : asked'[t] = IF t = s THEN [list |-> l, names |-> names]
                                    ELSE asked[t]
    BY <1>2 DEF TypeOK, CallsOK
  <2> DEFINE ask == [list |-> l, crds |-> CrdsOf(names)]
  <2>2. Asks' = [t \in Save |-> [list |-> asked'[t].list,
                                 crds |-> CrdsOf(asked'[t].names)]]
    BY DEF Asks, CrdsOf
  <2>3. \A t \in Save : [list |-> asked'[t].list, crds |-> CrdsOf(asked'[t].names)]
                            = IF t = s THEN ask ELSE Asks[t]
    <3>1. ASSUME NEW t \in Save, t = s
          PROVE  [list |-> asked'[t].list, crds |-> CrdsOf(asked'[t].names)] = ask
      BY <2>1, <3>1
    <3>2. ASSUME NEW t \in Save, t # s
          PROVE  [list |-> asked'[t].list, crds |-> CrdsOf(asked'[t].names)]
                    = Asks[t]
      BY <2>1, <3>2 DEF Asks
    <3>3. QED
      BY <3>1, <3>2
  <2>4. [Asks EXCEPT ![s] = ask] = [t \in Save |-> IF t = s THEN ask ELSE Asks[t]]
    BY Zenon DEF Asks
  <2>5. QED
    BY <2>2, <2>3, <2>4, Zenon
<1>5. CrdsOf(names) \in {CrdsOf(r) : r \in UNION {Requests[t] : t \in Save}} \cup {{}}
  BY BulkAddAssumption, EmptySeq, CrdsOfEmpty
<1>6. UNCHANGED rows
  BY DEF Queue, AddNow
<1>7. \A t \in Save : Succeeded(t)' <=> Succeeded(t)
  <2>1. \A t \in Save : /\ t # s => reply'[t] = reply[t]
                        /\ \A a \in Attempt \ {0} : pc'[t][a] = pc[t][a]
    <3>1. CASE Queue(s)
      BY <3>1 DEF Queue, attempt, TypeOK, CallsOK
    <3>2. CASE AddNow(s)
      <4>1. \A t \in Save : t # s => reply'[t] = reply[t]
        BY <3>2 DEF AddNow, TypeOK, CallsOK
      <4>2. ASSUME NEW t \in Save, NEW a \in Attempt \ {0}
            PROVE  pc'[t][a] = pc[t][a]
        BY <3>2 DEF AddNow, TypeOK, AttemptsOK
      <4>3. QED
        BY <4>1, <4>2
    <3>3. QED
      BY <3>1, <3>2
  <2>2. QED
    BY <1>1, <2>1 DEF Succeeded
<1>8. SavedSet' = SavedSet
  BY <1>7, SavedKept
<1>9. QED
  BY <1>3, <1>4, <1>5, <1>6, <1>8 DEF Abstract!Ask, Asks, SavedSet, Succeeded,
     rows

LEMMA LimitedIsPart ==
    ASSUME NEW m \in Matches
    PROVE  CrdsOf(Limited(m)) \subseteq CrdsOf(m)
<1>1. m \in Seq(Name) /\ RESOLVE_MAX \in Nat /\ Limited(m) \in Seq(Name)
  BY BulkAddAssumption, LimitedType
<1>2. CASE Len(m) > RESOLVE_MAX
  <2>1. Limited(m) = SubSeq(m, 1, RESOLVE_MAX)
    BY <1>2 DEF Limited
  <2>2. \A i \in DOMAIN Limited(m) : i \in DOMAIN m /\ Limited(m)[i] = m[i]
    BY <1>1, <1>2, <2>1
  <2>3. QED
    BY <2>2 DEF CrdsOf
<1>3. CASE ~(Len(m) > RESOLVE_MAX)
  BY <1>3 DEF Limited
<1>4. QED
  BY <1>2, <1>3

(* A committed chunk adds.                                                 *)
LEMMA ChunkMaps ==
    ASSUME Inv, NEW s \in Save, NEW a \in Attempt, CommitChunk(s, a)
    PROVE  Abstract!Add(s)
<1> USE DEF Inv, TypeInv
<1> DEFINE crds == ChunkCrds(s, a)
<1>1. pc[s][a] = "chunk" /\ asked' = asked /\ reply' = reply
  BY DEF CommitChunk
<1>2. asked[s].list \in Savable /\ Asks[s].list # "none"
  <2>1. ~Idle(s)
    BY <1>1 DEF Idle
  <2>2. QED
    BY <2>1, BulkAddAssumption DEF AskedFirst, Asks
<1>3. plan[s][a] \in (IF asked[s].names = <<>> THEN {Limited(m) : m \in Matches}
                      ELSE {asked[s].names})
  BY <1>1 DEF SafeInv, SaveInv, AttemptInv, PlanInv
<1>4. crds \subseteq CrdsOf(plan[s][a])
  <2>1. /\ plan[s][a] \in Seq(Name) /\ Len(plan[s][a]) \in Nat
        /\ pos[s][a] \in Nat /\ ChunkEnd(s, a) \in Nat
        /\ ChunkEnd(s, a) <= Len(plan[s][a])
    BY ChunkCounts DEF SafeInv, SaveInv, AttemptInv, LoopInv, TypeOK, AttemptsOK
  <2>2. \A i \in Slice(s, a) : i \in DOMAIN plan[s][a]
    BY <2>1 DEF Slice
  <2>3. QED
    BY <2>2 DEF ChunkCrds, CrdAt, CrdsOf
<1>5. crds \subseteq (IF CrdsOf(asked[s].names) = {}
                      THEN UNION {CrdsOf(m) : m \in Matches}
                      ELSE CrdsOf(asked[s].names))
  <2>1. CrdsOf(asked[s].names) = {} <=> asked[s].names = <<>>
    BY CrdsOfEmpty DEF TypeOK, CallsOK
  <2>2. CASE asked[s].names = <<>>
    <3>1. PICK m \in Matches : plan[s][a] = Limited(m)
      BY <1>3, <2>2
    <3>2. CrdsOf(Limited(m)) \subseteq CrdsOf(m)
      BY LimitedIsPart
    <3>3. QED
      BY <1>4, <2>1, <2>2, <3>1, <3>2
  <2>3. CASE asked[s].names # <<>>
    BY <1>3, <1>4, <2>1, <2>3
  <2>4. QED
    BY <2>2, <2>3
<1>6. Asks[s].crds = CrdsOf(asked[s].names)
  BY DEF Asks
<1>7. entity_record' = entity_record \cup crds
  BY DEF CommitChunk, Inserted
<1>8. list_member' = list_member \cup ({Asks[s].list} \X crds)
  <2>1. Asks[s].list = asked[s].list
    BY DEF Asks
  <2>2. list_member' = list_member \cup
                         ({asked[s].list} \X NewMembers(asked[s].list, crds))
    BY DEF CommitChunk
  <2>3. NewMembers(asked[s].list, crds) =
            {c \in crds : <<asked[s].list, c>> \notin list_member}
    BY DEF NewMembers, Returned
  <2>4. QED
    BY <2>1, <2>2, <2>3
<1>9. \A t \in Save : Succeeded(t)' <=> Succeeded(t)
  <2>1. \A t \in Save, b \in Attempt \ {0} :
            pc'[t][b] = "returned" <=> pc[t][b] = "returned"
    BY <1>1 DEF CommitChunk, TypeOK, AttemptsOK
  <2>2. QED
    BY <1>1, <2>1 DEF Succeeded
<1>10. Asks' = Asks /\ SavedSet' = SavedSet
  BY <1>1, <1>9, AsksKept, SavedKept
<1>11. QED
  BY <1>2, <1>5, <1>6, <1>7, <1>8, <1>10
  DEF Abstract!Add, Abstract!Wanted, Asks, SavedSet, Succeeded

(* The pick of a save that succeeds is in its list.                        *)
LEMMA SuccessSaved ==
    ASSUME Inv, NEW s \in Save, NEW a \in Attempt,
           pc[s][a] \in {"complete", "returned"}
    PROVE  /\ Asks[s].list # "none"
           /\ {Asks[s].list} \X Asks[s].crds \subseteq list_member
<1> USE DEF Inv, TypeInv
<1>1. Asks[s] = [list |-> asked[s].list, crds |-> CrdsOf(asked[s].names)]
  BY DEF Asks
<1>2. asked[s].list \in Savable
  BY DEF AskedFirst, Idle
<1>3. /\ PrefixSaved(s, a) /\ pos[s][a] = Len(plan[s][a])
      /\ asked[s].names = <<>> \/ plan[s][a] = asked[s].names
  BY DEF SafeInv, SaveInv, AttemptInv, LoopInv, PlanInv
<1>4. DOMAIN plan[s][a] = 1..Len(plan[s][a])
  BY DEF TypeOK, AttemptsOK
<1>5. {asked[s].list} \X CrdsOf(plan[s][a]) \subseteq list_member
  BY <1>3, <1>4 DEF PrefixSaved, CrdsOf, CrdAt
<1>6. asked[s].names = <<>> => CrdsOf(asked[s].names) = {}
  BY CrdsOfEmpty DEF TypeOK, CallsOK
<1>7. {asked[s].list} \X CrdsOf(asked[s].names) \subseteq list_member
  BY <1>3, <1>5, <1>6
<1>8. QED
  BY <1>1, <1>2, <1>7, BulkAddAssumption

LEMMA FinishMaps ==
    ASSUME Inv, NEW s \in Save,
           UNCHANGED <<entity_record, list_member, asked>>,
           \A t \in Save : t # s => (Succeeded(t)' <=> Succeeded(t)),
           Succeeded(s)',
           \E a \in Attempt : pc[s][a] \in {"complete", "returned"}
    PROVE  Abstract!Finish(s)
<1>1. /\ Asks[s].list # "none"
      /\ {Asks[s].list} \X Asks[s].crds \subseteq list_member
  BY SuccessSaved
<1>2. SavedSet' = SavedSet \cup {s}
  BY DEF SavedSet
<1>3. Asks' = Asks
  BY AsksKept
<1>4. QED
  BY <1>1, <1>2, <1>3 DEF Abstract!Finish, Asks, SavedSet, Succeeded

LEMMA AnswerMaps ==
    ASSUME Inv, NEW s \in Save, Answer(s)
    PROVE  Abstract!Finish(s) \/ UNCHANGED mapped
<1> USE DEF Inv, TypeInv, TypeOK, CallsOK
<1>1. /\ reply[s] = "adding"
      /\ reply' = [reply EXCEPT ![s] = IF pc[s][0] = "returned"
                                       THEN "completed" ELSE "error"]
      /\ UNCHANGED <<rows, asked, pc>>
  BY DEF Answer, attempt
<1>2. \A t \in Save : t # s => (Succeeded(t)' <=> Succeeded(t))
  BY <1>1 DEF Succeeded
<1>3. CASE pc[s][0] = "returned"
  <2>1. Succeeded(s)' /\ 0 \in Attempt
    BY <1>1, <1>3, BulkAddAssumption DEF Succeeded, Attempt
  <2>2. QED
    BY <1>1, <1>2, <1>3, <2>1, FinishMaps DEF rows
<1>4. CASE pc[s][0] # "returned"
  <2>1. \A t \in Save : Succeeded(t)' <=> Succeeded(t)
    BY <1>1, <1>2, <1>4 DEF Succeeded
  <2>2. QED
    BY <1>1, <2>1, AsksKept, SavedKept DEF mapped, rows
<1>5. QED
  BY <1>3, <1>4

LEMMA StartAttemptMaps ==
    ASSUME Inv, NEW s \in Save, StartAttempt(s)
    PROVE  UNCHANGED mapped
<1> USE DEF Inv, TypeInv, TypeOK, CallsOK
<1>1. UNCHANGED <<rows, asked, reply>>
  BY DEF StartAttempt
<1>2. started[s] + 1 \in Attempt /\ pc[s][started[s] + 1] = "idle"
  BY BulkAddAssumption DEF StartAttempt, AttemptsLeft, SafeInv, SaveInv,
     ReportInv, Attempt
<1>3. \A t \in Save, a \in Attempt :
            pc'[t][a] = "returned" <=> pc[t][a] = "returned"
  BY <1>2 DEF StartAttempt, AttemptsOK
<1>4. \A t \in Save : Succeeded(t)' <=> Succeeded(t)
  BY <1>1, <1>3 DEF Succeeded
<1>5. QED
  BY <1>1, <1>4, AsksKept, SavedKept DEF mapped, rows

LEMMA AttemptMaps ==
    ASSUME Inv, NEW s \in Save, NEW a \in Attempt, AttemptStep(s, a)
    PROVE  Abstract!Add(s) \/ Abstract!Finish(s) \/ UNCHANGED mapped
<1> USE DEF Inv, TypeInv
<1>1. CASE CommitChunk(s, a)
  BY <1>1, ChunkMaps
<1>2. ASSUME ~CommitChunk(s, a)
      PROVE  UNCHANGED <<entity_record, list_member, asked, reply>>
  BY <1>2 DEF AttemptStep, Resolve, StartJob, AdvanceJob, CompleteJob, Throw,
     FailJob, Crash, rows
<1>3. \A t \in Save, b \in Attempt : (t # s \/ b # a) => pc'[t][b] = pc[t][b]
  BY AttemptFrame, AttemptLeavesOthers DEF Same
<1>4. \A t \in Save : t # s /\ ~CommitChunk(s, a) =>
            (Succeeded(t)' <=> Succeeded(t))
  BY <1>2, <1>3 DEF Succeeded
<1>5. CASE CompleteJob(s, a)
  <2>1. pc[s][a] = "complete" /\ pc'[s][a] = "returned" /\ ~CommitChunk(s, a)
    BY <1>5 DEF CompleteJob, CommitChunk, Go, TypeOK, AttemptsOK
  <2>2. a # 0
    BY <2>1 DEF SafeInv, SaveInv, SyncInv, Ended
  <2>3. Succeeded(s)'
    BY <2>1, <2>2 DEF Succeeded
  <2>4. QED
    BY <1>2, <1>4, <2>1, <2>3, FinishMaps
<1>6. CASE ~CommitChunk(s, a) /\ ~CompleteJob(s, a)
  <2>1. pc[s][a] # "returned" /\ pc'[s][a] # "returned"
    <3>1. pc[s][a] \in Running
      BY AttemptFrame
    <3>2. pc'[s][a] \in {"start", "chunk", "complete", "failing", "threw",
                         "crashed"}
      <4> USE DEF Go, TypeOK, AttemptsOK
      <4>1. CASE Resolve(s, a)
        BY <4>1 DEF Resolve
      <4>2. CASE StartJob(s, a)
        BY <4>2 DEF StartJob, LoopFrom
      <4>3. CASE AdvanceJob(s, a)
        BY <4>3 DEF AdvanceJob, LoopFrom
      <4>4. CASE Throw(s, a) \/ FailJob(s, a) \/ Crash(s, a)
        BY <4>4 DEF Throw, FailJob, Crash
      <4>5. QED
        BY <1>6, <4>1, <4>2, <4>3, <4>4 DEF AttemptStep
    <3>3. QED
      BY <3>1, <3>2 DEF Running
  <2>2. \A t \in Save : Succeeded(t)' <=> Succeeded(t)
    BY <1>2, <1>3, <1>6, <2>1 DEF Succeeded
  <2>3. QED
    BY <1>2, <1>6, <2>2, AsksKept, SavedKept DEF mapped
<1>7. QED
  BY <1>1, <1>5, <1>6

(* The implementation theorem: whatever interleaving of api calls, worker  *)
(* attempts, crashes and retries, the tables change only as ListSave says. *)
THEOREM Implements == Spec => ImplementsListSave
<1>1. Init => Abstract!Init
  <2> SUFFICES ASSUME Init PROVE Abstract!Init
    OBVIOUS
  <2>1. entity_record = EarlierRecords /\ list_member = EarlierMembers
    BY DEF Init
  <2>2. Asks = [s \in Save |-> [list |-> "none", crds |-> {}]]
    <3>1. \A s \in Save : asked[s].list = "none" /\ asked[s].names = <<>>
      BY DEF Init
    <3>2. \A s \in Save : CrdsOf(asked[s].names) = {}
      BY <3>1, CrdsOfEmpty, EmptySeq
    <3>3. \A s \in Save : [list |-> asked[s].list, crds |-> CrdsOf(asked[s].names)]
                            = [list |-> "none", crds |-> {}]
      BY <3>1, <3>2
    <3>4. QED
      BY <3>3 DEF Asks
  <2>3. SavedSet = {}
    BY DEF Init, SavedSet, Succeeded
  <2>4. QED
    BY <2>1, <2>2, <2>3 DEF Abstract!Init, Asks, SavedSet, Succeeded
<1>2. Inv /\ [Next]_vars => [Abstract!Next]_(Abstract!vars)
  <2> SUFFICES ASSUME Inv, [Next]_vars
               PROVE  Abstract!Next \/ UNCHANGED mapped
    BY DEF Abstract!vars, mapped, Asks, SavedSet, Succeeded
  <2>1. CASE UNCHANGED vars
    <3>1. UNCHANGED <<entity_record, list_member, asked, reply, pc>>
      BY <2>1 DEF vars, rows, attempt
    <3>2. \A t \in Save : Succeeded(t)' <=> Succeeded(t)
      BY <3>1 DEF Succeeded
    <3>3. QED
      BY <3>1, <3>2, AsksKept, SavedKept DEF mapped
  <2>2. CASE Next
    <3>1. PICK s \in Save :
              \/ Refuse(s) \/ Queue(s) \/ AddNow(s)
              \/ SendEvent(s) \/ LoseEvent(s) \/ Answer(s)
              \/ StartAttempt(s) \/ Report(s) \/ TimeOut(s)
              \/ \E a \in Attempt : AttemptStep(s, a)
      BY <2>2 DEF Next, Api, ApiStep, InngestStep
    <3>2. \/ Abstract!Ask(s) \/ Abstract!Add(s) \/ Abstract!Finish(s)
          \/ UNCHANGED mapped
      <4>1. CASE Queue(s) \/ AddNow(s)
        BY <4>1, AskMaps DEF Inv
      <4>2. CASE Answer(s)
        BY <4>2, AnswerMaps
      <4>3. CASE StartAttempt(s)
        BY <4>3, StartAttemptMaps
      <4>4. CASE \E a \in Attempt : AttemptStep(s, a)
        BY <4>4, AttemptMaps
      <4>5. CASE SendEvent(s) \/ LoseEvent(s) \/ Report(s) \/ TimeOut(s)
                 \/ Refuse(s)
        BY <4>5, StutterCall DEF Inv
      <4>6. QED
        BY <3>1, <4>1, <4>2, <4>3, <4>4, <4>5
    <3>3. QED
      BY <3>2 DEF Abstract!Next
  <2>3. QED
    BY <2>1, <2>2
<1>3. QED
  BY <1>1, <1>2, TypeInvariant, SafeInvariant, AskInvariant, PTL
  DEF Spec, Inv, ImplementsListSave, Abstract!Spec
==============================================================================

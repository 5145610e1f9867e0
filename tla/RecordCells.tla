---------------------------- MODULE RecordCells ----------------------------
(***************************************************************************)
(* The cells of one record of the CRM and everything that writes them: the *)
(* api's update-record-values (one transaction per batch, row by row),     *)
(* create-entity-record (no transaction), the assistant's update_record    *)
(* tool (find, ensure, snapshot, then the api's update), and the machine   *)
(* writer that cell-writer is prepared for.                                *)
(*                                                                         *)
(* A statement of Postgres is one step.  A row that an open transaction    *)
(* has written, or has found stale, stays locked until that transaction    *)
(* ends, and a statement that needs it waits.                              *)
(***************************************************************************)
EXTENDS Integers, Sequences, FiniteSets

CONSTANTS
    Updates,      \* calls of update-record-values
    Tools,        \* calls of update_record, approved by the recruiter
    Creates,      \* calls of create-entity-record, all for one CRD
    Machines,     \* refreshes by a machine, one cell each
    Attr,         \* attributes of the entity
    Editable,     \* those that are not projected from market
    Value,
    Forced, Nobody, \* no expectedVersion; no transaction
    Batches,      \* what updates and creates may carry: [attr, value, expected]
    Plans,        \* what tools may be asked to set: [attr, value]
    EarlierRecord, EarlierCells

Transaction == Updates \cup Tools
Edit == Transaction \cup Creates \cup Machines

Absent == [value |-> Nobody, version |-> -1, source |-> "none"]

CellSet == [value : Value, version : Nat, source : {"human", "machine"}]
               \cup {Absent}

Write == [attr : Attr, value : Value, expected : Nat \cup {Forced}]

ASSUME RecordCellsAssumption ==
    /\ Editable \subseteq Attr
    /\ Forced \notin Nat
    /\ Nobody \notin Edit
    /\ Updates \cap (Tools \cup Creates \cup Machines) = {}
    /\ Tools \cap (Creates \cup Machines) = {}
    /\ Creates \cap Machines = {}
    /\ Batches \subseteq Seq(Write) \ {<<>>}
    /\ Plans \subseteq Seq([attr : Editable, value : Value]) \ {<<>>}
    /\ EarlierRecord \in BOOLEAN
    /\ EarlierCells \subseteq [Attr -> CellSet]
    /\ ~EarlierRecord => EarlierCells = {[a \in Attr |-> Absent]}

VARIABLES
    record,     \* the entity_record row of the CRD exists
    cell,       \* entity_record_value: the committed row of each attribute
    owner,      \* owner[a]: the transaction that has the row locked
    draft,      \* draft[a]: the row as its owner sees it
    pc, task,   \* [e]: control, and the writes it carries
    at,         \* at[e]: the write that is next
    clashed,    \* clashed[e]: one of its writes found another version
    seen        \* seen[e]: the snapshot a tool took

table == <<record, cell>>
locks == <<owner, draft>>
local == <<task, at, clashed, seen>>
vars == <<table, locks, pc, local>>

Done == {"saved", "conflict", "skipped", "duplicate", "refused", "lost"}

Init ==
    /\ record = EarlierRecord
    /\ cell \in EarlierCells
    /\ owner = [a \in Attr |-> Nobody]
    /\ draft = [a \in Attr |-> Absent]
    /\ pc = [e \in Edit |-> "idle"]
    /\ task = [e \in Edit |-> <<>>]
    /\ at = [e \in Edit |-> 1]
    /\ clashed = [e \in Edit |-> FALSE]
    /\ seen = [e \in Edit |-> [a \in Attr |-> Absent]]

Go(e, from, to) ==
    /\ pc[e] = from
    /\ pc' = [pc EXCEPT ![e] = to]

----------------------------------------------------------------------------
(* cell-writer: INSERT ... ON CONFLICT DO UPDATE ... WHERE the guards hold  *)

\* slip: the version of the row is not bumped
WrittenSameVersion(old, v, source) ==
    [value |-> v, version |-> old.version, source |-> source]

\* A new row has version 0, and an absent one counts as -1.
Written(old, v, source) ==
    [value |-> v, version |-> old.version + 1, source |-> source]

VersionGuard(old, w) == old # Absent /\ w.expected \notin {Forced, old.version}

\* slip: the sides of the machine guard are swapped
MachineGuardSwapped(old) == old.source = "machine"

\* slip: a machine takes only what is a machine's already
MachineGuardStrict(old) == old.source # "machine"

MachineGuard(old) == old.source = "human"

----------------------------------------------------------------------------
(* UpdateRecordValuesCommandHandler.execute                                 *)

CurrentTask(e) == task[e][at[e]]

\* The record, the attributes and that they are editable are checked first.
RefuseUpdate(e) ==
    /\ Go(e, "idle", "refused")
    /\ ~record \/ \E b \in Batches : \E i \in DOMAIN b : b[i].attr \notin Editable
    /\ UNCHANGED <<table, locks, local>>

BeginUpdate(e) ==
    /\ record
    /\ Go(e, "idle", "write")
    /\ \E b \in Batches :
        /\ \A i \in DOMAIN b : b[i].attr \in Editable
        /\ task' = [task EXCEPT ![e] = b]
    /\ UNCHANGED <<table, locks, at, clashed, seen>>

\* The row as transaction e reads it.
Row(e, a) == IF owner[a] = e THEN draft[a] ELSE cell[a]

\* One writeCell of the loop.  A conflict does not end it.
WriteInTransaction(e) ==
    LET w == CurrentTask(e)
        old == Row(e, w.attr)
        stale == VersionGuard(old, w)
    IN  /\ pc[e] = "write"
        /\ at[e] <= Len(task[e])
        /\ owner[w.attr] \in {Nobody, e}
        /\ owner' = [owner EXCEPT ![w.attr] = e]
        /\ draft' = [draft EXCEPT ![w.attr] =
                        IF stale THEN old ELSE Written(old, w.value, "human")]
        /\ clashed' = [clashed EXCEPT ![e] = @ \/ stale]
        /\ at' = [at EXCEPT ![e] = @ + 1]
        /\ UNCHANGED <<table, pc, task, seen>>

Release(e) ==
    owner' = [a \in Attr |-> IF owner[a] = e THEN Nobody ELSE owner[a]]

Commit(e) ==
    /\ at[e] > Len(task[e])
    /\ ~clashed[e]
    /\ Go(e, "write", "saved")
    /\ cell' = [a \in Attr |-> Row(e, a)]
    /\ Release(e)
    /\ UNCHANGED <<record, draft, local>>

\* slip: the answer is a 409, but the writes before it are kept
CommitTheRest(e) ==
    /\ at[e] > Len(task[e])
    /\ clashed[e]
    /\ Go(e, "write", "conflict")
    /\ cell' = [a \in Attr |-> Row(e, a)]
    /\ Release(e)
    /\ UNCHANGED <<record, draft, local>>

\* slip: the transaction of a 409 is never ended
LeaveOpen(e) ==
    /\ at[e] > Len(task[e])
    /\ clashed[e]
    /\ Go(e, "write", "conflict")
    /\ UNCHANGED <<table, locks, local>>

\* A conflict on any cell rolls back every cell, and is the answer.
RollBack(e) ==
    /\ at[e] > Len(task[e])
    /\ clashed[e]
    /\ Go(e, "write", "conflict")
    /\ Release(e)
    /\ UNCHANGED <<table, draft, local>>

\* The transaction ends early: Prisma's time limit, the connection, the
\* process, or Postgres, which has picked it as the victim of a deadlock.
Abort(e) ==
    /\ Go(e, "write", "lost")
    /\ Release(e)
    /\ UNCHANGED <<table, draft, local>>

----------------------------------------------------------------------------
(* CreateEntityRecordCommandHandler.execute: statement by statement         *)

\* The findFirst on the CRD; a tool asks it once more, through ensureRecord.
FindRecord(e) ==
    /\ Go(e, IF e \in Tools THEN "ensure" ELSE "idle",
             IF ~record THEN "insert" ELSE IF e \in Tools THEN "snapshot"
                                                          ELSE "write")
    /\ IF e \in Tools THEN UNCHANGED task
       ELSE \E b \in Batches \cup {<<>>} : task' = [task EXCEPT ![e] = b]
    /\ UNCHANGED <<table, locks, at, clashed, seen>>

\* The create: the unique key on the CRD lets one of two racing calls through.
InsertRecord(e) ==
    /\ Go(e, "insert", IF record THEN "duplicate"
                       ELSE IF e \in Tools THEN "snapshot" ELSE "write")
    /\ record' = TRUE
    /\ UNCHANGED <<cell, locks, local>>

\* One writeCell, committed at once; the expectedVersion is not passed on.
WriteOnCreate(e) ==
    LET w == CurrentTask(e)
    IN  /\ pc[e] = "write"
        /\ at[e] <= Len(task[e])
        /\ w.attr \in Editable
        /\ owner[w.attr] = Nobody
        /\ cell' = [cell EXCEPT ![w.attr] = Written(@, w.value, "human")]
        /\ at' = [at EXCEPT ![e] = @ + 1]
        /\ UNCHANGED <<record, locks, pc, task, clashed, seen>>

\* An attribute that is not editable is noticed when its turn comes.
StopCreate(e) ==
    /\ at[e] <= Len(task[e])
    /\ CurrentTask(e).attr \notin Editable
    /\ Go(e, "write", "refused")
    /\ UNCHANGED <<table, locks, local>>

EndCreate(e) ==
    /\ at[e] > Len(task[e])
    /\ Go(e, "write", "saved")
    /\ UNCHANGED <<table, locks, local>>

----------------------------------------------------------------------------
(* updateRecordTool.execute, which then is an update like any other         *)

FindForTool(e) ==
    /\ Go(e, "idle", IF record THEN "snapshot" ELSE "ensure")
    /\ UNCHANGED <<table, locks, local>>

\* slip: the writes carry no version
UnpinnedTask(plan, cells) ==
    [i \in DOMAIN plan |->
        [attr |-> plan[i].attr, value |-> plan[i].value, expected |-> Forced]]

\* A cell that is there pins its write, an absent one cannot.
PinnedTask(plan, cells) ==
    [i \in DOMAIN plan |->
        [attr |-> plan[i].attr, value |-> plan[i].value,
         expected |-> IF cells[plan[i].attr] = Absent THEN Forced
                      ELSE cells[plan[i].attr].version]]

\* getRecord reads all cells in one statement.
Snapshot(e) ==
    /\ Go(e, "snapshot", "write")
    /\ seen' = [seen EXCEPT ![e] = cell]
    /\ \E plan \in Plans : task' = [task EXCEPT ![e] = PinnedTask(plan, cell)]
    /\ UNCHANGED <<table, locks, at, clashed>>

----------------------------------------------------------------------------
(* A machine's writeCell, outside a transaction                             *)

MachineWrite(e) ==
    /\ pc[e] = "idle"
    /\ record
    /\ \E a \in Attr, v \in Value :
        /\ owner[a] = Nobody
        /\ task' = [task EXCEPT ![e] =
                        <<[attr |-> a, value |-> v, expected |-> Forced]>>]
        /\ IF MachineGuard(cell[a])
           THEN /\ pc' = [pc EXCEPT ![e] = "select"]
                /\ UNCHANGED cell
           ELSE /\ pc' = [pc EXCEPT ![e] = "saved"]
                /\ cell' = [cell EXCEPT ![a] = Written(@, v, "machine")]
    /\ UNCHANGED <<record, locks, at, clashed, seen>>

\* No row came back: a second statement finds out why.
MachineSelect(e) ==
    /\ Go(e, "select", IF cell[CurrentTask(e).attr].source = "human"
                       THEN "skipped" ELSE "conflict")
    /\ UNCHANGED <<table, locks, local>>

----------------------------------------------------------------------------
TransactionStep(e) == WriteInTransaction(e) \/ Commit(e) \/ RollBack(e)

ToolStep(e) == FindForTool(e) \/ FindRecord(e) \/ InsertRecord(e) \/ Snapshot(e)

CreateStep(e) ==
    \/ InsertRecord(e) \/ WriteOnCreate(e) \/ StopCreate(e) \/ EndCreate(e)

Next ==
    \/ \E e \in Updates : RefuseUpdate(e) \/ BeginUpdate(e)
    \/ \E e \in Transaction : TransactionStep(e) \/ Abort(e)
    \/ \E e \in Creates : FindRecord(e) \/ CreateStep(e)
    \/ \E e \in Tools : ToolStep(e)
    \/ \E e \in Machines : MachineWrite(e) \/ MachineSelect(e)

Spec == Init /\ [][Next]_vars

WaitsFor(e) ==
    IF pc[e] = "write" /\ at[e] <= Len(task[e])
    THEN owner[CurrentTask(e).attr] ELSE Nobody

InCycle(e) ==
    \E group \in SUBSET Transaction :
        /\ e \in group
        /\ {WaitsFor(f) : f \in group} = group
        /\ \A f \in group : WaitsFor(f) # f

(* A call that has begun takes its next statement, and Postgres breaks      *)
(* every deadlock.                                                          *)
Fairness ==
    /\ \A e \in Transaction :
            /\ WF_vars(TransactionStep(e))
            /\ WF_vars(InCycle(e) /\ Abort(e))
    /\ \A e \in Creates : WF_vars(CreateStep(e))
    /\ \A e \in Tools : WF_vars(ToolStep(e) /\ pc[e] # "idle")
    /\ \A e \in Machines : WF_vars(MachineSelect(e))

FairSpec == Spec /\ Fairness
----------------------------------------------------------------------------
(* Properties *)

\* Every variable has the shape its row, argument or local variable has.
TypeOK ==
    /\ record \in BOOLEAN
    /\ cell \in [Attr -> CellSet]
    /\ owner \in [Attr -> Transaction \cup {Nobody}]
    /\ draft \in [Attr -> CellSet]
    /\ pc \in [Edit -> Done \cup {"idle", "ensure", "insert", "snapshot",
                                  "write", "select"}]
    /\ task \in [Edit -> Seq(Write)]
    /\ at \in [Edit -> Nat \ {0}]
    /\ clashed \in [Edit -> BOOLEAN]
    /\ seen \in [Edit -> [Attr -> CellSet]]

\* Rows are locked only by a transaction that is running: none is left behind
\* by an answer, whichever way the transaction ended.
NoLockLeft == \A a \in Attr : owner[a] # Nobody => pc[owner[a]] = "write"

\* A machine never overwrites what a human typed, and a human's cell stays a
\* human's (the first rule of writeCell).
ManualEditWins ==
    [][\A a \in Attr : cell[a].source = "human" /\ cell'[a] # cell[a]
            => /\ cell'[a].source = "human"
               /\ \A e \in Machines : pc'[e] = pc[e]]_vars

\* When writeCell tells a machine why no row came back, that is the reason,
\* although the answer comes from a second statement.
SkippedIsManual ==
    \A e \in Machines : pc[e] \in {"select", "skipped", "conflict"} =>
        /\ pc[e] # "conflict"
        /\ cell[CurrentTask(e).attr].source = "human"

Attrs(e) == {task[e][i].attr : i \in DOMAIN task[e]}

\* A tool that saves replaces, for every cell its snapshot contained, exactly
\* the contents it saw, whatever others committed between its statements.
PinnedToSnapshot ==
    [][\A e \in Tools : pc[e] # "saved" /\ pc'[e] = "saved" =>
            \A a \in Attrs(e) : seen[e][a] # Absent => cell[a] = seen[e][a]]_vars

\* A call that has started comes to an end: calls that lock the same rows in
\* different orders do not wait for each other for ever.
EditsEnd == \A e \in Edit : pc[e] # "idle" ~> pc[e] \in Done

----------------------------------------------------------------------------
(* The batches are atomic.                                                  *)

Outcome(e) ==
    IF e \notin Transaction THEN "none"
    ELSE IF pc[e] \in {"saved", "conflict"} THEN pc[e]
    ELSE IF pc[e] \in {"duplicate", "refused", "lost"} THEN "failed"
    ELSE "none"

Abstract == INSTANCE AtomicEdits WITH
    Batch <- Seq(Write) \ {<<>>},
    batch <- [e \in Edit |-> IF e \in Transaction THEN task[e] ELSE <<>>],
    outcome <- [e \in Edit |-> Outcome(e)]

\* Batches take effect, or are refused, as if each ran at one moment: the row
\* locks of the statements are enough.
ImplementsAtomicEdits == Abstract!Spec

============================================================================

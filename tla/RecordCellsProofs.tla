-------------------------- MODULE RecordCellsProofs --------------------------
(***************************************************************************)
(* Typing and the safety properties of RecordCells, and that it implements *)
(* AtomicEdits, for any number of calls, attributes and batches.  The      *)
(* argument is the row lock: while a transaction owns a row nobody else    *)
(* can commit to it, so what it judged its write against is still there    *)
(* when it commits, and versions only grow, so that a version names one    *)
(* contents.                                                               *)
(***************************************************************************)
EXTENDS RecordCells, FiniteSetTheorems, SequenceTheorems, TLAPS

(* A row keeps its shape when it is written.                               *)
LEMMA WrittenType ==
    ASSUME NEW old \in CellSet, NEW v \in Value,
           NEW source \in {"human", "machine"}
    PROVE  /\ Written(old, v, source) \in CellSet
           /\ Written(old, v, source).version = old.version + 1
           /\ Written(old, v, source).source = source
           /\ Written(old, v, source) # old
           /\ old.version \in Int
  BY DEF Written, CellSet, Absent

(* A function from 1..n is a sequence, and one of its values a sequence.   *)
LEMMA ListType ==
    ASSUME NEW S, NEW n \in Nat, NEW f \in [1..n -> S]
    PROVE  f \in Seq(S) /\ Len(f) = n
  OBVIOUS

LEMMA SingleType ==
    ASSUME NEW S, NEW x \in S
    PROVE  <<x>> \in Seq(S) /\ Len(<<x>>) = 1
  OBVIOUS

LEMMA ChangeType ==
    ASSUME NEW S, NEW D, NEW f \in [D -> S], NEW d, NEW x \in S
    PROVE  [f EXCEPT ![d] = x] \in [D -> S]
  OBVIOUS

LEMMA PinnedTaskType ==
    ASSUME NEW plan \in Plans, NEW cells \in [Attr -> CellSet]
    PROVE  /\ PinnedTask(plan, cells) \in Seq(Write)
           /\ DOMAIN PinnedTask(plan, cells) = DOMAIN plan
           /\ \A i \in DOMAIN plan : PinnedTask(plan, cells)[i].attr = plan[i].attr
<1> DEFINE w(i) == [attr |-> plan[i].attr, value |-> plan[i].value,
                    expected |-> IF cells[plan[i].attr] = Absent THEN Forced
                                 ELSE cells[plan[i].attr].version]
<1>1. plan \in Seq([attr : Editable, value : Value]) /\ Editable \subseteq Attr
  BY RecordCellsAssumption
<1>2. Len(plan) \in Nat /\ DOMAIN plan = 1..Len(plan)
  BY <1>1
<1>3. ASSUME NEW i \in 1..Len(plan) PROVE w(i) \in Write
  <2>1. plan[i] \in [attr : Editable, value : Value]
    BY <1>1, ElementOfSeq
  <2>2. cells[plan[i].attr] \in CellSet
    BY <1>1, <2>1
  <2>3. cells[plan[i].attr] # Absent => cells[plan[i].attr].version \in Nat
    BY <2>2 DEF CellSet
  <2>4. QED
    BY <1>1, <2>1, <2>3 DEF Write
<1>4. PinnedTask(plan, cells) = [i \in 1..Len(plan) |-> w(i)]
  BY <1>2 DEF PinnedTask
<1>5. PinnedTask(plan, cells) \in [1..Len(plan) -> Write]
  <2> HIDE DEF w
  <2>1. QED
    BY <1>3, <1>4
<1>6. PinnedTask(plan, cells) \in Seq(Write)
  BY <1>2, <1>5, ListType
<1>7. QED
  BY <1>2, <1>4, <1>6

LEMMA CurrentType ==
    ASSUME TypeOK, NEW e \in Edit, at[e] <= Len(task[e])
    PROVE  /\ at[e] \in DOMAIN task[e]
           /\ CurrentTask(e) \in Write
  BY DEF TypeOK, CurrentTask

(* The next-state relation, one disjunct per action.                       *)
LEMMA Steps ==
    ASSUME Next
    PROVE  \/ \E e \in Updates : RefuseUpdate(e) \/ BeginUpdate(e)
           \/ \E e \in Transaction :
                    \/ WriteInTransaction(e) \/ Commit(e)
                    \/ RollBack(e) \/ Abort(e)
           \/ \E e \in Creates : FindRecord(e) \/ WriteOnCreate(e)
                    \/ StopCreate(e) \/ EndCreate(e) \/ InsertRecord(e)
           \/ \E e \in Tools : FindForTool(e) \/ FindRecord(e)
                    \/ InsertRecord(e) \/ Snapshot(e)
           \/ \E e \in Machines : MachineWrite(e) \/ MachineSelect(e)
  BY DEF Next, TransactionStep, CreateStep, ToolStep

(* Every variable keeps its shape: versions count up from 0.               *)
LEMMA TypeStep == TypeOK /\ [Next]_vars => TypeOK'
<1> SUFFICES ASSUME TypeOK, [Next]_vars PROVE TypeOK'
  OBVIOUS
<1> USE DEF TypeOK, table, locks, local, Go, Done
<1>1. ASSUME NEW e \in Updates, RefuseUpdate(e) PROVE TypeOK'
  BY <1>1 DEF RefuseUpdate
<1>2. ASSUME NEW e \in Updates, BeginUpdate(e) PROVE TypeOK'
  BY <1>2, RecordCellsAssumption DEF BeginUpdate
<1>3. ASSUME NEW e \in Transaction, WriteInTransaction(e) PROVE TypeOK'
  <2> DEFINE w == CurrentTask(e)
             old == Row(e, w.attr)
  <2>1. w \in Write /\ e \in Edit
    BY <1>3, CurrentType DEF WriteInTransaction, Edit
  <2>2. old \in CellSet /\ Written(old, w.value, "human") \in CellSet
    BY <2>1, WrittenType DEF Row, Write
  <2>3. VersionGuard(old, w) \in BOOLEAN
    BY DEF VersionGuard
  <2>4. owner' \in [Attr -> Transaction \cup {Nobody}] /\ draft' \in [Attr -> CellSet]
    BY <1>3, <2>1, <2>2 DEF WriteInTransaction, Write
  <2>5. clashed' \in [Edit -> BOOLEAN] /\ at' \in [Edit -> Nat \ {0}]
    BY <1>3, <2>1, <2>3 DEF WriteInTransaction
  <2>6. QED
    BY <1>3, <2>4, <2>5 DEF WriteInTransaction
<1>4. ASSUME NEW e \in Transaction, Commit(e) PROVE TypeOK'
  BY <1>4 DEF Commit, Release, Row
<1>5. ASSUME NEW e \in Transaction, RollBack(e) PROVE TypeOK'
  BY <1>5 DEF RollBack, Release
<1>6. ASSUME NEW e \in Transaction, Abort(e) PROVE TypeOK'
  BY <1>6 DEF Abort, Release
<1>7. ASSUME NEW e \in Edit, FindRecord(e) PROVE TypeOK'
  <2>1. CASE UNCHANGED task
    BY <1>7, <2>1 DEF FindRecord
  <2>2. ASSUME NEW b \in Batches \cup {<<>>}, task' = [task EXCEPT ![e] = b]
        PROVE  TypeOK'
    <3>1. b \in Seq(Write)
      <4>1. CASE b \in Batches
        BY <4>1, RecordCellsAssumption
      <4>2. CASE b = <<>>
        BY <4>2, EmptySeq
      <4>3. QED
        BY <4>1, <4>2
    <3>2. task' \in [Edit -> Seq(Write)]
      BY <2>2, <3>1, ChangeType
    <3>3. QED
      BY <1>7, <3>2 DEF FindRecord
  <2>3. QED
    BY <1>7, <2>1, <2>2 DEF FindRecord
<1>8. ASSUME NEW e \in Edit, InsertRecord(e) PROVE TypeOK'
  BY <1>8 DEF InsertRecord
<1>9. ASSUME NEW e \in Creates, WriteOnCreate(e) PROVE TypeOK'
  <2>1. CurrentTask(e) \in Write /\ e \in Edit
    BY <1>9, CurrentType DEF WriteOnCreate, Edit
  <2>2. Written(cell[CurrentTask(e).attr], CurrentTask(e).value, "human")
            \in CellSet
    BY <2>1, WrittenType DEF Write
  <2>3. cell' \in [Attr -> CellSet] /\ at' \in [Edit -> Nat \ {0}]
    BY <1>9, <2>1, <2>2 DEF WriteOnCreate, Write
  <2>4. QED
    BY <1>9, <2>3 DEF WriteOnCreate
<1>10. ASSUME NEW e \in Creates, StopCreate(e) \/ EndCreate(e) PROVE TypeOK'
  BY <1>10 DEF StopCreate, EndCreate
<1>11. ASSUME NEW e \in Tools, FindForTool(e) PROVE TypeOK'
  BY <1>11 DEF FindForTool
<1>12. ASSUME NEW e \in Tools, Snapshot(e) PROVE TypeOK'
  <2> PICK plan \in Plans : task' = [task EXCEPT ![e] = PinnedTask(plan, cell)]
    BY <1>12 DEF Snapshot
  <2>1. task' \in [Edit -> Seq(Write)]
    <3>1. PinnedTask(plan, cell) \in Seq(Write)
      BY PinnedTaskType
    <3>2. QED
      BY <3>1, ChangeType
  <2>2. seen' \in [Edit -> [Attr -> CellSet]]
    BY <1>12 DEF Snapshot
  <2>3. QED
    BY <1>12, <2>1, <2>2 DEF Snapshot
<1>13. ASSUME NEW e \in Machines, MachineWrite(e) PROVE TypeOK'
  <2>1. PICK a \in Attr, v \in Value :
            /\ task' = [task EXCEPT ![e] =
                            <<[attr |-> a, value |-> v, expected |-> Forced]>>]
            /\ \/ cell' = cell
               \/ cell' = [cell EXCEPT ![a] = Written(@, v, "machine")]
    BY <1>13 DEF MachineWrite
  <2>2. Written(cell[a], v, "machine") \in CellSet
    BY WrittenType
  <2>3. task' \in [Edit -> Seq(Write)]
    <3> DEFINE r == [attr |-> a, value |-> v, expected |-> Forced]
    <3>1. r \in Write
      BY DEF Write
    <3>2. <<r>> \in Seq(Write)
      BY <3>1, SingleType
    <3>3. QED
      BY <2>1, <3>2, ChangeType
  <2>4. cell' \in [Attr -> CellSet]
    BY <2>1, <2>2
  <2>5. pc' \in [Edit -> Done \cup {"idle", "ensure", "insert", "snapshot",
                                    "write", "select"}]
    BY <1>13 DEF MachineWrite
  <2>6. QED
    BY <1>13, <2>3, <2>4, <2>5 DEF MachineWrite
<1>14. ASSUME NEW e \in Machines, MachineSelect(e) PROVE TypeOK'
  BY <1>14 DEF MachineSelect
<1>15. CASE UNCHANGED vars
  BY <1>15 DEF vars
<1>16. QED
  BY Steps, <1>1, <1>2, <1>3, <1>4, <1>5, <1>6, <1>7, <1>8, <1>9, <1>10, <1>11,
     <1>12, <1>13, <1>14, <1>15 DEF Edit, Transaction

LEMMA TypeStart == Init => TypeOK
  BY RecordCellsAssumption, EmptySeq DEF Init, TypeOK, CellSet, Absent

(* The shapes of TypeOK hold for any number of calls and attributes: in    *)
(* particular a version is always a natural number.                        *)
THEOREM TypeCorrect == Spec => []TypeOK
  BY TypeStart, TypeStep, PTL DEF Spec

----------------------------------------------------------------------------
Early == {"idle", "ensure", "insert", "snapshot"}

(* A locked row belongs to a transaction that is running and has passed a  *)
(* write of it; what it drafted is the committed row or a newer, human one. *)
Locked(a) ==
    owner[a] # Nobody =>
        /\ pc[owner[a]] = "write"
        /\ \E i \in DOMAIN task[owner[a]] :
                i < at[owner[a]] /\ task[owner[a]][i].attr = a
        /\ \/ draft[a] = cell[a]
           \/ /\ draft[a].source = "human"
              /\ draft[a].version > cell[a].version

(* Before its transaction begins a call has written nothing.               *)
Fresh(e) == pc[e] \in Early => at[e] = 1

PinOf(w, cells) ==
    w.expected = IF cells[w.attr] = Absent THEN Forced ELSE cells[w.attr].version

Kept(e, a) == seen[e][a] # Absent => cell[a] = seen[e][a]

(* While a tool writes: its writes carry the versions of its snapshot, the *)
(* cells are those of the snapshot or newer, and those it has passed       *)
(* without a conflict are locked and still as they were.                   *)
Pinned(e) ==
    pc[e] = "write" =>
        /\ \A i \in DOMAIN task[e] : PinOf(task[e][i], seen[e])
        /\ \A a \in Attr : Kept(e, a) \/ seen[e][a].version < cell[a].version
        /\ ~clashed[e] =>
             \A i \in DOMAIN task[e] : i < at[e] =>
                /\ owner[task[e][i].attr] = e
                /\ Kept(e, task[e][i].attr)

IInv ==
    /\ TypeOK
    /\ \A a \in Attr : Locked(a)
    /\ \A e \in Edit : Fresh(e)
    /\ \A e \in Tools : Pinned(e)

----------------------------------------------------------------------------
LEMMA VersionType ==
    ASSUME NEW c \in CellSet
    PROVE  /\ c.version \in Int
           /\ c # Absent => c.version \in Nat
           /\ c = Absent => c.version = -1
  BY DEF CellSet, Absent

(* The calls are of one kind each, and no transaction is Nobody.           *)
LEMMA Kinds ==
    /\ \A e \in Transaction : e \in Edit /\ e # Nobody /\ e \notin Machines
                              /\ e \notin Creates
    /\ \A e \in Creates : e \in Edit /\ e \notin Tools /\ e \notin Updates
                          /\ e \notin Machines
    /\ \A e \in Machines : e \in Edit /\ e \notin Tools /\ e \notin Updates
                           /\ e \notin Creates
    /\ \A e \in Tools : e \in Edit /\ e \in Transaction /\ e \notin Updates
    /\ \A e \in Updates : e \in Edit /\ e \in Transaction /\ e \notin Tools
  BY RecordCellsAssumption DEF Edit, Transaction

(* What a step that takes no lock and gives none back can do.              *)
Aside(e) ==
    /\ UNCHANGED <<owner, draft, clashed, seen>>
    /\ e \in Transaction => pc[e] # "write"
    /\ \A f \in Edit \ {e} : pc'[f] = pc[f] /\ task'[f] = task[f] /\ at'[f] = at[f]
    /\ e \in Tools => pc'[e] # "write"
    /\ pc'[e] \in Early => at'[e] = 1
    /\ \A a \in Attr : \/ cell'[a] = cell[a]
                       \/ owner[a] = Nobody /\ cell'[a].version > cell[a].version

LEMMA AsideStep ==
    ASSUME IInv, TypeOK', NEW e \in Edit, Aside(e)
    PROVE  IInv'
<1>1. ASSUME NEW a \in Attr PROVE Locked(a)'
  <2>1. SUFFICES ASSUME owner[a] # Nobody PROVE Locked(a)'
    BY DEF Aside, Locked
  <2>2. Locked(a) /\ owner[a] \in Transaction
    BY <2>1 DEF IInv, TypeOK
  <2>3. owner[a] \in Edit \ {e}
    BY <2>1, <2>2 DEF Aside, Locked, Edit
  <2>4. cell'[a] = cell[a]
    BY <2>1 DEF Aside
  <2>5. QED
    BY <2>1, <2>2, <2>3, <2>4 DEF Aside, Locked
<1>2. ASSUME NEW f \in Edit PROVE Fresh(f)'
  BY DEF IInv, Fresh, Aside
<1>3. ASSUME NEW f \in Tools PROVE Pinned(f)'
  <2>1. SUFFICES ASSUME pc'[f] = "write" PROVE Pinned(f)'
    BY DEF Pinned
  <2>2. f \in Edit \ {e}
    BY <2>1, Kinds DEF Aside
  <2>3. Pinned(f) /\ pc[f] = "write" /\ task'[f] = task[f] /\ at'[f] = at[f]
        /\ seen' = seen /\ owner' = owner /\ clashed' = clashed
    BY <2>1, <2>2 DEF IInv, Aside
  <2>4. f # Nobody
    BY Kinds
  <2>5. ASSUME NEW a \in Attr
        PROVE  (Kept(f, a) \/ seen[f][a].version < cell[a].version)'
    <3>1. seen[f][a] \in CellSet /\ cell[a] \in CellSet /\ cell'[a] \in CellSet
      BY <2>2 DEF IInv, TypeOK
    <3>2. /\ seen[f][a].version \in Int
          /\ cell[a].version \in Int
          /\ cell'[a].version \in Int
      BY <3>1, VersionType
    <3>3. \/ cell'[a] = cell[a]
          \/ cell'[a].version > cell[a].version
      BY DEF Aside
    <3>4. Kept(f, a) \/ seen[f][a].version < cell[a].version
      BY <2>3 DEF Pinned
    <3>5. QED
      BY <2>3, <3>2, <3>3, <3>4 DEF Kept
  <2>6. ASSUME ~clashed[f], NEW i \in DOMAIN task[f], i < at[f]
        PROVE  owner[task[f][i].attr] = f /\ Kept(f, task[f][i].attr)'
    <3>1. task[f] \in Seq(Write)
      BY <2>2 DEF IInv, TypeOK
    <3>2. task[f][i] \in Write
      BY <3>1, ElementOfSeq
    <3>3. task[f][i].attr \in Attr
      BY <3>2 DEF Write
    <3>4. owner[task[f][i].attr] = f /\ Kept(f, task[f][i].attr)
      BY <2>3, <2>6 DEF Pinned
    <3>5. cell'[task[f][i].attr] = cell[task[f][i].attr]
      BY <2>4, <3>3, <3>4 DEF Aside
    <3>6. QED
      BY <2>3, <3>4, <3>5 DEF Kept
  <2>7. \A i \in DOMAIN task[f] : PinOf(task[f][i], seen[f])
    BY <2>3 DEF Pinned
  <2>8. QED
    BY <2>1, <2>3, <2>5, <2>6, <2>7 DEF Pinned, PinOf
<1>4. QED
  BY <1>1, <1>2, <1>3 DEF IInv

(* Ten of the actions are such steps.                                      *)
LEMMA AsideActions ==
    ASSUME IInv
    PROVE  /\ \A e \in Updates : RefuseUpdate(e) \/ BeginUpdate(e) => Aside(e)
           /\ \A e \in Creates \cup Tools : FindRecord(e) \/ InsertRecord(e) => Aside(e)
           /\ \A e \in Creates : StopCreate(e) \/ EndCreate(e) => Aside(e)
           /\ \A e \in Creates : WriteOnCreate(e) => Aside(e)
           /\ \A e \in Tools : FindForTool(e) => Aside(e)
           /\ \A e \in Machines : MachineWrite(e) \/ MachineSelect(e) => Aside(e)
<1> USE DEF table, locks, local, Go, Early
<1>0. \A e \in Edit : pc[e] \in Early => at[e] = 1
  BY DEF IInv, Fresh
<1>t. TypeOK
  BY DEF IInv
<1>p. pc \in [Edit -> Done \cup {"idle", "ensure", "insert", "snapshot", "write", "select"}]
      /\ task \in [Edit -> Seq(Write)] /\ at \in [Edit -> Nat \ {0}]
      /\ cell \in [Attr -> CellSet]
  BY <1>t DEF TypeOK
<1>1. ASSUME NEW e \in Updates, RefuseUpdate(e) \/ BeginUpdate(e) PROVE Aside(e)
  BY <1>0, <1>p, <1>1, Kinds DEF RefuseUpdate, BeginUpdate, Aside
<1>2. ASSUME NEW e \in Creates \cup Tools, FindRecord(e) PROVE Aside(e)
  BY <1>0, <1>p, <1>2, Kinds DEF FindRecord, Aside
<1>3. ASSUME NEW e \in Creates \cup Tools, InsertRecord(e) PROVE Aside(e)
  BY <1>0, <1>p, <1>3, Kinds DEF InsertRecord, Aside
<1>4. ASSUME NEW e \in Creates, StopCreate(e) \/ EndCreate(e) PROVE Aside(e)
  BY <1>0, <1>p, <1>4, Kinds DEF StopCreate, EndCreate, Aside
<1>5. ASSUME NEW e \in Creates, WriteOnCreate(e) PROVE Aside(e)
  <2> DEFINE w == CurrentTask(e)
  <2>1. w \in Write
    BY <1>5, <1>t, CurrentType, Kinds DEF WriteOnCreate
  <2>2. cell[w.attr] \in CellSet /\ w.value \in Value /\ w.attr \in Attr
    BY <2>1, <1>p DEF Write
  <2>3. Written(cell[w.attr], w.value, "human").version > cell[w.attr].version
    BY <2>2, WrittenType
  <2>4. \A a \in Attr : \/ cell'[a] = cell[a]
                        \/ owner[a] = Nobody /\ cell'[a].version > cell[a].version
    BY <1>5, <1>p, <2>2, <2>3 DEF WriteOnCreate
  <2>5. QED
    BY <1>5, <1>p, <2>4, Kinds DEF WriteOnCreate, Aside
<1>6. ASSUME NEW e \in Tools, FindForTool(e) PROVE Aside(e)
  BY <1>0, <1>p, <1>6, Kinds DEF FindForTool, Aside
<1>7. ASSUME NEW e \in Machines, MachineWrite(e) PROVE Aside(e)
  <2>1. PICK a \in Attr, v \in Value :
            /\ owner[a] = Nobody
            /\ \/ cell' = cell
               \/ cell' = [cell EXCEPT ![a] = Written(@, v, "machine")]
    BY <1>7 DEF MachineWrite
  <2>2. Written(cell[a], v, "machine").version > cell[a].version
    BY <1>p, WrittenType
  <2>3. \A b \in Attr : \/ cell'[b] = cell[b]
                        \/ owner[b] = Nobody /\ cell'[b].version > cell[b].version
    BY <1>p, <2>1, <2>2
  <2>4. QED
    BY <1>7, <1>p, <2>3, Kinds DEF MachineWrite, Aside
<1>8. ASSUME NEW e \in Machines, MachineSelect(e) PROVE Aside(e)
  BY <1>p, <1>8, Kinds DEF MachineSelect, Aside
<1>9. QED
  BY <1>1, <1>2, <1>3, <1>4, <1>5, <1>6, <1>7, <1>8

(* One write of a batch: the row becomes, or stays, the transaction's.     *)
LEMMA WriteStep ==
    ASSUME IInv, TypeOK', NEW e \in Transaction, WriteInTransaction(e)
    PROVE  IInv'
<1> DEFINE w == CurrentTask(e)
           old == Row(e, w.attr)
<1>1. TypeOK /\ e \in Edit /\ e # Nobody
  BY Kinds DEF IInv
<1>2. /\ pc[e] = "write" /\ at[e] <= Len(task[e])
      /\ owner[w.attr] \in {Nobody, e}
      /\ owner' = [owner EXCEPT ![w.attr] = e]
      /\ at' = [at EXCEPT ![e] = @ + 1]
      /\ UNCHANGED <<cell, pc, task, seen>>
  BY DEF WriteInTransaction, table
<1>3. w \in Write /\ at[e] \in DOMAIN task[e] /\ w = task[e][at[e]]
  BY <1>1, <1>2, CurrentType DEF CurrentTask
<1>4. w.attr \in Attr /\ w.value \in Value
  BY <1>3 DEF Write
<1>5. at \in [Edit -> Nat \ {0}] /\ owner \in [Attr -> Transaction \cup {Nobody}]
      /\ cell \in [Attr -> CellSet] /\ draft \in [Attr -> CellSet]
      /\ clashed \in [Edit -> BOOLEAN] /\ seen \in [Edit -> [Attr -> CellSet]]
  BY <1>1 DEF TypeOK
<1>6. at'[e] = at[e] + 1 /\ \A f \in Edit \ {e} : at'[f] = at[f]
  BY <1>1, <1>2, <1>5
<1>7. owner'[w.attr] = e /\ \A a \in Attr \ {w.attr} : owner'[a] = owner[a]
  BY <1>2, <1>4, <1>5
<1>8. \A a \in Attr \ {w.attr} : draft'[a] = draft[a]
  BY <1>4, <1>5 DEF WriteInTransaction
<1>9. draft'[w.attr] = IF VersionGuard(old, w) THEN old
                       ELSE Written(old, w.value, "human")
  BY <1>4, <1>5 DEF WriteInTransaction
<1> HIDE DEF w, old
<1>10. old \in CellSet /\ \/ old = cell[w.attr]
                          \/ /\ old.source = "human"
                             /\ old.version > cell[w.attr].version
  <2>1. CASE owner[w.attr] = e
    <3>1. Locked(w.attr)
      BY <1>4 DEF IInv
    <3>2. old = draft[w.attr]
      BY <2>1 DEF Row, old
    <3>3. QED
      BY <1>1, <1>4, <1>5, <2>1, <3>1, <3>2 DEF Locked
  <2>2. CASE owner[w.attr] = Nobody
    <3>1. old = cell[w.attr]
      BY <1>1, <2>2 DEF Row, old
    <3>2. QED
      BY <1>4, <1>5, <3>1
  <2>3. QED
    BY <1>2, <2>1, <2>2
<1>11. ASSUME NEW a \in Attr, a = w.attr PROVE Locked(a)'
  <2>1. /\ Written(old, w.value, "human").source = "human"
        /\ Written(old, w.value, "human").version = old.version + 1
        /\ old.version \in Int /\ cell[w.attr].version \in Int
    BY <1>4, <1>5, <1>10, WrittenType, VersionType
  <2>2. \/ draft'[w.attr] = cell[w.attr]
        \/ /\ draft'[w.attr].source = "human"
           /\ draft'[w.attr].version > cell[w.attr].version
    BY <1>9, <1>10, <2>1
  <2>3. at[e] \in Nat /\ at[e] < at'[e]
    BY <1>1, <1>5, <1>6
  <2>4. QED
    BY <1>2, <1>3, <1>7, <1>11, <2>2, <2>3 DEF Locked
<1>12. ASSUME NEW a \in Attr, a # w.attr PROVE Locked(a)'
  <2>1. Locked(a)
    BY DEF IInv
  <2>2. SUFFICES ASSUME owner[a] # Nobody PROVE Locked(a)'
    BY <1>7, <1>12 DEF Locked
  <2>3. owner[a] \in Edit
    BY <2>2, <1>5 DEF Edit
  <2>4. PICK i \in DOMAIN task[owner[a]] :
            i < at[owner[a]] /\ task[owner[a]][i].attr = a
    BY <2>1, <2>2 DEF Locked
  <2>5. task[owner[a]] \in Seq(Write)
    BY <1>1, <2>3 DEF TypeOK
  <2>6. i \in Int /\ at[owner[a]] \in Int
    BY <1>5, <2>3, <2>5
  <2>7. at'[owner[a]] \in Int /\ at'[owner[a]] >= at[owner[a]]
    BY <1>5, <1>6, <2>3
  <2>8. i < at'[owner[a]]
    BY <2>4, <2>6, <2>7
  <2>9. QED
    BY <1>2, <1>7, <1>8, <1>12, <2>1, <2>2, <2>4, <2>8 DEF Locked
<1>13. ASSUME NEW f \in Edit PROVE Fresh(f)'
  BY <1>2, <1>6 DEF IInv, Fresh, Early
<1>14. ASSUME NEW f \in Tools, pc[f] = "write" PROVE Pinned(f)'
  <2>1. Pinned(f) /\ f \in Edit
    BY Kinds DEF IInv
  <2>2. /\ \A i \in DOMAIN task[f] : PinOf(task[f][i], seen[f])
        /\ \A a \in Attr : Kept(f, a) \/ seen[f][a].version < cell[a].version
    BY <1>14, <2>1 DEF Pinned
  <2>3. ASSUME ~clashed'[f], NEW i \in DOMAIN task[f], i < at'[f]
        PROVE  owner'[task[f][i].attr] = f /\ Kept(f, task[f][i].attr)
    <3>1. task[f] \in Seq(Write)
      BY <1>1, <2>1 DEF TypeOK
    <3>2. task[f][i] \in Write /\ i \in Nat
      BY <3>1, ElementOfSeq
    <3>3. task[f][i].attr \in Attr
      BY <3>2 DEF Write
    <3>4. ~clashed[f]
      BY <2>1, <2>3, <1>5 DEF WriteInTransaction
    <3>5. CASE f # e
      <4>1. owner[task[f][i].attr] = f /\ Kept(f, task[f][i].attr)
        BY <1>6, <1>14, <2>1, <2>3, <3>4, <3>5 DEF Pinned
      <4>2. task[f][i].attr # w.attr
        BY <1>2, <3>5, <4>1, Kinds
      <4>3. QED
        BY <1>7, <3>3, <4>1, <4>2
    <3>6. CASE f = e /\ i < at[e]
      <4>1. owner[task[f][i].attr] = f /\ Kept(f, task[f][i].attr)
        BY <1>14, <2>1, <3>4, <3>6 DEF Pinned
      <4>2. QED
        BY <1>7, <3>3, <3>6, <4>1
    <3>7. CASE f = e /\ i = at[e]
      <4>1. task[f][i] = w
        BY <1>3, <3>7
      <4>2. ~VersionGuard(old, w)
        BY <2>1, <2>3, <3>7, <1>5 DEF WriteInTransaction, w, old
      <4>3. PinOf(w, seen[e])
        BY <2>2, <3>7, <4>1
      <4>4. SUFFICES ASSUME seen[e][w.attr] # Absent
                     PROVE  cell[w.attr] = seen[e][w.attr]
        BY <1>7, <3>7, <4>1 DEF Kept
      <4>5. CASE owner[w.attr] = e
        <5>1. PICK j \in DOMAIN task[e] : j < at[e] /\ task[e][j].attr = w.attr
          BY <1>1, <1>4, <4>5 DEF IInv, Locked
        <5>2. Kept(e, w.attr)
          BY <1>14, <2>1, <3>4, <3>7, <5>1 DEF Pinned
        <5>3. QED
          BY <4>4, <5>2 DEF Kept
      <4>6. CASE owner[w.attr] = Nobody
        <5>1. old = cell[w.attr]
          BY <1>1, <4>6 DEF Row, old
        <5>2. /\ seen[e][w.attr] \in CellSet /\ cell[w.attr] \in CellSet
              /\ seen[e][w.attr].version \in Nat /\ cell[w.attr].version \in Int
              /\ cell[w.attr] = Absent => cell[w.attr].version = -1
          BY <1>1, <1>4, <1>5, <4>4, VersionType
        <5>3. w.expected = seen[e][w.attr].version /\ w.expected # Forced
          BY <4>3, <4>4, <5>2, RecordCellsAssumption DEF PinOf
        <5>4. cell[w.attr] = Absent \/ cell[w.attr].version = seen[e][w.attr].version
          BY <4>2, <5>1, <5>3 DEF VersionGuard
        <5>5. Kept(e, w.attr) \/ seen[e][w.attr].version < cell[w.attr].version
          BY <1>4, <2>2, <3>7
        <5>6. QED
          BY <4>4, <5>2, <5>4, <5>5 DEF Kept
      <4>7. QED
        BY <1>2, <4>5, <4>6
    <3>8. i < at[f] \/ (f = e /\ i = at[e])
      <4>1. at[f] \in Nat /\ at[e] \in Nat /\ i \in Nat
        BY <1>1, <1>5, <2>1, <3>2
      <4>2. CASE f = e
        BY <1>6, <2>3, <4>1, <4>2
      <4>3. CASE f # e
        BY <1>6, <2>1, <2>3, <4>3
      <4>4. QED
        BY <4>2, <4>3
    <3>9. QED
      BY <3>5, <3>6, <3>7, <3>8
  <2>4. QED
    BY <1>2, <2>2, <2>3 DEF Pinned, Kept, PinOf
<1>15. ASSUME NEW f \in Tools PROVE Pinned(f)'
  BY <1>2, <1>14 DEF Pinned
<1>16. QED
  BY <1>11, <1>12, <1>13, <1>15 DEF IInv

(* A transaction ends: its rows are released, and changed or not.          *)
Ends(e) ==
    /\ pc[e] = "write"
    /\ pc'[e] \notin Early \cup {"write"}
    /\ \A f \in Edit \ {e} : pc'[f] = pc[f]
    /\ \A a \in Attr : owner'[a] = IF owner[a] = e THEN Nobody ELSE owner[a]
    /\ UNCHANGED <<draft, task, at, clashed, seen>>
    /\ \A a \in Attr : \/ cell'[a] = cell[a]
                       \/ owner[a] = e /\ cell'[a] = draft[a]

LEMMA EndActions ==
    ASSUME TypeOK, NEW e \in Transaction, Commit(e) \/ RollBack(e) \/ Abort(e)
    PROVE  Ends(e)
<1> USE DEF TypeOK, table, locks, local, Go, Early, Release, Done
<1>1. e \in Edit
  BY Kinds
<1>2. CASE Commit(e)
  BY <1>1, <1>2 DEF Commit, Ends, Row
<1>3. CASE RollBack(e)
  BY <1>1, <1>3 DEF RollBack, Ends
<1>4. CASE Abort(e)
  BY <1>1, <1>4 DEF Abort, Ends
<1>5. QED
  BY <1>2, <1>3, <1>4

LEMMA EndStep ==
    ASSUME IInv, TypeOK', NEW e \in Transaction, Ends(e)
    PROVE  IInv'
<1>1. TypeOK /\ e \in Edit /\ e # Nobody
  BY Kinds DEF IInv
<1>2. ASSUME NEW a \in Attr PROVE Locked(a)'
  <2>1. SUFFICES ASSUME owner[a] # Nobody, owner[a] # e PROVE Locked(a)'
    BY DEF Ends, Locked
  <2>2. owner[a] \in Edit \ {e}
    BY <1>1, <2>1 DEF TypeOK, Edit
  <2>3. Locked(a)
    BY DEF IInv
  <2>4. cell'[a] = cell[a] /\ owner'[a] = owner[a] /\ pc'[owner[a]] = pc[owner[a]]
    BY <2>1, <2>2 DEF Ends
  <2>5. QED
    BY <2>1, <2>3, <2>4 DEF Ends, Locked
<1>3. ASSUME NEW f \in Edit PROVE Fresh(f)'
  BY DEF IInv, Fresh, Ends
<1>4. ASSUME NEW a \in Attr
      PROVE  cell'[a] = cell[a] \/ cell'[a].version > cell[a].version
  <2>1. Locked(a) /\ cell[a] \in CellSet
    BY <1>1 DEF IInv, TypeOK
  <2>2. QED
    BY <1>1, <2>1 DEF Ends, Locked
<1>5. ASSUME NEW f \in Tools PROVE Pinned(f)'
  <2>1. SUFFICES ASSUME pc'[f] = "write" PROVE Pinned(f)'
    BY DEF Pinned
  <2>2. f \in Edit \ {e} /\ f # Nobody
    BY <2>1, Kinds DEF Ends
  <2>3. Pinned(f) /\ pc[f] = "write"
    BY <2>1, <2>2 DEF IInv, Ends
  <2>4. ASSUME NEW a \in Attr
        PROVE  (Kept(f, a) \/ seen[f][a].version < cell[a].version)'
    <3>1. seen[f][a] \in CellSet /\ cell[a] \in CellSet /\ cell'[a] \in CellSet
      BY <1>1, <2>2 DEF TypeOK
    <3>2. /\ seen[f][a].version \in Int
          /\ cell[a].version \in Int
          /\ cell'[a].version \in Int
      BY <3>1, VersionType
    <3>3. Kept(f, a) \/ seen[f][a].version < cell[a].version
      BY <2>3 DEF Pinned
    <3>4. seen' = seen
      BY DEF Ends
    <3>5. QED
      BY <1>4, <3>2, <3>3, <3>4 DEF Kept
  <2>5. ASSUME ~clashed[f], NEW i \in DOMAIN task[f], i < at[f]
        PROVE  owner'[task[f][i].attr] = f /\ Kept(f, task[f][i].attr)'
    <3>1. task[f] \in Seq(Write)
      BY <1>1, <2>2 DEF TypeOK
    <3>2. task[f][i] \in Write
      BY <3>1, ElementOfSeq
    <3>3. task[f][i].attr \in Attr
      BY <3>2 DEF Write
    <3>4. owner[task[f][i].attr] = f /\ Kept(f, task[f][i].attr)
      BY <2>3, <2>5 DEF Pinned
    <3>5. owner'[task[f][i].attr] = f /\ cell'[task[f][i].attr] = cell[task[f][i].attr]
      BY <2>2, <3>3, <3>4 DEF Ends
    <3>6. QED
      BY <3>4, <3>5 DEF Kept, Ends
  <2>6. \A i \in DOMAIN task[f] : PinOf(task[f][i], seen[f])
    BY <2>3 DEF Pinned
  <2>7. task' = task /\ seen' = seen /\ at' = at /\ clashed' = clashed
    BY DEF Ends
  <2>8. QED
    BY <2>4, <2>5, <2>6, <2>7 DEF Pinned, PinOf
<1>6. QED
  BY <1>2, <1>3, <1>5 DEF IInv

(* The pins of a plan are the versions of the snapshot.                    *)
LEMMA PinsOfPlan ==
    ASSUME NEW plan \in Plans, NEW cells \in [Attr -> CellSet],
           NEW i \in DOMAIN PinnedTask(plan, cells)
    PROVE  PinOf(PinnedTask(plan, cells)[i], cells)
<1>1. i \in DOMAIN plan
  BY PinnedTaskType
<1>2. QED
  BY <1>1 DEF PinnedTask, PinOf

LEMMA SnapshotStep ==
    ASSUME IInv, TypeOK', NEW e \in Tools, Snapshot(e)
    PROVE  IInv'
<1>1. TypeOK /\ e \in Edit /\ e # Nobody
  BY Kinds DEF IInv
<1>2. PICK plan \in Plans : task' = [task EXCEPT ![e] = PinnedTask(plan, cell)]
  BY DEF Snapshot
<1>3. /\ pc[e] = "snapshot" /\ pc'[e] = "write" /\ seen'[e] = cell
      /\ task'[e] = PinnedTask(plan, cell)
      /\ \A f \in Edit \ {e} : /\ pc'[f] = pc[f] /\ seen'[f] = seen[f]
                               /\ task'[f] = task[f]
      /\ UNCHANGED <<cell, owner, draft, at, clashed>>
  BY <1>1, <1>2 DEF TypeOK, Snapshot, Go, table, locks
<1>4. ASSUME NEW a \in Attr PROVE Locked(a)'
  <2>1. SUFFICES ASSUME owner[a] # Nobody PROVE Locked(a)'
    BY <1>3 DEF Locked
  <2>2. Locked(a)
    BY DEF IInv
  <2>3. owner[a] \in Edit \ {e}
    BY <1>1, <1>3, <2>1, <2>2 DEF Locked, TypeOK, Edit
  <2>4. QED
    BY <1>3, <2>1, <2>2, <2>3 DEF Locked
<1>5. ASSUME NEW f \in Edit PROVE Fresh(f)'
  BY <1>3 DEF IInv, Fresh, Early
<1>6. ASSUME NEW f \in Tools, f # e PROVE Pinned(f)'
  <2>1. f \in Edit \ {e} /\ Pinned(f)
    BY <1>6, Kinds DEF IInv
  <2>2. QED
    BY <1>3, <2>1 DEF Pinned, Kept, PinOf
<1>7. Pinned(e)'
  <2>1. at[e] = 1
    BY <1>1, <1>3 DEF IInv, Fresh, Early
  <2>2. cell \in [Attr -> CellSet]
    BY <1>1 DEF TypeOK
  <2>3. \A i \in DOMAIN task'[e] : PinOf(task'[e][i], seen'[e])
    BY <1>3, <2>2, PinsOfPlan
  <2>4. \A i \in DOMAIN task'[e] : ~(i < at'[e])
    <3>1. task'[e] \in Seq(Write)
      BY <1>1 DEF TypeOK
    <3>2. QED
      BY <1>3, <2>1, <3>1
  <2>5. \A a \in Attr : Kept(e, a)'
    BY <1>3 DEF Kept
  <2>6. QED
    BY <2>3, <2>4, <2>5 DEF Pinned, PinOf
<1>8. QED
  BY <1>4, <1>5, <1>6, <1>7 DEF IInv

LEMMA InvStart == Init => IInv
<1> SUFFICES ASSUME Init PROVE IInv
  OBVIOUS
<1>1. TypeOK
  BY TypeStart
<1>2. \A e \in Edit : pc[e] = "idle" /\ at[e] = 1
  BY DEF Init
<1>3. \A e \in Tools : pc[e] # "write"
  BY <1>2, Kinds
<1>4. \A a \in Attr : owner[a] = Nobody
  BY DEF Init
<1>5. QED
  BY <1>1, <1>2, <1>3, <1>4 DEF IInv, Locked, Fresh, Pinned

LEMMA InvStep == IInv /\ [Next]_vars => IInv'
<1> SUFFICES ASSUME IInv, [Next]_vars PROVE IInv'
  OBVIOUS
<1>1. TypeOK /\ TypeOK'
  BY TypeStep DEF IInv
<1>2. ASSUME NEW e \in Edit, Aside(e) PROVE IInv'
  BY <1>1, <1>2, AsideStep
<1>3. ASSUME NEW e \in Updates, RefuseUpdate(e) \/ BeginUpdate(e) PROVE IInv'
  BY <1>2, <1>3, AsideActions, Kinds
<1>4. ASSUME NEW e \in Transaction,
             WriteInTransaction(e) \/ Commit(e) \/ RollBack(e) \/ Abort(e)
      PROVE  IInv'
  BY <1>1, <1>4, WriteStep, EndActions, EndStep
<1>5. ASSUME NEW e \in Creates, \/ FindRecord(e) \/ WriteOnCreate(e)
                                \/ StopCreate(e) \/ EndCreate(e) \/ InsertRecord(e)
      PROVE  IInv'
  BY <1>2, <1>5, AsideActions, Kinds
<1>6. ASSUME NEW e \in Tools, \/ FindForTool(e) \/ FindRecord(e)
                              \/ InsertRecord(e) \/ Snapshot(e)
      PROVE  IInv'
  BY <1>1, <1>2, <1>6, AsideActions, SnapshotStep, Kinds
<1>7. ASSUME NEW e \in Machines, MachineWrite(e) \/ MachineSelect(e) PROVE IInv'
  BY <1>2, <1>7, AsideActions, Kinds
<1>8. CASE UNCHANGED vars
  BY <1>1, <1>8 DEF vars, table, locks, local, IInv, Locked, Fresh, Pinned,
                    PinOf, Kept
<1>9. QED
  BY Steps, <1>3, <1>4, <1>5, <1>6, <1>7, <1>8

LEMMA Invariance == Spec => []IInv
  BY InvStart, InvStep, PTL DEF Spec

(* No row stays locked after its transaction has ended.                    *)
THEOREM NoLockStays == Spec => []NoLockLeft
<1>1. IInv => NoLockLeft
  BY DEF IInv, Locked, NoLockLeft
<1>2. QED
  BY <1>1, Invariance, PTL

----------------------------------------------------------------------------
Yields ==
    \A a \in Attr : cell[a].source = "human" /\ cell'[a] # cell[a]
            => /\ cell'[a].source = "human"
               /\ \A e \in Machines : pc'[e] = pc[e]

(* A step changes a human's cell only for another human.                   *)
LEMMA YieldsStep == ASSUME IInv, [Next]_vars PROVE Yields
<1>1. TypeOK
  BY DEF IInv
<1> SUFFICES ASSUME cell' # cell PROVE Yields
  BY DEF Yields
<1>2. ASSUME NEW e \in Transaction, Commit(e) PROVE Yields
  <2>1. Ends(e)
    BY <1>1, <1>2, EndActions
  <2>2. \A m \in Machines : pc'[m] = pc[m]
    BY <2>1, Kinds DEF Ends
  <2>3. ASSUME NEW a \in Attr, cell'[a] # cell[a] PROVE cell'[a].source = "human"
    <3>1. owner[a] = e /\ cell'[a] = draft[a] /\ Locked(a) /\ e # Nobody
      BY <2>1, <2>3, Kinds DEF Ends, IInv
    <3>2. QED
      BY <2>3, <3>1 DEF Locked
  <2>4. QED
    BY <2>2, <2>3 DEF Yields
<1>3. ASSUME NEW e \in Creates, WriteOnCreate(e) PROVE Yields
  <2> DEFINE w == CurrentTask(e)
  <2>1. w \in Write
    BY <1>1, <1>3, CurrentType, Kinds DEF WriteOnCreate
  <2>2. cell[w.attr] \in CellSet /\ w.value \in Value /\ w.attr \in Attr
    BY <1>1, <2>1 DEF TypeOK, Write
  <2>3. Written(cell[w.attr], w.value, "human").source = "human"
    BY <2>2, WrittenType
  <2>4. cell' = [cell EXCEPT ![w.attr] = Written(cell[w.attr], w.value, "human")]
        /\ pc' = pc
    BY <1>3 DEF WriteOnCreate
  <2>5. cell \in [Attr -> CellSet]
    BY <1>1 DEF TypeOK
  <2>6. QED
    BY <2>2, <2>3, <2>4, <2>5 DEF Yields
<1>4. ASSUME NEW e \in Machines, MachineWrite(e) PROVE Yields
  <2>1. PICK a \in Attr, v \in Value :
            /\ cell[a].source # "human"
            /\ cell' = [cell EXCEPT ![a] = Written(@, v, "machine")]
    BY <1>4 DEF MachineWrite, MachineGuard
  <2>2. cell \in [Attr -> CellSet]
    BY <1>1 DEF TypeOK
  <2>3. \A b \in Attr : cell'[b] # cell[b] => b = a
    BY <2>1, <2>2
  <2>4. QED
    BY <2>1, <2>3 DEF Yields
<1>5. ASSUME NEW e \in Transaction,
             WriteInTransaction(e) \/ RollBack(e) \/ Abort(e)
      PROVE  FALSE
  BY <1>5 DEF WriteInTransaction, RollBack, Abort, table
<1>6. ASSUME NEW e \in Edit, \/ RefuseUpdate(e) \/ BeginUpdate(e) \/ FindRecord(e)
                             \/ InsertRecord(e) \/ StopCreate(e) \/ EndCreate(e)
                             \/ FindForTool(e) \/ Snapshot(e) \/ MachineSelect(e)
      PROVE  FALSE
  BY <1>6 DEF RefuseUpdate, BeginUpdate, FindRecord, InsertRecord, StopCreate,
              EndCreate, FindForTool, Snapshot, MachineSelect, table
<1>7. CASE UNCHANGED vars
  BY <1>7 DEF vars, table
<1>8. QED
  BY Steps, Kinds, <1>2, <1>3, <1>4, <1>5, <1>6, <1>7

(* A manual edit always wins over a machine, for every value of the        *)
(* constants: writeCell's first rule.                                      *)
THEOREM ManualEditKept == Spec => ManualEditWins
<1>1. IInv /\ [Next]_vars => [Yields]_vars
  BY YieldsStep
<1>2. QED
  BY <1>1, Invariance, PTL DEF Spec, ManualEditWins, Yields

----------------------------------------------------------------------------
Exact ==
    \A e \in Tools : pc[e] # "saved" /\ pc'[e] = "saved" =>
        \A a \in Attrs(e) : seen[e][a] # Absent => cell[a] = seen[e][a]

(* A tool saves in one way, by the commit of a transaction with no clash.  *)
LEMMA ToolSaves ==
    ASSUME IInv, [Next]_vars, NEW e \in Tools, pc[e] # "saved", pc'[e] = "saved"
    PROVE  Commit(e)
<1>1. TypeOK /\ e \in Edit /\ e \in Transaction
  BY Kinds DEF IInv
<1>2. pc \in [Edit -> Done \cup {"idle", "ensure", "insert", "snapshot", "write", "select"}]
  BY <1>1 DEF TypeOK
<1>3. ASSUME NEW f \in Edit, Aside(f), f # e PROVE FALSE
  BY <1>1, <1>3 DEF Aside
<1>4. ASSUME NEW f \in Transaction, Ends(f), f # e PROVE FALSE
  BY <1>1, <1>4 DEF Ends
<1>5. ASSUME NEW f \in Updates, RefuseUpdate(f) \/ BeginUpdate(f) PROVE FALSE
  BY <1>3, <1>5, AsideActions, Kinds
<1>6. ASSUME NEW f \in Transaction, WriteInTransaction(f) PROVE FALSE
  BY <1>6 DEF WriteInTransaction
<1>7. ASSUME NEW f \in Transaction, RollBack(f) \/ Abort(f) PROVE FALSE
  <2>1. f = e
    BY <1>1, <1>4, <1>7, EndActions
  <2>2. QED
    BY <1>1, <1>2, <1>7, <2>1 DEF RollBack, Abort, Go
<1>8. ASSUME NEW f \in Transaction, Commit(f) PROVE Commit(e)
  BY <1>1, <1>4, <1>8, EndActions
<1>9. ASSUME NEW f \in Creates, \/ FindRecord(f) \/ WriteOnCreate(f)
                                \/ StopCreate(f) \/ EndCreate(f) \/ InsertRecord(f)
      PROVE  FALSE
  BY <1>3, <1>9, AsideActions, Kinds
<1>10. ASSUME NEW f \in Tools, \/ FindForTool(f) \/ FindRecord(f)
                               \/ InsertRecord(f) \/ Snapshot(f)
       PROVE  FALSE
  <2>1. f \in Edit
    BY Kinds
  <2>2. pc' = [pc EXCEPT ![f] = pc'[f]] /\ pc'[f] # "saved"
    BY <1>2, <1>10, <2>1 DEF FindForTool, FindRecord, InsertRecord, Snapshot, Go
  <2>3. QED
    BY <1>1, <1>2, <2>1, <2>2
<1>11. ASSUME NEW f \in Machines, MachineWrite(f) \/ MachineSelect(f) PROVE FALSE
  BY <1>3, <1>11, AsideActions, Kinds
<1>12. CASE UNCHANGED vars
  BY <1>12 DEF vars
<1>13. QED
  BY Steps, <1>5, <1>6, <1>7, <1>8, <1>9, <1>10, <1>11, <1>12

(* What a tool's save replaces is what its snapshot contained.             *)
THEOREM SnapshotPinned == Spec => PinnedToSnapshot
<1>1. ASSUME IInv, [Next]_vars PROVE Exact
  <2>1. SUFFICES ASSUME NEW e \in Tools, pc[e] # "saved", pc'[e] = "saved",
                        NEW a \in Attrs(e)
                 PROVE  Kept(e, a)
    BY DEF Exact, Kept
  <2>2. Commit(e) /\ Pinned(e) /\ e \in Edit
    BY <1>1, <2>1, ToolSaves, Kinds DEF IInv
  <2>3. PICK i \in DOMAIN task[e] : task[e][i].attr = a
    BY DEF Attrs
  <2>4. task[e] \in Seq(Write) /\ at[e] \in Nat
    BY <1>1, <2>2 DEF IInv, TypeOK
  <2>5. i < at[e]
    BY <2>2, <2>4 DEF Commit
  <2>6. pc[e] = "write" /\ ~clashed[e]
    BY <2>2 DEF Commit, Go
  <2>7. QED
    BY <2>2, <2>3, <2>5, <2>6 DEF Pinned
<1>2. IInv /\ [Next]_vars => [Exact]_vars
  BY <1>1
<1>3. QED
  BY <1>2, Invariance, PTL DEF Spec, PinnedToSnapshot, Exact

----------------------------------------------------------------------------
(* A machine that was held off, or is about to find out why.               *)
Told(e) ==
    pc[e] \in {"select", "skipped", "conflict"} =>
        /\ pc[e] # "conflict"
        /\ at[e] = 1 /\ 1 \in DOMAIN task[e]
        /\ cell[task[e][1].attr].source = "human"

LEMMA ToldByOthers ==
    ASSUME IInv, [Next]_vars, NEW m \in Machines, Told(m),
           pc'[m] = pc[m], task'[m] = task[m], at'[m] = at[m]
    PROVE  Told(m)'
<1>1. SUFFICES ASSUME pc[m] \in {"select", "skipped", "conflict"} PROVE Told(m)'
  BY DEF Told
<1>2. task[m] \in Seq(Write)
  BY Kinds DEF IInv, TypeOK
<1>3. 1 \in DOMAIN task[m] /\ cell[task[m][1].attr].source = "human"
  BY <1>1 DEF Told
<1>4. task[m][1] \in Write
  BY <1>2, <1>3, ElementOfSeq
<1>5. task[m][1].attr \in Attr
  BY <1>4 DEF Write
<1>6. cell'[task[m][1].attr].source = "human"
  BY <1>3, <1>5, YieldsStep DEF Yields
<1>7. QED
  BY <1>1, <1>3, <1>6 DEF Told

LEMMA ToldStep ==
    ASSUME IInv, [Next]_vars, NEW m \in Machines, Told(m)
    PROVE  Told(m)'
<1>1. TypeOK /\ m \in Edit
  BY Kinds DEF IInv
<1>2. ASSUME NEW f \in Edit, Aside(f), f # m PROVE Told(m)'
  BY <1>1, <1>2, ToldByOthers DEF Aside
<1>3. ASSUME NEW f \in Updates, RefuseUpdate(f) \/ BeginUpdate(f) PROVE Told(m)'
  BY <1>2, <1>3, AsideActions, Kinds
<1>4. ASSUME NEW f \in Transaction, WriteInTransaction(f) PROVE Told(m)'
  <2>1. f # m
    BY Kinds
  <2>2. at'[m] = at[m] /\ pc' = pc /\ task' = task
    BY <1>1, <1>4, <2>1 DEF WriteInTransaction, TypeOK
  <2>3. QED
    BY <2>2, ToldByOthers
<1>5. ASSUME NEW f \in Transaction, Commit(f) \/ RollBack(f) \/ Abort(f)
      PROVE  Told(m)'
  <2>1. Ends(f) /\ f # m
    BY <1>1, <1>5, EndActions, Kinds
  <2>2. QED
    BY <1>1, <2>1, ToldByOthers DEF Ends
<1>6. ASSUME NEW f \in Creates, \/ FindRecord(f) \/ WriteOnCreate(f)
                                \/ StopCreate(f) \/ EndCreate(f) \/ InsertRecord(f)
      PROVE  Told(m)'
  BY <1>2, <1>6, AsideActions, Kinds
<1>7. ASSUME NEW f \in Tools, \/ FindForTool(f) \/ FindRecord(f) \/ InsertRecord(f)
      PROVE  Told(m)'
  BY <1>2, <1>7, AsideActions, Kinds
<1>8. ASSUME NEW f \in Tools, Snapshot(f) PROVE Told(m)'
  <2>1. f # m
    BY Kinds
  <2>2. at'[m] = at[m] /\ pc'[m] = pc[m] /\ task'[m] = task[m]
    BY <1>1, <1>8, <2>1 DEF Snapshot, TypeOK, Go
  <2>3. QED
    BY <2>2, ToldByOthers
<1>9. ASSUME NEW f \in Machines, f # m, MachineWrite(f) \/ MachineSelect(f)
      PROVE  Told(m)'
  BY <1>2, <1>9, AsideActions, Kinds
<1>10. ASSUME MachineWrite(m) PROVE Told(m)'
  <2>1. PICK a \in Attr, v \in Value :
            /\ task' = [task EXCEPT ![m] =
                            <<[attr |-> a, value |-> v, expected |-> Forced]>>]
            /\ \/ cell[a].source = "human" /\ cell' = cell
               \/ pc' = [pc EXCEPT ![m] = "saved"]
    BY <1>10 DEF MachineWrite, MachineGuard
  <2>2. task'[m] = <<[attr |-> a, value |-> v, expected |-> Forced]>>
    BY <1>1, <2>1 DEF TypeOK
  <2>3. at[m] = 1 /\ at' = at
    BY <1>1, <1>10 DEF IInv, Fresh, Early, MachineWrite
  <2>4. CASE pc' = [pc EXCEPT ![m] = "saved"]
    BY <1>1, <2>4 DEF Told, TypeOK
  <2>5. CASE cell[a].source = "human" /\ cell' = cell
    <3>1. pc'[m] # "conflict"
      BY <1>1, <1>10 DEF MachineWrite, TypeOK
    <3>2. 1 \in DOMAIN task'[m] /\ task'[m][1].attr = a
      BY <2>2
    <3>3. QED
      BY <2>3, <2>5, <3>1, <3>2 DEF Told
  <2>6. QED
    BY <2>1, <2>4, <2>5
<1>11. ASSUME MachineSelect(m) PROVE Told(m)'
  <2>1. pc[m] = "select" /\ UNCHANGED <<cell, task, at>>
    BY <1>11 DEF MachineSelect, Go, table, local
  <2>2. CurrentTask(m) = task[m][1] /\ cell[task[m][1].attr].source = "human"
    BY <2>1 DEF Told, CurrentTask
  <2>3. pc'[m] = "skipped"
    BY <1>1, <1>11, <2>2 DEF MachineSelect, Go, TypeOK
  <2>4. QED
    BY <2>1, <2>3 DEF Told
<1>12. CASE UNCHANGED vars
  BY <1>12 DEF vars, table, local, Told
<1>13. QED
  BY Steps, <1>3, <1>4, <1>5, <1>6, <1>7, <1>8, <1>9, <1>10, <1>11, <1>12

(* A machine told that a human's edit held it off is told the truth.       *)
THEOREM ReasonIsTrue == Spec => []SkippedIsManual
<1> DEFINE AllTold == \A m \in Machines : Told(m)
<1>1. Init => AllTold
  BY Kinds DEF Init, Told
<1>2. IInv /\ AllTold /\ [Next]_vars => AllTold'
  BY ToldStep
<1>3. AllTold => SkippedIsManual
  BY DEF Told, SkippedIsManual, CurrentTask
<1> HIDE DEF AllTold
<1>4. QED
  BY <1>1, <1>2, <1>3, Invariance, PTL DEF Spec

----------------------------------------------------------------------------
(* The batches are atomic.                                                  *)

\* The i-th write of e clashes, on top of those before it and of the cells.
Trips(e, i) ==
    LET w == task[e][i]
    IN  Abstract!Stale(Abstract!Made(task[e], i, w.attr, cell[w.attr]), w)

(* A transaction has its batch when it begins, has locked the rows of the  *)
(* writes it has passed, and has noticed whether one of them clashed; if   *)
(* none did, its drafts are what these writes make of the cells.           *)
Playing(e) ==
    /\ pc[e] \in Early => task[e] = <<>> /\ ~clashed[e]
    /\ pc[e] = "write" =>
          /\ task[e] # <<>> /\ at[e] <= Len(task[e]) + 1
          /\ \A i \in DOMAIN task[e] : i < at[e] => owner[task[e][i].attr] = e
          /\ clashed[e] <=> \E i \in DOMAIN task[e] : i < at[e] /\ Trips(e, i)
          /\ ~clashed[e] => \A a \in Attr : owner[a] = e =>
                draft[a] = Abstract!Made(task[e], at[e], a, cell[a])

BatchInv == IInv /\ \A e \in Transaction : Playing(e)

LEMMA OneCardinality == \A S : Abstract!Cardinality(S) = Cardinality(S)
  BY DEF Abstract!Cardinality, Cardinality

LEMMA MadeOther ==
    ASSUME NEW b \in Seq(Write), NEW n \in Nat, NEW a, NEW old,
           n \in DOMAIN b => b[n].attr # a
    PROVE  Abstract!Made(b, n + 1, a, old) = Abstract!Made(b, n, a, old)
<1>1. Abstract!Before(b, n + 1, a) = Abstract!Before(b, n, a)
  BY DEF Abstract!Before
<1> QED
  BY <1>1 DEF Abstract!Made

LEMMA MadeNext ==
    ASSUME NEW b \in Seq(Write), NEW n \in DOMAIN b, NEW old \in CellSet
    PROVE  Abstract!Made(b, n + 1, b[n].attr, old)
              = Written(Abstract!Made(b, n, b[n].attr, old), b[n].value, "human")
<1> DEFINE a == b[n].attr
           mine == Abstract!Before(b, n, a)
           more == Abstract!Before(b, n + 1, a)
           Last(S) == CHOOSE i \in S : \A j \in S : j <= i
<1>1. n \in Nat /\ DOMAIN b = 1..Len(b) /\ Len(b) \in Nat
  OBVIOUS
<1>2. /\ more = mine \cup {n} /\ n \notin mine
      /\ mine \subseteq 1..Len(b) /\ \A i \in mine : i < n
  BY <1>1 DEF Abstract!Before
<1>3. IsFiniteSet(mine) /\ Cardinality(mine) \in Nat
  <2> HIDE DEF mine
  <2>1. IsFiniteSet(1..Len(b))
    BY <1>1, FS_Interval
  <2> QED
    BY <1>2, <2>1, FS_Subset, FS_CardinalityType
<1>4. Cardinality(more) = Cardinality(mine) + 1
  BY <1>2, <1>3, FS_AddElement
<1>5. Last(more) = n
  <2>1. n \in more /\ \A j \in more : j <= n
    BY <1>1, <1>2
  <2>2. \A i \in more : (\A j \in more : j <= i) => i = n
    BY <1>1, <1>2
  <2> QED
    BY <2>1, <2>2
<1>6. old.version \in Int
  BY VersionType
<1>7. Abstract!Made(b, n + 1, a, old)
        = [value |-> b[n].value, version |-> old.version + Cardinality(more),
           source |-> "human"]
  BY <1>2, <1>5, OneCardinality DEF Abstract!Made
<1>8. Abstract!Made(b, n, a, old).version = old.version + Cardinality(mine)
  <2>1. CASE mine = {}
    BY <1>6, <2>1, FS_EmptySet, OneCardinality DEF Abstract!Made
  <2>2. CASE mine # {}
    BY <2>2, OneCardinality DEF Abstract!Made
  <2> QED
    BY <2>1, <2>2
<1> HIDE DEF mine, more
<1>9. (old.version + Cardinality(mine)) + 1 = old.version + Cardinality(more)
  BY <1>3, <1>4, <1>6
<1> QED
  BY <1>7, <1>8, <1>9 DEF Written

(* What a transaction reads of a row is what its writes so far have made.  *)
LEMMA RowIsMade ==
    ASSUME BatchInv, NEW e \in Transaction, pc[e] = "write", ~clashed[e],
           NEW a \in Attr
    PROVE  Row(e, a) = Abstract!Made(task[e], at[e], a, cell[a])
<1>1. /\ Playing(e)
      /\ \A i \in DOMAIN task[e] : i < at[e] => owner[task[e][i].attr] = e
  BY DEF BatchInv, Playing
<1>2. CASE owner[a] = e
  BY <1>1, <1>2 DEF Playing, Row
<1>3. CASE owner[a] # e
  <2>1. Abstract!Before(task[e], at[e], a) = {}
    BY <1>1, <1>3 DEF Abstract!Before
  <2> QED
    BY <1>3, <2>1 DEF Row, Abstract!Made
<1> QED
  BY <1>2, <1>3

(* A step of another call leaves the rows that a transaction has locked.   *)
Leaves(e) ==
    /\ pc'[e] = pc[e] /\ task'[e] = task[e] /\ at'[e] = at[e]
    /\ clashed'[e] = clashed[e]
    /\ \A a \in Attr :
          /\ owner'[a] = e <=> owner[a] = e
          /\ owner[a] = e => draft'[a] = draft[a] /\ cell'[a] = cell[a]

LEMMA LeavesPlaying ==
    ASSUME TypeOK, NEW e \in Transaction, Playing(e), Leaves(e)
    PROVE  Playing(e)'
<1>1. CASE pc[e] # "write"
  BY <1>1 DEF Playing, Leaves
<1>2. CASE pc[e] = "write"
  <2>1. task[e] \in Seq(Write)
    BY Kinds DEF TypeOK
  <2>2. ASSUME NEW i \in DOMAIN task[e] PROVE task[e][i].attr \in Attr
    <3>1. task[e][i] \in Write
      BY <2>1, ElementOfSeq
    <3> QED
      BY <3>1 DEF Write
  <2>3. \A i \in DOMAIN task[e] : i < at[e] => owner[task[e][i].attr] = e
    BY <1>2 DEF Playing
  <2>4. \A i \in DOMAIN task[e] : i < at[e] => (Trips(e, i)' <=> Trips(e, i))
    BY <2>2, <2>3 DEF Leaves, Trips
  <2>5. \A i \in DOMAIN task[e] : i < at[e] => owner'[task[e][i].attr] = e
    BY <2>2, <2>3 DEF Leaves
  <2>6. clashed[e] <=> \E i \in DOMAIN task[e] : i < at[e] /\ Trips(e, i)
    BY <1>2 DEF Playing
  <2>7. clashed'[e] <=> \E i \in DOMAIN task'[e] : i < at'[e] /\ Trips(e, i)'
    BY <2>4, <2>6 DEF Leaves
  <2>8. ~clashed'[e] => \A a \in Attr : owner'[a] = e =>
            draft'[a] = Abstract!Made(task'[e], at'[e], a, cell'[a])
    BY <1>2 DEF Playing, Leaves
  <2> QED
    BY <1>2, <2>5, <2>7, <2>8 DEF Playing, Leaves, Early
<1> QED
  BY <1>1, <1>2

LEMMA OthersLeave ==
    ASSUME IInv, NEW e \in Edit, NEW f \in Transaction, f # e,
           \/ Aside(e)
           \/ e \in Tools /\ Snapshot(e)
           \/ e \in Transaction /\ (WriteInTransaction(e) \/ Ends(e))
    PROVE  Leaves(f)
<1>1. f \in Edit \ {e} /\ f # Nobody /\ TypeOK
  BY Kinds DEF IInv
<1>2. CASE Aside(e)
  BY <1>1, <1>2 DEF Aside, Leaves
<1>3. CASE Snapshot(e)
  BY <1>1, <1>3 DEF Snapshot, Go, Leaves, TypeOK, table, locks
<1>4. CASE e \in Transaction /\ WriteInTransaction(e)
  <2> DEFINE w == CurrentTask(e)
  <2>1. /\ owner[w.attr] \in {Nobody, e} /\ owner' = [owner EXCEPT ![w.attr] = e]
        /\ \A a \in Attr : a # w.attr => draft'[a] = draft[a]
        /\ UNCHANGED <<cell, pc, task, seen>>
    BY <1>1, <1>4 DEF WriteInTransaction, table, TypeOK
  <2>2. at'[f] = at[f] /\ clashed'[f] = clashed[f]
    BY <1>1, <1>4 DEF WriteInTransaction, TypeOK
  <2>3. owner \in [Attr -> Transaction \cup {Nobody}]
    BY <1>1 DEF TypeOK
  <2> HIDE DEF w
  <2>4. ASSUME NEW a \in Attr
        PROVE  /\ owner'[a] = f <=> owner[a] = f
               /\ owner[a] = f => draft'[a] = draft[a]
    BY <1>1, <2>1, <2>3
  <2> QED
    BY <2>1, <2>2, <2>4 DEF Leaves
<1>5. CASE Ends(e)
  BY <1>1, <1>5 DEF Ends, Leaves
<1> QED
  BY <1>2, <1>3, <1>4, <1>5

(* A transaction begins, with a batch of at least one write.               *)
LEMMA BeginPlaying ==
    ASSUME IInv, NEW e \in Transaction, pc[e] \in Early, Playing(e),
           pc'[e] = "write", task'[e] \in Seq(Write) \ {<<>>},
           UNCHANGED <<owner, draft, at, clashed>>
    PROVE  Playing(e)'
<1>1. e \in Edit /\ e # Nobody /\ TypeOK
  BY Kinds DEF IInv
<1>2. at'[e] = 1 /\ ~clashed'[e]
  BY <1>1 DEF IInv, Fresh, Playing
<1>3. \A a \in Attr : owner'[a] # e
  BY <1>1 DEF IInv, Locked, Early
<1>4. Len(task'[e]) \in Nat /\ \A i \in DOMAIN task'[e] : ~(i < 1)
  OBVIOUS
<1> QED
  BY <1>2, <1>3, <1>4 DEF Playing, Early

(* One more write of the batch.                                            *)
LEMMA WritePlaying ==
    ASSUME BatchInv, NEW e \in Transaction, WriteInTransaction(e)
    PROVE  Playing(e)'
<1> DEFINE w == CurrentTask(e)
           n == at[e]
           b == task[e]
           old == Row(e, w.attr)
<1>1. e \in Edit /\ e # Nobody /\ TypeOK /\ Playing(e)
  BY Kinds DEF BatchInv, IInv
<1>2. /\ pc[e] = "write" /\ n <= Len(b)
      /\ owner' = [owner EXCEPT ![w.attr] = e]
      /\ UNCHANGED <<cell, pc, task, seen>>
  BY DEF WriteInTransaction, table
<1>3. w \in Write /\ n \in DOMAIN b /\ w = b[n] /\ b \in Seq(Write) /\ n \in Nat
  BY <1>1, <1>2, CurrentType DEF CurrentTask, TypeOK
<1>4. w.attr \in Attr /\ w.value \in Value
  BY <1>3 DEF Write
<1>5. /\ at'[e] = n + 1
      /\ clashed'[e] <=> clashed[e] \/ VersionGuard(old, w)
      /\ draft'[w.attr] = IF VersionGuard(old, w) THEN old
                          ELSE Written(old, w.value, "human")
      /\ \A a \in Attr : a # w.attr => draft'[a] = draft[a]
      /\ owner'[w.attr] = e
      /\ \A a \in Attr : a # w.attr => owner'[a] = owner[a]
  BY <1>1, <1>4 DEF WriteInTransaction, TypeOK
<1>6. ~clashed[e] => (VersionGuard(old, w) <=> Trips(e, n))
  <2>1. SUFFICES ASSUME ~clashed[e] PROVE VersionGuard(old, w) <=> Trips(e, n)
    OBVIOUS
  <2>2. old = Abstract!Made(b, n, w.attr, cell[w.attr])
    BY <1>2, <1>4, <2>1, RowIsMade
  <2> QED
    BY <1>3, <2>2 DEF Trips, VersionGuard, Abstract!Stale
<1>7. clashed[e] <=> \E i \in DOMAIN b : i < n /\ Trips(e, i)
  BY <1>1, <1>2 DEF Playing
<1> HIDE DEF w, old
<1>8. clashed'[e] <=> \E i \in DOMAIN b : i < n + 1 /\ Trips(e, i)
  <2>1. \A i \in DOMAIN b : i < n + 1 <=> i < n \/ i = n
    BY <1>3
  <2> QED
    BY <1>3, <1>5, <1>6, <1>7, <2>1
<1>9. \A i \in DOMAIN b : Trips(e, i)' <=> Trips(e, i)
  BY <1>2 DEF Trips
<1>10. ASSUME NEW i \in DOMAIN b, i < n + 1 PROVE owner'[b[i].attr] = e
  <2>1. i < n \/ i = n
    BY <1>3, <1>10
  <2>2. b[i] \in Write
    BY <1>3, ElementOfSeq
  <2>3. b[i].attr \in Attr
    BY <2>2 DEF Write
  <2>4. i < n => owner[b[i].attr] = e
    BY <1>1, <1>2 DEF Playing
  <2> QED
    BY <1>3, <1>5, <2>1, <2>3, <2>4
<1>11. ASSUME ~clashed'[e], NEW a \in Attr, owner'[a] = e
       PROVE  draft'[a] = Abstract!Made(b, n + 1, a, cell[a])
  <2>1. ~clashed[e] /\ ~VersionGuard(old, w)
    BY <1>5, <1>11
  <2>2. CASE a = w.attr
    <3>1. old = Abstract!Made(b, n, a, cell[a])
      BY <1>2, <1>4, <2>1, <2>2, RowIsMade DEF old
    <3>2. cell[a] \in CellSet
      BY <1>1 DEF TypeOK
    <3>3. Abstract!Made(b, n + 1, a, cell[a])
            = Written(Abstract!Made(b, n, a, cell[a]), b[n].value, "human")
      BY <1>3, <2>2, <3>2, MadeNext
    <3> QED
      BY <1>3, <1>5, <2>1, <2>2, <3>1, <3>3
  <2>3. CASE a # w.attr
    <3>1. owner[a] = e /\ draft'[a] = draft[a]
      BY <1>5, <1>11, <2>3
    <3>2. draft[a] = Abstract!Made(b, n, a, cell[a])
      BY <1>1, <1>2, <2>1, <3>1 DEF Playing
    <3>3. Abstract!Made(b, n + 1, a, cell[a]) = Abstract!Made(b, n, a, cell[a])
      BY <1>3, <2>3, MadeOther
    <3> QED
      BY <3>1, <3>2, <3>3
  <2> QED
    BY <2>2, <2>3
<1>12. b # <<>> /\ n + 1 <= Len(b) + 1
  BY <1>1, <1>2, <1>3 DEF Playing
<1> QED
  BY <1>2, <1>5, <1>8, <1>9, <1>10, <1>11, <1>12 DEF Playing, Early

LEMMA PlanHasWrites ==
    ASSUME NEW plan \in Plans, NEW cells \in [Attr -> CellSet]
    PROVE  PinnedTask(plan, cells) \in Seq(Write) \ {<<>>}
<1>1. PinnedTask(plan, cells) \in Seq(Write) /\ DOMAIN PinnedTask(plan, cells) = DOMAIN plan
  BY PinnedTaskType
<1>2. plan \in Seq([attr : Editable, value : Value]) /\ plan # <<>>
  BY RecordCellsAssumption
<1>3. 1 \in DOMAIN plan
  BY <1>2
<1>4. DOMAIN <<>> = {}
  OBVIOUS
<1> QED
  BY <1>1, <1>3, <1>4

LEMMA BatchStep == BatchInv /\ [Next]_vars => BatchInv'
<1> SUFFICES ASSUME BatchInv, [Next]_vars PROVE BatchInv'
  OBVIOUS
<1>1. IInv /\ IInv' /\ TypeOK /\ \A e \in Transaction : Playing(e)
  BY InvStep DEF BatchInv, IInv
<1>t. /\ pc \in [Edit -> Done \cup {"idle", "ensure", "insert", "snapshot", "write", "select"}]
      /\ task \in [Edit -> Seq(Write)] /\ clashed \in [Edit -> BOOLEAN]
      /\ cell \in [Attr -> CellSet]
  BY <1>1 DEF TypeOK
<1>2. ASSUME NEW e \in Edit,
             \/ Aside(e)
             \/ e \in Tools /\ Snapshot(e)
             \/ e \in Transaction /\ (WriteInTransaction(e) \/ Ends(e)),
             e \in Transaction => Playing(e)'
      PROVE  BatchInv'
  <2>1. ASSUME NEW f \in Transaction PROVE Playing(f)'
    <3>1. CASE f = e
      BY <1>2, <3>1
    <3>2. CASE f # e
      BY <1>1, <1>2, <3>2, OthersLeave, LeavesPlaying
    <3> QED
      BY <3>1, <3>2
  <2> QED
    BY <1>1, <2>1 DEF BatchInv
<1>3. ASSUME NEW e \in Updates, RefuseUpdate(e) PROVE BatchInv'
  <2>1. pc'[e] = "refused"
    BY <1>3, <1>t, Kinds DEF RefuseUpdate, Go
  <2>2. Playing(e)' /\ e \in Edit
    BY <2>1, Kinds DEF Playing, Early
  <2>3. Aside(e)
    BY <1>1, <1>3, AsideActions
  <2> QED
    BY <1>2, <2>2, <2>3
<1>4. ASSUME NEW e \in Updates, BeginUpdate(e) PROVE BatchInv'
  <2>1. PICK b \in Batches : task' = [task EXCEPT ![e] = b]
    BY <1>4 DEF BeginUpdate
  <2>2. b \in Seq(Write) \ {<<>>}
    BY RecordCellsAssumption
  <2>3. pc[e] = "idle" /\ pc'[e] = "write" /\ task'[e] = b
        /\ UNCHANGED <<owner, draft, at, clashed>>
    BY <1>4, <1>t, <2>1, Kinds DEF BeginUpdate, Go, locks
  <2>4. Playing(e)'
    BY <1>1, <2>2, <2>3, BeginPlaying, Kinds DEF Early
  <2>5. Aside(e) /\ e \in Edit
    BY <1>1, <1>4, AsideActions, Kinds
  <2> QED
    BY <1>2, <2>4, <2>5
<1>5. ASSUME NEW e \in Transaction, WriteInTransaction(e) PROVE BatchInv'
  BY <1>2, <1>5, WritePlaying, Kinds
<1>6. ASSUME NEW e \in Transaction, Commit(e) \/ RollBack(e) \/ Abort(e) PROVE BatchInv'
  <2>1. Ends(e)
    BY <1>1, <1>6, EndActions
  <2>2. Playing(e)'
    BY <2>1 DEF Ends, Playing
  <2> QED
    BY <1>2, <2>1, <2>2, Kinds
<1>7. ASSUME NEW e \in Creates, \/ FindRecord(e) \/ WriteOnCreate(e)
                                \/ StopCreate(e) \/ EndCreate(e) \/ InsertRecord(e)
      PROVE  BatchInv'
  <2>1. Aside(e)
    BY <1>1, <1>7, AsideActions
  <2>2. e \in Edit /\ e \notin Transaction
    BY Kinds
  <2> QED
    BY <1>2, <2>1, <2>2
<1>8. ASSUME NEW e \in Tools, FindForTool(e) \/ FindRecord(e) \/ InsertRecord(e)
      PROVE  BatchInv'
  <2>1. /\ pc[e] \in Early /\ pc'[e] \in Early \cup {"duplicate"}
        /\ task'[e] = task[e] /\ clashed' = clashed
    BY <1>8, <1>t, Kinds DEF FindForTool, FindRecord, InsertRecord, Go, Early, local
  <2>2. Playing(e)'
    BY <1>1, <2>1, Kinds DEF Playing, Early
  <2>3. Aside(e)
    BY <1>1, <1>8, AsideActions
  <2> QED
    BY <1>2, <2>2, <2>3, Kinds
<1>9. ASSUME NEW e \in Tools, Snapshot(e) PROVE BatchInv'
  <2>1. PICK plan \in Plans : task' = [task EXCEPT ![e] = PinnedTask(plan, cell)]
    BY <1>9 DEF Snapshot
  <2>2. PinnedTask(plan, cell) \in Seq(Write) \ {<<>>}
    BY <1>t, PlanHasWrites
  <2>3. pc[e] = "snapshot" /\ pc'[e] = "write" /\ task'[e] = PinnedTask(plan, cell)
        /\ UNCHANGED <<owner, draft, at, clashed>>
    BY <1>9, <1>t, <2>1, Kinds DEF Snapshot, Go, locks
  <2>4. Playing(e)'
    BY <1>1, <2>2, <2>3, BeginPlaying, Kinds DEF Early
  <2> QED
    BY <1>2, <1>9, <2>4, Kinds
<1>10. ASSUME NEW e \in Machines, MachineWrite(e) \/ MachineSelect(e) PROVE BatchInv'
  <2>1. Aside(e)
    BY <1>1, <1>10, AsideActions
  <2>2. e \in Edit /\ e \notin Transaction
    BY Kinds
  <2> QED
    BY <1>2, <2>1, <2>2
<1>11. CASE UNCHANGED vars
  <2>1. \A f \in Transaction : Leaves(f)
    BY <1>11 DEF vars, table, locks, local, Leaves
  <2> QED
    BY <1>1, <2>1, LeavesPlaying DEF BatchInv
<1> QED
  BY Steps, <1>3, <1>4, <1>5, <1>6, <1>7, <1>8, <1>9, <1>10, <1>11

LEMMA BatchInvariance == Spec => []BatchInv
<1>1. Init => BatchInv
  <2> SUFFICES ASSUME Init PROVE BatchInv
    OBVIOUS
  <2>1. \A e \in Transaction : pc[e] = "idle" /\ task[e] = <<>> /\ ~clashed[e]
    BY Kinds DEF Init
  <2> QED
    BY <2>1, InvStart DEF BatchInv, Playing
<1> QED
  BY <1>1, BatchStep, PTL DEF Spec

----------------------------------------------------------------------------
(* The mapped variables, by name.                                          *)
Submitted == [e \in Edit |-> IF e \in Transaction THEN task[e] ELSE <<>>]
Outcomes == [e \in Edit |-> Outcome(e)]

mapped == <<cell, Submitted, Outcomes>>

LEMMA SameOutcome ==
    ASSUME NEW e \in Edit, pc'[e] = pc[e] PROVE Outcome(e)' = Outcome(e)
  BY DEF Outcome

(* Only the call that takes a step can submit, and come to an outcome.     *)
LEMMA OthersMapped ==
    ASSUME NEW e \in Edit, \A f \in Edit \ {e} : pc'[f] = pc[f] /\ task'[f] = task[f]
    PROVE  /\ \A f \in Edit \ {e} : Submitted'[f] = Submitted[f]
           /\ Outcomes' = [Outcomes EXCEPT ![e] = Outcome(e)']
           /\ e \notin Transaction \/ task'[e] = task[e] => Submitted' = Submitted
           /\ Submitted' = [Submitted EXCEPT ![e] = Submitted'[e]]
           /\ Outcome(e)' = Outcome(e) => Outcomes' = Outcomes
<1>1. \A f \in Edit \ {e} : Outcome(f)' = Outcome(f)
  BY SameOutcome
<1> QED
  BY <1>1 DEF Submitted, Outcomes

(* What ends without an effect is a failure to the caller, or nothing.     *)
LEMMA FailMaps ==
    ASSUME NEW e \in Edit, cell' = cell, task' = task,
           \A f \in Edit \ {e} : pc'[f] = pc[f],
           e \in Transaction => Outcome(e) = "none" /\ Outcome(e)' \in {"none", "failed"}
    PROVE  Abstract!Fail(e) \/ UNCHANGED mapped
<1>1. /\ Outcomes' = [Outcomes EXCEPT ![e] = Outcome(e)']
      /\ Submitted' = Submitted
      /\ Outcome(e)' = Outcome(e) => Outcomes' = Outcomes
  BY OthersMapped
<1>2. CASE Outcome(e)' = Outcome(e)
  BY <1>1, <1>2 DEF mapped
<1>3. CASE Outcome(e)' # Outcome(e)
  <2>1. e \in Transaction
    BY <1>3 DEF Outcome
  <2> QED
    BY <1>1, <1>3, <2>1 DEF Abstract!Fail, Submitted, Outcomes
<1> QED
  BY <1>2, <1>3

LEMMA ForceMaps ==
    ASSUME NEW a \in Attr, NEW v \in Value, NEW source \in {"human", "machine"},
           source = "machine" => cell[a].source # "human",
           cell' = [cell EXCEPT ![a] = Written(@, v, source)],
           Submitted' = Submitted, Outcomes' = Outcomes
    PROVE  Abstract!Force
<1>1. cell' = [cell EXCEPT ![a] = Abstract!Written(@, v, source)]
  BY DEF Written, Abstract!Written
<1> QED
  BY <1>1 DEF Abstract!Force, Submitted, Outcomes

LEMMA SubmitMaps ==
    ASSUME TypeOK, NEW e \in Transaction, pc[e] \in Early, pc'[e] = "write", Playing(e),
           task'[e] \in Seq(Write) \ {<<>>}, cell' = cell,
           \A f \in Edit \ {e} : pc'[f] = pc[f] /\ task'[f] = task[f]
    PROVE  Abstract!Submit(e)
<1>1. e \in Edit
  BY Kinds
<1>2. Outcome(e) = "none" /\ Outcome(e)' = "none"
  BY DEF Outcome, Early
<1>3. Submitted[e] = <<>> /\ Submitted'[e] \in Seq(Write) \ {<<>>}
  BY <1>1 DEF Playing, Submitted
<1>4. Submitted' = [Submitted EXCEPT ![e] = Submitted'[e]] /\ Outcomes' = Outcomes
  BY <1>1, <1>2, OthersMapped
<1> QED
  BY <1>1, <1>2, <1>3, <1>4 DEF Abstract!Submit, Submitted, Outcomes

(* A commit is the whole batch, judged against the cells it finds then;    *)
(* a rollback is its conflict with them.                                   *)
LEMMA EndMaps ==
    ASSUME BatchInv, NEW e \in Transaction, Commit(e) \/ RollBack(e)
    PROVE  Abstract!Save(e) \/ Abstract!Conflict(e)
<1>1. e \in Edit /\ TypeOK /\ Playing(e)
  BY Kinds DEF BatchInv, IInv
<1>2. /\ pc[e] = "write" /\ at[e] > Len(task[e]) /\ task' = task
      /\ \A f \in Edit \ {e} : pc'[f] = pc[f]
  BY <1>1 DEF Commit, RollBack, Go, local, TypeOK
<1>3. task[e] # <<>> /\ at[e] <= Len(task[e]) + 1
  BY <1>1, <1>2 DEF Playing
<1>4. task[e] \in Seq(Write) /\ at[e] \in Nat
  BY <1>1 DEF TypeOK
<1>5. at[e] = Len(task[e]) + 1 /\ \A i \in DOMAIN task[e] : i < at[e]
  BY <1>2, <1>3, <1>4
<1>6. clashed[e] <=> Abstract!Clashes(task[e], cell)
  BY <1>1, <1>2, <1>5 DEF Playing, Trips, Abstract!Clashes
<1>7. /\ Submitted[e] = task[e] /\ Outcomes[e] = "none"
      /\ Submitted' = Submitted /\ Outcomes' = [Outcomes EXCEPT ![e] = Outcome(e)']
  BY <1>1, <1>2, OthersMapped DEF Submitted, Outcomes, Outcome
<1>8. CASE Commit(e)
  <2>1. ~clashed[e] /\ cell' = [a \in Attr |-> Row(e, a)] /\ pc'[e] = "saved"
    BY <1>1, <1>8 DEF Commit, Go, TypeOK
  <2>2. \A a \in Attr :
            Row(e, a) = Abstract!Made(task[e], Len(task[e]) + 1, a, cell[a])
    BY <1>2, <1>5, <2>1, RowIsMade
  <2>3. cell' = Abstract!Played(task[e], cell)
    BY <2>1, <2>2 DEF Abstract!Played
  <2>4. Outcome(e)' = "saved"
    BY <2>1 DEF Outcome
  <2> QED
    BY <1>3, <1>6, <1>7, <2>1, <2>3, <2>4 DEF Abstract!Save, Submitted, Outcomes
<1>9. CASE RollBack(e)
  <2>1. clashed[e] /\ cell' = cell /\ pc'[e] = "conflict"
    BY <1>1, <1>9 DEF RollBack, Go, TypeOK, table
  <2>2. Outcome(e)' = "conflict"
    BY <2>1 DEF Outcome
  <2> QED
    BY <1>3, <1>6, <1>7, <2>1, <2>2 DEF Abstract!Conflict, Submitted, Outcomes
<1> QED
  BY <1>8, <1>9

LEMMA NextMaps ==
    ASSUME BatchInv, [Next]_vars
    PROVE  Abstract!Next \/ UNCHANGED mapped
<1>1. TypeOK /\ \A e \in Transaction : Playing(e)
  BY DEF BatchInv, IInv
<1>t. /\ pc \in [Edit -> Done \cup {"idle", "ensure", "insert", "snapshot", "write", "select"}]
      /\ task \in [Edit -> Seq(Write)] /\ cell \in [Attr -> CellSet]
  BY <1>1 DEF TypeOK
<1>2. ASSUME NEW e \in Edit, Abstract!Fail(e) \/ UNCHANGED mapped
      PROVE  Abstract!Next \/ UNCHANGED mapped
  BY <1>2 DEF Abstract!Next
<1>3. ASSUME NEW e \in Updates, RefuseUpdate(e) PROVE Abstract!Next \/ UNCHANGED mapped
  <2>1. /\ cell' = cell /\ task' = task /\ \A f \in Edit \ {e} : pc'[f] = pc[f]
        /\ pc[e] = "idle" /\ pc'[e] = "refused"
    BY <1>3, <1>t, Kinds DEF RefuseUpdate, Go, table, local
  <2>2. Outcome(e) = "none" /\ Outcome(e)' \in {"none", "failed"}
    BY <2>1 DEF Outcome
  <2> QED
    BY <1>2, <2>1, <2>2, FailMaps, Kinds
<1>4. ASSUME NEW e \in Updates, BeginUpdate(e) PROVE Abstract!Next
  <2>1. PICK b \in Batches : task' = [task EXCEPT ![e] = b]
    BY <1>4 DEF BeginUpdate
  <2>2. b \in Seq(Write) \ {<<>>}
    BY RecordCellsAssumption
  <2>3. /\ pc[e] = "idle" /\ pc'[e] = "write" /\ task'[e] = b /\ cell' = cell
        /\ \A f \in Edit \ {e} : pc'[f] = pc[f] /\ task'[f] = task[f]
    BY <1>4, <1>t, <2>1, Kinds DEF BeginUpdate, Go, table
  <2>4. Abstract!Submit(e)
    BY <1>1, <2>2, <2>3, SubmitMaps, Kinds DEF Early
  <2> QED
    BY <2>4, Kinds DEF Abstract!Next
<1>5. ASSUME NEW e \in Transaction, WriteInTransaction(e) PROVE UNCHANGED mapped
  <2>1. UNCHANGED <<cell, pc, task>>
    BY <1>5 DEF WriteInTransaction, table
  <2> QED
    BY <2>1 DEF mapped, Submitted, Outcomes, Outcome
<1>6. ASSUME NEW e \in Transaction, Commit(e) \/ RollBack(e) PROVE Abstract!Next
  BY <1>6, EndMaps, Kinds DEF Abstract!Next
<1>7. ASSUME NEW e \in Transaction, Abort(e) PROVE Abstract!Next \/ UNCHANGED mapped
  <2>1. /\ cell' = cell /\ task' = task /\ \A f \in Edit \ {e} : pc'[f] = pc[f]
        /\ pc[e] = "write" /\ pc'[e] = "lost"
    BY <1>7, <1>t, Kinds DEF Abort, Go, table, local
  <2>2. Outcome(e) = "none" /\ Outcome(e)' \in {"none", "failed"}
    BY <2>1 DEF Outcome
  <2> QED
    BY <1>2, <2>1, <2>2, FailMaps, Kinds
<1>8. ASSUME NEW e \in Edit, e \notin Transaction, cell' = cell,
             \A f \in Edit \ {e} : pc'[f] = pc[f] /\ task'[f] = task[f]
      PROVE  UNCHANGED mapped
  <2>1. Outcome(e)' = Outcome(e)
    BY <1>8 DEF Outcome
  <2> QED
    BY <1>8, <2>1, OthersMapped DEF mapped
<1>9. ASSUME NEW e \in Creates, \/ FindRecord(e) \/ StopCreate(e)
                                \/ EndCreate(e) \/ InsertRecord(e)
      PROVE  UNCHANGED mapped
  <2>1. cell' = cell /\ \A f \in Edit \ {e} : pc'[f] = pc[f] /\ task'[f] = task[f]
    BY <1>9, <1>t, Kinds DEF FindRecord, StopCreate, EndCreate, InsertRecord,
       Go, table, local
  <2> QED
    BY <1>8, <2>1, Kinds
<1>10. ASSUME NEW e \in Creates, WriteOnCreate(e) PROVE Abstract!Next
  <2> DEFINE w == CurrentTask(e)
  <2>1. w \in Write
    BY <1>1, <1>10, CurrentType, Kinds DEF WriteOnCreate
  <2>2. w.attr \in Attr /\ w.value \in Value
    BY <2>1 DEF Write
  <2>3. cell' = [cell EXCEPT ![w.attr] = Written(@, w.value, "human")]
        /\ UNCHANGED <<pc, task>>
    BY <1>10 DEF WriteOnCreate
  <2>4. Submitted' = Submitted /\ Outcomes' = Outcomes
    BY <2>3 DEF Submitted, Outcomes, Outcome
  <2> HIDE DEF w
  <2> QED
    BY <2>2, <2>3, <2>4, ForceMaps DEF Abstract!Next
<1>11. ASSUME NEW e \in Tools, FindForTool(e) \/ FindRecord(e) \/ InsertRecord(e)
       PROVE  Abstract!Next \/ UNCHANGED mapped
  <2>1. /\ cell' = cell /\ task' = task /\ \A f \in Edit \ {e} : pc'[f] = pc[f]
        /\ pc[e] \in Early /\ pc'[e] \in Early \cup {"duplicate"}
    BY <1>11, <1>t, Kinds DEF FindForTool, FindRecord, InsertRecord, Go, Early,
       table, local
  <2>2. Outcome(e) = "none" /\ Outcome(e)' \in {"none", "failed"}
    BY <2>1 DEF Outcome, Early
  <2> QED
    BY <1>2, <2>1, <2>2, FailMaps, Kinds
<1>12. ASSUME NEW e \in Tools, Snapshot(e) PROVE Abstract!Next
  <2>1. PICK plan \in Plans : task' = [task EXCEPT ![e] = PinnedTask(plan, cell)]
    BY <1>12 DEF Snapshot
  <2>2. PinnedTask(plan, cell) \in Seq(Write) \ {<<>>}
    BY <1>t, PlanHasWrites
  <2>3. /\ pc[e] = "snapshot" /\ pc'[e] = "write" /\ task'[e] = PinnedTask(plan, cell)
        /\ cell' = cell
        /\ \A f \in Edit \ {e} : pc'[f] = pc[f] /\ task'[f] = task[f]
    BY <1>12, <1>t, <2>1, Kinds DEF Snapshot, Go, table
  <2>4. Abstract!Submit(e)
    BY <1>1, <2>2, <2>3, SubmitMaps, Kinds DEF Early
  <2> QED
    BY <2>4, Kinds DEF Abstract!Next
<1>13. ASSUME NEW e \in Machines, MachineWrite(e)
       PROVE  Abstract!Next \/ UNCHANGED mapped
  <2>1. PICK a \in Attr, v \in Value :
            /\ task' = [task EXCEPT ![e] =
                            <<[attr |-> a, value |-> v, expected |-> Forced]>>]
            /\ IF MachineGuard(cell[a])
               THEN cell' = cell
               ELSE cell' = [cell EXCEPT ![a] = Written(@, v, "machine")]
    BY <1>13 DEF MachineWrite
  <2>2. e \in Edit /\ e \notin Transaction
        /\ \A f \in Edit \ {e} : pc'[f] = pc[f] /\ task'[f] = task[f]
    BY <1>13, <1>t, <2>1, Kinds DEF MachineWrite
  <2>3. CASE cell' = cell
    BY <1>8, <2>2, <2>3
  <2>4. CASE cell' # cell
    <3>1. Outcome(e)' = Outcome(e)
      BY <2>2 DEF Outcome
    <3>2. Submitted' = Submitted /\ Outcomes' = Outcomes
      BY <2>2, <3>1, OthersMapped
    <3> QED
      BY <2>1, <2>4, <3>2, ForceMaps DEF MachineGuard, Abstract!Next
  <2> QED
    BY <2>3, <2>4
<1>14. ASSUME NEW e \in Machines, MachineSelect(e) PROVE UNCHANGED mapped
  <2>1. cell' = cell /\ \A f \in Edit \ {e} : pc'[f] = pc[f] /\ task'[f] = task[f]
    BY <1>14, <1>t, Kinds DEF MachineSelect, Go, table, local
  <2> QED
    BY <1>8, <2>1, Kinds
<1>15. CASE UNCHANGED vars
  BY <1>15 DEF vars, table, local, mapped, Submitted, Outcomes, Outcome
<1> QED
  BY Steps, <1>3, <1>4, <1>5, <1>6, <1>7, <1>9, <1>10, <1>11, <1>12, <1>13, <1>14,
     <1>15

(* Whatever updates, tools, creates and machines interleave their          *)
(* statements, wait for each other's rows, clash, roll back or are aborted: *)
(* every batch is there as a whole or not at all, as if it had been judged *)
(* and written in one moment.                                              *)
THEOREM Implements == Spec => ImplementsAtomicEdits
<1>1. Init => Abstract!Init
  <2> SUFFICES ASSUME Init PROVE Abstract!Init
    OBVIOUS
  <2>1. Submitted = [e \in Edit |-> <<>>] /\ Outcomes = [e \in Edit |-> "none"]
    BY DEF Init, Submitted, Outcomes, Outcome
  <2> QED
    BY <2>1 DEF Init, Abstract!Init, Submitted, Outcomes
<1>2. BatchInv /\ [Next]_vars => [Abstract!Next]_(Abstract!vars)
  BY NextMaps DEF mapped, Abstract!vars, Submitted, Outcomes
<1> QED
  BY <1>1, <1>2, BatchInvariance, PTL DEF Spec, ImplementsAtomicEdits, Abstract!Spec
=============================================================================

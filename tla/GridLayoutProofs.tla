-------------------------- MODULE GridLayoutProofs --------------------------
(***************************************************************************)
(* Typing of GridLayout, what a run that ends well leaves behind, that     *)
(* runs one after the other leave nothing twice, that none rearranges a    *)
(* grid it found, and where a move lands, for any attributes, releases and *)
(* number of runs, moves and changes.  The argument: no statement of       *)
(* anybody removes a row or moves a path, a run writes only to the field   *)
(* it has itself created, its loop index marks the attributes that are     *)
(* done, and while it is alone nobody else gives a column to one that is   *)
(* not.  A moved column comes strictly behind those before its slot and    *)
(* strictly before the others, so that any sorted list has it there.       *)
(***************************************************************************)
EXTENDS GridLayout, FiniteSetTheorems, FunctionTheorems, SequenceTheorems, TLAPS

HasColumn(v, a) == \E i \in FieldsOf(v) : fields[i].attr = a

HasRow(a) == attribute[a] # None

\* The field a run has created and given no path yet.
OwnField(r) ==
    \E i \in DOMAIN fields :
        known[r] = {i} /\ fields[i].view = view[r] /\ fields[i].attr = None

\* Of the attributes that the loop has passed, and of those it need not stop
\* at, P holds.
RowsDone(r) ==
    /\ \A a \in Seeded(r) \ todo[r] : HasRow(a)
    /\ \A n \in DOMAIN release[r].attrs : n < at[r] => HasRow(release[r].attrs[n])

ColumnsDone(r) ==
    /\ \A a \in Seeded(r) \ todo[r] : HasColumn(view[r], a)
    /\ \A n \in DOMAIN release[r].attrs :
            n < at[r] => HasColumn(view[r], release[r].attrs[n])

RunInv(r) ==
    /\ pc[r] = "attributes" => RowsDone(r)
    /\ pc[r] \in {"createView", "readFields", "readPaths", "fields", "path", "done"}
         => \A a \in Seeded(r) : HasRow(a)
    /\ pc[r] = "readPaths" => known[r] \subseteq FieldsOf(view[r])
    /\ pc[r] \in {"fields", "path"} => ColumnsDone(r)
    /\ pc[r] = "path" => InLoop(r) /\ OwnField(r)
    /\ pc[r] = "done" => \A a \in Seeded(r) : HasColumn(view[r], a)

\* A path is written to the field it was created for.
OwnFields ==
    \A r, q \in Runs : r # q /\ pc[r] = "path" /\ pc[q] = "path"
        => known[r] \cap known[q] = {}

MoveInv(m) ==
    pc[m] = "write" => /\ goal[m].rank # None /\ goal[m].field \in DOMAIN fields
                       /\ aim[m] < Len(listed[m])

IInv ==
    /\ TypeOK
    /\ \A r \in Runs : RunInv(r)
    /\ OwnFields
    /\ \A m \in Moves : MoveInv(m)

-----------------------------------------------------------------------------
LEMMA ReleaseType ==
    ASSUME TypeOK, NEW r \in Runs
    PROVE  /\ release[r].attrs \in Seq(Attr)
           /\ release[r].meta \in [Attr -> Nat]
           /\ Seeded(r) \subseteq Attr
           /\ Len(release[r].attrs) \in Nat
           /\ DOMAIN release[r].attrs = 1..Len(release[r].attrs)
           /\ InLoop(r) => Current(r) \in Seeded(r)
<1>1. release[r] \in Release
  BY GridLayoutAssumption DEF TypeOK
<1>2. release[r].attrs \in Seq(Attr) /\ release[r].meta \in [Attr -> Nat]
  BY <1>1 DEF Release
<1>3. at[r] \in Nat \ {0}
  BY DEF TypeOK
<1>4. /\ Len(release[r].attrs) \in Nat
      /\ DOMAIN release[r].attrs = 1..Len(release[r].attrs)
      /\ \A n \in DOMAIN release[r].attrs : release[r].attrs[n] \in Attr
  BY <1>2
<1>5. InLoop(r) => at[r] \in DOMAIN release[r].attrs
  BY <1>3, <1>4 DEF InLoop
<1>6. QED
  BY <1>2, <1>4, <1>5 DEF Seeded, Current

LEMMA FieldType ==
    ASSUME TypeOK
    PROVE  /\ Len(fields) \in Nat
           /\ DOMAIN fields = 1..Len(fields)
           /\ \A i \in DOMAIN fields : fields[i] \in Field
  BY DEF TypeOK

LEMMA FieldUpdate ==
    ASSUME TypeOK, NEW i \in DOMAIN fields, NEW f \in Field
    PROVE  [fields EXCEPT ![i] = f] \in Seq(Field)
<1>1. fields \in Seq(Field) /\ i \in 1..Len(fields)
  BY FieldType DEF TypeOK
<1>2. QED
  BY <1>1, ExceptSeq

LEMMA FiniteShown ==
    ASSUME TypeOK, NEW v
    PROVE  /\ IsFiniteSet(Shown(v)) /\ Cardinality(Shown(v)) \in Nat
           /\ Shown(v) \subseteq Nat
<1>1. Shown(v) \subseteq 1..Len(fields) /\ Len(fields) \in Nat
  BY FieldType DEF Shown, FieldsOf
<1>2. IsFiniteSet(1..Len(fields))
  BY <1>1, FS_Interval
<1>3. QED
  BY <1>1, <1>2, FS_Subset, FS_CardinalityType

-----------------------------------------------------------------------------
(* Typing, action by action.                                               *)

Locals == /\ release \in [Runs -> Releases]
          /\ at \in [Runs -> Nat \ {0}]
          /\ todo \in [Runs -> SUBSET Attr]
          /\ DOMAIN known = Runs
          /\ view \in [Runs -> Nat]
          /\ found \in [Runs -> BOOLEAN]
          /\ rank \in [Runs -> Int]

MoveLocals == /\ listed \in [Moves -> Seq(Nat)]
              /\ aim \in [Moves -> Nat]
              /\ goal \in [Moves -> [field : Nat, rank : Int \cup {None}]]

Tables == /\ entity \in BOOLEAN
          /\ attribute \in [Attr -> Nat \cup {None}]
          /\ views \in Nat
          /\ fields \in Seq(Field)

LEMMA TypeParts ==
    Tables' /\ Locals' /\ MoveLocals' /\ pc' \in [Call -> Control]
      /\ overlapped' \in BOOLEAN => TypeOK'
  BY DEF TypeOK, Tables, Locals, MoveLocals

LEMMA StartType ==
    ASSUME TypeOK, NEW r \in Runs, FindEntity(r) \/ CreateEntity(r) \/ Finish(r)
                                   \/ Crash(r)
    PROVE  TypeOK'
<1>1. Tables'
  BY DEF TypeOK, Tables, FindEntity, CreateEntity, Finish, Crash, tables
<1>2. Locals' /\ MoveLocals'
  BY DEF TypeOK, Locals, MoveLocals, FindEntity, CreateEntity, Finish, Crash,
     runLocals, moveLocals
<1>3. overlapped' \in BOOLEAN
  BY DEF TypeOK, FindEntity, CreateEntity, Finish, Crash
<1>4. pc' \in [Call -> Control]
  BY DEF TypeOK, FindEntity, CreateEntity, Finish, Crash, Go, Call, Control, Ended
<1>5. QED
  BY <1>1, <1>2, <1>3, <1>4, TypeParts

LEMMA RowsType ==
    ASSUME TypeOK, NEW r \in Runs,
           ReadAttributes(r) \/ WriteAttribute(r) \/ Continue(r)
    PROVE  TypeOK'
<1>1. Tables'
  <2>1. CASE WriteAttribute(r)
    <3>1. Current(r) \in Attr /\ release[r].meta[Current(r)] \in Nat
      BY <2>1, ReleaseType DEF WriteAttribute
    <3>2. attribute' \in [Attr -> Nat \cup {None}]
      BY <2>1, <3>1 DEF WriteAttribute, TypeOK
    <3>3. QED
      BY <2>1, <3>2 DEF WriteAttribute, TypeOK, Tables
  <2>2. CASE ReadAttributes(r) \/ Continue(r)
    BY <2>2 DEF TypeOK, Tables, ReadAttributes, Continue, tables
  <2>3. QED
    BY <2>1, <2>2
<1>2. Locals'
  <2>1. {a \in Seeded(r) : attribute[a] # release[r].meta[a]} \in SUBSET Attr
    BY ReleaseType
  <2>2. todo' \in [Runs -> SUBSET Attr]
    BY ZenonT(40), <2>1 DEF TypeOK, ReadAttributes, WriteAttribute, Continue
  <2>3. at' \in [Runs -> Nat \ {0}] /\ DOMAIN known' = Runs
    BY DEF TypeOK, ReadAttributes, WriteAttribute, Continue
  <2>4. QED
    BY <2>2, <2>3 DEF TypeOK, Locals, ReadAttributes, WriteAttribute, Continue
<1>3. MoveLocals' /\ overlapped' \in BOOLEAN
  BY DEF TypeOK, MoveLocals, ReadAttributes, WriteAttribute, Continue, moveLocals
<1>4. pc' \in [Call -> Control]
  BY ZenonT(40) DEF TypeOK, ReadAttributes, WriteAttribute, Continue, Go, Call, Control, Ended
<1>5. QED
  BY <1>1, <1>2, <1>3, <1>4, TypeParts

LEMMA ViewType ==
    ASSUME TypeOK, NEW r \in Runs,
           FindView(r) \/ CreateView(r) \/ ReadFields(r) \/ ReadPaths(r)
    PROVE  TypeOK'
<1>1. Tables'
  BY DEF TypeOK, Tables, FindView, CreateView, ReadFields, ReadPaths, tables
<1>2. Locals'
  <2>1. view' \in [Runs -> Nat] /\ found' \in [Runs -> BOOLEAN]
    <3>1. CASE FindView(r)
      <4>1. view' = view \/ \E v \in 1..views : view' = [view EXCEPT ![r] = v]
        BY <3>1 DEF FindView
      <4>2. found' = [found EXCEPT ![r] = views # 0]
        BY <3>1 DEF FindView
      <4>3. views \in Nat /\ view \in [Runs -> Nat] /\ found \in [Runs -> BOOLEAN]
        BY DEF TypeOK
      <4>4. view' \in [Runs -> Nat]
        BY <4>1, <4>3
      <4>5. found' \in [Runs -> BOOLEAN]
        BY <4>2, <4>3
      <4>6. QED
        BY <4>4, <4>5
    <3>2. CASE CreateView(r)
      BY <3>2 DEF TypeOK, CreateView
    <3>3. CASE ReadFields(r) \/ ReadPaths(r)
      BY <3>3 DEF TypeOK, ReadFields, ReadPaths
    <3>4. QED
      BY <3>1, <3>2, <3>3
  <2>2. rank' \in [Runs -> Int]
    <3>1. \A i \in FieldsOf(view[r]) : fields[i].rank \in Int
      BY FieldType DEF FieldsOf, Field
    <3>2. CASE ReadFields(r)
      BY <3>1, <3>2 DEF TypeOK, ReadFields, Middle
    <3>3. CASE FindView(r) \/ CreateView(r) \/ ReadPaths(r)
      BY <3>3 DEF TypeOK, FindView, CreateView, ReadPaths
    <3>4. QED
      BY <3>2, <3>3
  <2>3. todo' \in [Runs -> SUBSET Attr]
    <3>1. Seeded(r) \ Fielded(known[r]) \in SUBSET Attr
      BY ReleaseType
    <3>2. QED
      BY ZenonT(40), <3>1 DEF TypeOK, FindView, CreateView, ReadFields, ReadPaths
  <2>4. at' \in [Runs -> Nat \ {0}] /\ DOMAIN known' = Runs
    BY DEF TypeOK, FindView, CreateView, ReadFields, ReadPaths
  <2>5. QED
    BY <2>1, <2>2, <2>3, <2>4 DEF TypeOK, Locals, FindView, CreateView,
       ReadFields, ReadPaths
<1>3. MoveLocals' /\ overlapped' \in BOOLEAN
  BY DEF TypeOK, MoveLocals, FindView, CreateView, ReadFields, ReadPaths, moveLocals
<1>4. pc' \in [Call -> Control]
  BY DEF TypeOK, FindView, CreateView, ReadFields, ReadPaths, Go, Call, Control
<1>5. QED
  BY <1>1, <1>2, <1>3, <1>4, TypeParts

LEMMA ColumnType ==
    ASSUME TypeOK, NEW r \in Runs, RunInv(r), CreateField(r) \/ CreatePath(r)
    PROVE  TypeOK'
<1>1. fields' \in Seq(Field)
  <2>1. CASE CreateField(r)
    <3>1. NewField(r, Current(r)) \in Field
      BY DEF NewField, Field, TypeOK, Step
    <3>2. QED
      BY <2>1, <3>1, AppendProperties DEF CreateField, TypeOK
  <2>2. CASE CreatePath(r)
    <3>1. Current(r) \in Attr
      BY <2>2, ReleaseType DEF CreatePath, RunInv, Go
    <3>2. \A i \in DOMAIN fields : [fields[i] EXCEPT !.attr = Current(r)] \in Field
      BY <3>1, FieldType DEF Field
    <3>3. fields' \in [1..Len(fields) -> Field]
      BY <2>2, <3>2, FieldType DEF CreatePath
    <3>4. QED
      BY <3>3, FieldType
  <2>3. QED
    BY <2>1, <2>2
<1>2. Tables'
  BY <1>1 DEF TypeOK, Tables, CreateField, CreatePath
<1>3. Locals'
  <2>1. rank' \in [Runs -> Int]
    BY DEF TypeOK, CreateField, CreatePath, Step
  <2>2. at' \in [Runs -> Nat \ {0}] /\ DOMAIN known' = Runs
    BY DEF TypeOK, CreateField, CreatePath
  <2>3. QED
    BY <2>1, <2>2 DEF TypeOK, Locals, CreateField, CreatePath
<1>4. MoveLocals' /\ overlapped' \in BOOLEAN
  BY DEF TypeOK, MoveLocals, CreateField, CreatePath, moveLocals
<1>5. pc' \in [Call -> Control]
  BY DEF TypeOK, CreateField, CreatePath, Go, Call, Control
<1>6. QED
  BY <1>2, <1>3, <1>4, <1>5, TypeParts

LEMMA ChangeType ==
    ASSUME TypeOK, NEW c \in Changes, Change(c)
    PROVE  TypeOK'
<1>1. fields' \in Seq(Field)
  <2>1. PICK v \in 1..views : \E i \in Columns(v), b \in BOOLEAN :
            \/ fields' = [fields EXCEPT ![i].visible = b]
            \/ fields' = [fields EXCEPT ![i].pinned = b]
    BY DEF Change
  <2>2. PICK i \in Columns(v), b \in BOOLEAN :
            \/ fields' = [fields EXCEPT ![i].visible = b]
            \/ fields' = [fields EXCEPT ![i].pinned = b]
    BY <2>1
  <2>3. i \in DOMAIN fields
    BY DEF Columns, FieldsOf
  <2>4. /\ [fields[i] EXCEPT !.visible = b] \in Field
        /\ [fields[i] EXCEPT !.pinned = b] \in Field
    BY <2>3, FieldType DEF Field
  <2>5. QED
    <3>1. \/ fields' = [fields EXCEPT ![i] = [fields[i] EXCEPT !.visible = b]]
          \/ fields' = [fields EXCEPT ![i] = [fields[i] EXCEPT !.pinned = b]]
      BY <2>2, <2>3
    <3>2. QED
      BY <2>3, <2>4, <3>1, FieldUpdate
<1>2. Tables' /\ Locals' /\ MoveLocals' /\ overlapped' \in BOOLEAN
  BY <1>1 DEF TypeOK, Tables, Locals, MoveLocals, Change, runLocals, moveLocals
<1>3. pc' \in [Call -> Control]
  BY DEF TypeOK, Change, Go, Call, Control, Ended
<1>4. QED
  BY <1>2, <1>3, TypeParts

LEMMA WriteMoveType ==
    ASSUME TypeOK, NEW m \in Moves, MoveInv(m), WriteMove(m)
    PROVE  TypeOK'
<1>1. goal[m].field \in Nat /\ goal[m].rank \in Int
  BY DEF TypeOK, MoveInv, WriteMove, Go
<1>2. fields' \in Seq(Field)
  <2>1. goal[m].field \in DOMAIN fields
    BY DEF MoveInv, WriteMove, Go
  <2>2. [fields[goal[m].field] EXCEPT !.rank = goal[m].rank] \in Field
    BY <1>1, <2>1, FieldType DEF Field
  <2>3. fields' = [fields EXCEPT ![goal[m].field] =
                      [fields[goal[m].field] EXCEPT !.rank = goal[m].rank]]
    BY <2>1 DEF WriteMove
  <2>4. QED
    BY <2>1, <2>2, <2>3, FieldUpdate
<1>3. Tables' /\ Locals' /\ MoveLocals' /\ overlapped' \in BOOLEAN
  BY <1>2 DEF TypeOK, Tables, Locals, MoveLocals, WriteMove, runLocals, moveLocals
<1>4. pc' \in [Call -> Control]
  BY DEF TypeOK, WriteMove, Go, Call, Control, Ended
<1>5. QED
  BY <1>3, <1>4, TypeParts

LEMMA OrderType ==
    ASSUME TypeOK, NEW v, NEW s \in Orders(Shown(v)), NEW k \in DOMAIN s
    PROVE  /\ s \in Seq(Nat) /\ DOMAIN s = 1..Len(s) /\ Len(s) \in Nat
           /\ \A j \in DOMAIN s : s[j] \in DOMAIN fields
           /\ Others(s, k) \in Seq(Nat) /\ Len(Others(s, k)) = Len(s) - 1
           /\ \A j \in 1..(Len(s) - 1) : Others(s, k)[j] \in DOMAIN fields
<1>1. /\ Cardinality(Shown(v)) \in Nat
      /\ Shown(v) \subseteq Nat /\ Shown(v) \subseteq DOMAIN fields
  BY FiniteShown DEF Shown, FieldsOf
<1>2. s \in [1..Cardinality(Shown(v)) -> Shown(v)]
  BY DEF Orders
<1>3. /\ s \in Seq(Nat) /\ DOMAIN s = 1..Len(s) /\ Len(s) \in Nat
      /\ \A j \in DOMAIN s : s[j] \in DOMAIN fields /\ s[j] \in Nat
  BY <1>1, <1>2
<1>4. \A n \in 1..(Len(s) - 1) :
        /\ (IF n < k THEN s[n] ELSE s[n + 1]) \in DOMAIN fields
        /\ (IF n < k THEN s[n] ELSE s[n + 1]) \in Nat
  BY SMTT(30), <1>3
<1>5. Len(s) - 1 \in Nat
  BY <1>3
<1>6. /\ Others(s, k) \in [1..(Len(s) - 1) -> Nat]
      /\ \A j \in 1..(Len(s) - 1) : Others(s, k)[j] \in DOMAIN fields
  BY <1>4 DEF Others
<1>7. Others(s, k) \in Seq(Nat) /\ Len(Others(s, k)) = Len(s) - 1
  BY <1>5, <1>6
<1>8. QED
  BY <1>3, <1>6, <1>7

LEMMA LockedType ==
    ASSUME TypeOK, NEW v, NEW s \in Orders(Shown(v)), NEW k \in DOMAIN s
    PROVE  Locked(s) \in Nat
<1> DEFINE P == {j \in DOMAIN s : fields[s[j]].pinned}
<1>1. DOMAIN s = 1..Len(s) /\ Len(s) \in Nat
  BY OrderType
<1>2. P \subseteq 1..Len(s)
  BY <1>1
<1>3. IsFiniteSet(1..Len(s))
  BY <1>1, FS_Interval
<1>4. Locked(s) = Cardinality(P)
  BY DEF Locked
<1> HIDE DEF P
<1>5. QED
  BY <1>2, <1>3, <1>4, FS_Subset, FS_CardinalityType

LEMMA SlotType ==
    ASSUME TypeOK, NEW v, NEW s \in Orders(Shown(v)), NEW k \in DOMAIN s,
           NEW n \in Slots(s, k)
    PROVE  n \in 0..(Len(s) - 1)
<1>1. k \in 1..Len(s) /\ Len(s) \in Nat /\ Locked(s) \in Nat
  BY OrderType, LockedType
<1>2. PICK j \in {k - 2, k} \cup Locked(s)..(Len(s) - 1) :
            n = IF j < 0 THEN 0 ELSE IF j > Len(s) - 1 THEN Len(s) - 1 ELSE j
  BY DEF Slots
<1>3. j \in Int
  BY <1>1
<1>4. QED
  BY <1>1, <1>2, <1>3

LEMMA RankType ==
    ASSUME TypeOK, NEW s \in Seq(Nat), NEW n \in 0..Len(s),
           \A j \in 1..Len(s) : s[j] \in DOMAIN fields
    PROVE  RankAt(s, n) \in Int \cup {None}
<1>1. \A j \in 1..Len(s) : fields[s[j]].rank \in Int
  BY FieldType DEF Field
<1>2. \A p, q \in Int : Between(p, q) \in Int
  BY DEF Between
<1>3. Len(s) \in Nat
  OBVIOUS
<1>4. CASE n > 0 /\ n < Len(s)
  <2>1. fields[s[n]].rank \in Int /\ fields[s[n + 1]].rank \in Int
    BY <1>1, <1>3, <1>4
  <2>2. QED
    BY <1>2, <1>4, <2>1 DEF RankAt
<1>5. CASE ~(n > 0) /\ n < Len(s)
  <2>1. fields[s[1]].rank \in Int
    BY <1>1, <1>3, <1>5
  <2>2. QED
    BY <1>5, <2>1 DEF RankAt, Step
<1>6. CASE n > 0 /\ ~(n < Len(s))
  <2>1. fields[s[n]].rank \in Int
    BY <1>1, <1>3, <1>6
  <2>2. QED
    BY <1>6, <2>1 DEF RankAt, Step
<1>7. CASE ~(n > 0) /\ ~(n < Len(s))
  BY <1>7 DEF RankAt, Middle
<1>8. QED
  BY <1>4, <1>5, <1>6, <1>7

LEMMA ReadForMoveType ==
    ASSUME TypeOK, NEW m \in Moves, ReadForMove(m)
    PROVE  TypeOK' /\ MoveInv(m)'
<1>1. PICK v \in 1..views : \E s \in Orders(Shown(v)) : \E k \in DOMAIN s :
        \E n \in Slots(s, k) : Aim(m, s, k, n, RankAt(Others(s, k), n))
  BY DEF ReadForMove
<1>2. PICK s \in Orders(Shown(v)) : \E k \in DOMAIN s :
        \E n \in Slots(s, k) : Aim(m, s, k, n, RankAt(Others(s, k), n))
  BY <1>1
<1>11. PICK k \in DOMAIN s :
        \E n \in Slots(s, k) : Aim(m, s, k, n, RankAt(Others(s, k), n))
  BY <1>2
<1>12. PICK n \in Slots(s, k) : Aim(m, s, k, n, RankAt(Others(s, k), n))
  BY <1>11
<1> DEFINE p == RankAt(Others(s, k), n)
<1>3. s \in Seq(Nat) /\ n \in Nat /\ s[k] \in DOMAIN fields /\ s[k] \in Nat
  BY OrderType, SlotType
<1>4. p \in Int \cup {None}
  <2>1. Others(s, k) \in Seq(Nat) /\ n \in 0..Len(Others(s, k))
    BY OrderType, SlotType
  <2>2. \A j \in 1..Len(Others(s, k)) : Others(s, k)[j] \in DOMAIN fields
    BY OrderType
  <2>3. QED
    BY <2>1, <2>2, RankType
<1> HIDE DEF p
<1>5. /\ Outcome(k - 1, n, p) \in {"done", "failed", "write"}
      /\ Outcome(k - 1, n, p) = "write" => p # None
  BY DEF Outcome
<1>6. MoveLocals'
  <2>1. [field |-> s[k], rank |-> p] \in [field : Nat, rank : Int \cup {None}]
    BY <1>3, <1>4
  <2>2. QED
    BY <1>12, <1>3, <2>1 DEF Aim, MoveLocals, TypeOK, p
<1>7. pc' \in [Call -> Control]
  BY <1>12, <1>5 DEF Aim, TypeOK, Control, Ended, p
<1>8. Tables' /\ Locals' /\ overlapped' \in BOOLEAN
  BY DEF TypeOK, Tables, Locals, ReadForMove, tables, runLocals
<1>9. MoveInv(m)'
  <2>1. m \in Call
    BY DEF Call
  <2>2. pc'[m] = Outcome(k - 1, n, p)
    BY <1>12, <2>1 DEF Aim, TypeOK, p
  <2>3. goal'[m].rank = p /\ goal'[m].field = s[k]
    BY <1>12 DEF Aim, TypeOK, p
  <2>4. fields' = fields
    BY DEF ReadForMove, tables
  <2>5. aim'[m] = n /\ listed'[m] = s
    BY <1>12 DEF Aim, TypeOK
  <2>6. n < Len(s)
    BY <1>3, OrderType, SlotType
  <2>7. QED
    BY <1>3, <1>5, <2>2, <2>3, <2>4, <2>5, <2>6 DEF MoveInv
<1>10. QED
  BY <1>6, <1>7, <1>8, <1>9, TypeParts

-----------------------------------------------------------------------------
(* What no statement undoes: a row stays, a field stays in its view, and a *)
(* path, once written, leads to the same attribute.                        *)

RowsStay == \A a \in Attr : HasRow(a) => HasRow(a)'

FieldsStay ==
    \A i \in DOMAIN fields :
        /\ i \in DOMAIN fields'
        /\ fields'[i].view = fields[i].view
        /\ fields[i].attr # None => fields'[i].attr = fields[i].attr

LEMMA RowsPersist ==
    ASSUME TypeOK, [Next]_vars
    PROVE  RowsStay
<1>1. CASE \E r \in Runs : WriteAttribute(r)
  <2>1. PICK r \in Runs : WriteAttribute(r)
    BY <1>1
  <2>2. release[r].meta[Current(r)] \in Nat
    BY <2>1, ReleaseType DEF WriteAttribute
  <2>3. release[r].meta[Current(r)] # None
    BY <2>2, GridLayoutAssumption
  <2>4. \A a \in Attr : attribute'[a] \in {attribute[a], release[r].meta[Current(r)]}
    BY <2>1 DEF WriteAttribute, TypeOK
  <2>5. QED
    BY <2>3, <2>4 DEF RowsStay, HasRow
<1>2. CASE attribute' = attribute
  BY <1>2 DEF RowsStay, HasRow
<1>3. QED
  BY <1>1, <1>2 DEF Next, vars, tables, Provision, FindEntity, CreateEntity,
     ReadAttributes, Continue, FindView, CreateView, ReadFields, ReadPaths,
     CreateField, CreatePath, Finish, Crash, Change, ReadForMove, WriteMove

(* Every step that touches the fields appends one, sets the path of a run's *)
(* own, or changes what the layout says of one.                             *)
LEMMA FieldSteps ==
    ASSUME [Next]_vars
    PROVE  \/ fields' = fields
           \/ \E r \in Runs : CreateField(r) \/ CreatePath(r)
           \/ \E c \in Changes : Change(c)
           \/ \E m \in Moves : WriteMove(m)
  BY DEF Next, vars, tables, Provision, FindEntity, CreateEntity,
     ReadAttributes, WriteAttribute, Continue, FindView, CreateView, ReadFields,
     ReadPaths, Finish, Crash, ReadForMove

LEMMA LayoutSteps ==
    ASSUME TypeOK, (\E c \in Changes : Change(c)) \/ (\E m \in Moves : WriteMove(m))
    PROVE  /\ DOMAIN fields' = DOMAIN fields
           /\ \A i \in DOMAIN fields : /\ fields'[i].view = fields[i].view
                                       /\ fields'[i].attr = fields[i].attr
<1>1. ASSUME NEW c \in Changes, Change(c), NEW i \in DOMAIN fields
      PROVE  /\ DOMAIN fields' = DOMAIN fields
             /\ fields'[i].view = fields[i].view
             /\ fields'[i].attr = fields[i].attr
  <2>1. fields[i] \in Field
    BY FieldType
  <2>2. \E k \in DOMAIN fields, b \in BOOLEAN :
            \/ fields' = [fields EXCEPT ![k].visible = b]
            \/ fields' = [fields EXCEPT ![k].pinned = b]
    BY <1>1 DEF Change, Columns, FieldsOf
  <2>3. QED
    BY <2>1, <2>2 DEF Field
<1>2. ASSUME NEW m \in Moves, WriteMove(m), NEW i \in DOMAIN fields
      PROVE  /\ DOMAIN fields' = DOMAIN fields
             /\ fields'[i].view = fields[i].view
             /\ fields'[i].attr = fields[i].attr
  <2>1. fields[i] \in Field
    BY FieldType
  <2>2. QED
    BY <1>2, <2>1 DEF WriteMove, Field
<1>3. DOMAIN fields' = DOMAIN fields
  BY DEF Change, WriteMove
<1>4. QED
  BY <1>1, <1>2, <1>3

LEMMA AppendField ==
    ASSUME TypeOK, NEW r \in Runs, CreateField(r)
    PROVE  /\ DOMAIN fields' = 1..(Len(fields) + 1)
           /\ \A i \in DOMAIN fields : fields'[i] = fields[i]
           /\ fields'[Len(fields) + 1] = NewField(r, Current(r))
<1>1. fields \in Seq(Field) /\ fields' = Append(fields, NewField(r, Current(r)))
  BY DEF TypeOK, CreateField
<1>2. NewField(r, Current(r)) \in Field
  BY DEF NewField, Field, TypeOK, Step
<1>3. QED
  BY <1>1, <1>2, AppendProperties, FieldType

LEMMA SetPath ==
    ASSUME TypeOK, NEW r \in Runs, CreatePath(r)
    PROVE  /\ DOMAIN fields' = DOMAIN fields
           /\ \A i \in DOMAIN fields :
                /\ fields'[i].view = fields[i].view
                /\ i \notin known[r] => fields'[i].attr = fields[i].attr
                /\ i \in known[r] => fields'[i].attr = Current(r)
<1>1. \A i \in DOMAIN fields : fields[i] \in Field
  BY FieldType
<1>2. QED
  BY <1>1 DEF CreatePath, Field

LEMMA FieldsPersist ==
    ASSUME TypeOK, \A r \in Runs : RunInv(r), [Next]_vars
    PROVE  FieldsStay
<1>1. CASE fields' = fields
  BY <1>1 DEF FieldsStay
<1>2. ASSUME NEW r \in Runs, CreateField(r) PROVE FieldsStay
  BY <1>2, AppendField, FieldType DEF FieldsStay
<1>3. ASSUME NEW r \in Runs, CreatePath(r) PROVE FieldsStay
  <2>1. OwnField(r)
    BY <1>3 DEF RunInv, CreatePath, Go
  <2>2. \A i \in known[r] : i \in DOMAIN fields => fields[i].attr = None
    BY <2>1 DEF OwnField
  <2>3. QED
    BY <1>3, <2>2, SetPath DEF FieldsStay
<1>4. CASE (\E c \in Changes : Change(c)) \/ (\E m \in Moves : WriteMove(m))
  BY <1>4, LayoutSteps DEF FieldsStay
<1>5. QED
  BY <1>1, <1>2, <1>3, <1>4, FieldSteps

LEMMA ColumnStays ==
    ASSUME FieldsStay, NEW v, NEW a \in Attr, HasColumn(v, a)
    PROVE  HasColumn(v, a)'
<1>1. a # None
  BY GridLayoutAssumption
<1>2. QED
  BY <1>1 DEF FieldsStay, HasColumn, FieldsOf

-----------------------------------------------------------------------------
(* A run in the steps of others.                                           *)

Keeps(r) ==
    /\ pc'[r] = pc[r] /\ release'[r] = release[r] /\ at'[r] = at[r]
    /\ todo'[r] = todo[r] /\ known'[r] = known[r] /\ view'[r] = view[r]
    /\ found'[r] = found[r]

LEMMA RunFrame ==
    ASSUME TypeOK, NEW r \in Runs, NEW q \in Runs, q # r, Provision(q) \/ Crash(q)
    PROVE  Keeps(r)
<1>1. /\ DOMAIN pc = Call /\ DOMAIN at = Runs /\ DOMAIN todo = Runs
      /\ DOMAIN known = Runs /\ DOMAIN view = Runs /\ DOMAIN found = Runs
      /\ r \in Call
  BY DEF TypeOK, Call
<1>2. ASSUME FindEntity(q) \/ CreateEntity(q) \/ Finish(q) \/ Crash(q)
      PROVE  Keeps(r)
  BY <1>1, <1>2 DEF FindEntity, CreateEntity, Finish, Crash, Go, runLocals, Keeps
<1>3. ASSUME ReadAttributes(q) PROVE Keeps(r)
  BY <1>1, <1>3 DEF ReadAttributes, Go, Keeps
<1>4. ASSUME WriteAttribute(q) PROVE Keeps(r)
  BY <1>1, <1>4 DEF WriteAttribute, Go, Keeps
<1>5. ASSUME Continue(q) PROVE Keeps(r)
  BY <1>1, <1>5 DEF Continue, Go, Keeps
<1>6. ASSUME FindView(q) PROVE Keeps(r)
  BY <1>1, <1>6 DEF FindView, Go, Keeps
<1>7. ASSUME CreateView(q) PROVE Keeps(r)
  BY <1>1, <1>7 DEF CreateView, Go, Keeps
<1>8. ASSUME ReadFields(q) PROVE Keeps(r)
  BY <1>1, <1>8 DEF ReadFields, Go, Keeps
<1>9. ASSUME ReadPaths(q) PROVE Keeps(r)
  BY <1>1, <1>9 DEF ReadPaths, Go, Keeps
<1>10. ASSUME CreateField(q) PROVE Keeps(r)
  BY <1>1, <1>10 DEF CreateField, Go, Keeps
<1>11. ASSUME CreatePath(q) PROVE Keeps(r)
  BY <1>1, <1>11 DEF CreatePath, Go, Keeps
<1>12. QED
  BY <1>2, <1>3, <1>4, <1>5, <1>6, <1>7, <1>8, <1>9, <1>10, <1>11 DEF Provision

LEMMA CallFrame ==
    ASSUME TypeOK, NEW r \in Runs,
           \/ \E c \in Changes : Change(c)
           \/ \E m \in Moves : ReadForMove(m) \/ WriteMove(m)
    PROVE  Keeps(r)
<1>1. r \notin Changes /\ r \notin Moves /\ r \in Call
  BY GridLayoutAssumption DEF Call
<1>2. ASSUME NEW c \in Changes, Change(c) PROVE Keeps(r)
  BY <1>1, <1>2 DEF Change, Go, runLocals, Keeps, TypeOK
<1>3. ASSUME NEW m \in Moves, ReadForMove(m) PROVE Keeps(r)
  <2>1. \E to : pc' = [pc EXCEPT ![m] = to]
    BY <1>3 DEF ReadForMove, Aim
  <2>2. QED
    BY <1>1, <1>3, <2>1 DEF ReadForMove, runLocals, Keeps, TypeOK
<1>4. ASSUME NEW m \in Moves, WriteMove(m) PROVE Keeps(r)
  BY <1>1, <1>4 DEF WriteMove, Go, runLocals, Keeps, TypeOK
<1>5. QED
  BY <1>2, <1>3, <1>4

LEMMA StepOrFrame ==
    ASSUME TypeOK, NEW r \in Runs, [Next]_vars
    PROVE  Provision(r) \/ Crash(r) \/ Keeps(r)
<1>1. CASE UNCHANGED vars
  BY <1>1 DEF vars, runLocals, Keeps
<1>2. CASE Next
  <2>1. CASE \E q \in Runs : Provision(q) \/ Crash(q)
    BY <2>1, RunFrame
  <2>2. CASE \/ \E c \in Changes : Change(c)
             \/ \E m \in Moves : ReadForMove(m) \/ WriteMove(m)
    BY <2>2, CallFrame
  <2>3. QED
    BY <1>2, <2>1, <2>2 DEF Next
<1>3. QED
  BY <1>1, <1>2

LEMMA OwnFieldStays ==
    ASSUME TypeOK, \A q \in Runs : RunInv(q), OwnFields, [Next]_vars,
           NEW r \in Runs, pc[r] = "path", Keeps(r)
    PROVE  OwnField(r)'
<1>1. PICK i \in DOMAIN fields :
        known[r] = {i} /\ fields[i].view = view[r] /\ fields[i].attr = None
  BY DEF RunInv, OwnField
<1>2. i \in DOMAIN fields' /\ fields'[i].view = fields[i].view
  BY FieldsPersist DEF FieldsStay
<1>3. fields'[i].attr = None
  <2>1. CASE fields' = fields
    BY <1>1, <2>1
  <2>2. ASSUME NEW q \in Runs, CreateField(q) PROVE fields'[i].attr = None
    BY <1>1, <2>2, AppendField
  <2>3. ASSUME NEW q \in Runs, CreatePath(q) PROVE fields'[i].attr = None
    <3>1. pc[q] = "path" /\ pc'[q] = "fields"
      BY <2>3 DEF CreatePath, Go, TypeOK, Call
    <3>2. q # r
      BY <3>1 DEF Keeps
    <3>3. i \notin known[q]
      BY <1>1, <3>1, <3>2 DEF OwnFields
    <3>4. QED
      BY <1>1, <2>3, <3>3, SetPath
  <2>4. CASE (\E c \in Changes : Change(c)) \/ (\E m \in Moves : WriteMove(m))
    BY <1>1, <2>4, LayoutSteps
  <2>5. QED
    BY <2>1, <2>2, <2>3, <2>4, FieldSteps
<1>4. QED
  BY <1>1, <1>2, <1>3 DEF OwnField, Keeps

LEMMA BystanderInv ==
    ASSUME TypeOK, \A q \in Runs : RunInv(q), OwnFields, [Next]_vars,
           NEW r \in Runs, Keeps(r)
    PROVE  RunInv(r)'
<1>1. RunInv(r) /\ RowsStay /\ FieldsStay
  BY RowsPersist, FieldsPersist
<1>2. /\ Seeded(r)' = Seeded(r) /\ Seeded(r) \subseteq Attr
      /\ InLoop(r)' = InLoop(r)
  BY ReleaseType DEF Seeded, InLoop, Keeps
<1>3. \A n \in DOMAIN release[r].attrs : release[r].attrs[n] \in Attr
  BY <1>2 DEF Seeded
<1>4. \A a \in Attr : HasColumn(view[r], a) => HasColumn(view[r], a)'
  <2>1. SUFFICES ASSUME NEW a \in Attr, HasColumn(view[r], a)
                 PROVE  HasColumn(view[r], a)'
    OBVIOUS
  <2>2. PICK i \in DOMAIN fields : fields[i].view = view[r] /\ fields[i].attr = a
    BY <2>1 DEF HasColumn, FieldsOf
  <2>3. a # None
    BY GridLayoutAssumption
  <2>4. QED
    BY <1>1, <2>2, <2>3 DEF FieldsStay, HasColumn, FieldsOf, Keeps
<1>5. RowsDone(r) => RowsDone(r)'
  BY <1>1, <1>2, <1>3 DEF RowsDone, RowsStay, Keeps
<1>6. ColumnsDone(r) => ColumnsDone(r)'
  BY <1>2, <1>3, <1>4 DEF ColumnsDone, Keeps
<1>7. known[r] \subseteq FieldsOf(view[r]) => (known[r] \subseteq FieldsOf(view[r]))'
  BY <1>1 DEF FieldsStay, FieldsOf, Keeps
<1>8. pc[r] = "path" => OwnField(r)'
  BY OwnFieldStays
<1>9. (\A a \in Seeded(r) : HasRow(a)) => (\A a \in Seeded(r) : HasRow(a))'
  BY <1>1, <1>2 DEF RowsStay
<1>10. (\A a \in Seeded(r) : HasColumn(view[r], a))
         => (\A a \in Seeded(r) : HasColumn(view[r], a))'
  BY <1>2, <1>4
<1>11. pc'[r] = pc[r]
  BY DEF Keeps
<1>12. QED
  BY <1>1, <1>2, <1>5, <1>6, <1>7, <1>8, <1>9, <1>10, <1>11 DEF RunInv

-----------------------------------------------------------------------------
(* A run in its own steps.                                                  *)

\* What both loops need: the index has passed every attribute, or passes one.
LEMMA LoopEnds ==
    ASSUME TypeOK, NEW r \in Runs, ~InLoop(r), NEW a \in Seeded(r)
    PROVE  \E n \in DOMAIN release[r].attrs : n < at[r] /\ a = release[r].attrs[n]
<1>1. PICK n \in DOMAIN release[r].attrs : a = release[r].attrs[n]
  BY DEF Seeded
<1>2. n \in 1..Len(release[r].attrs) /\ Len(release[r].attrs) \in Nat
  BY ReleaseType
<1>3. at[r] \in Nat /\ at[r] > Len(release[r].attrs)
  BY <1>2 DEF TypeOK, InLoop
<1>4. QED
  BY <1>1, <1>2, <1>3

LEMMA LoopGoesOn ==
    ASSUME TypeOK, NEW r \in Runs, NEW n \in DOMAIN release[r].attrs,
           n < at[r] + 1
    PROVE  n < at[r] \/ release[r].attrs[n] = Current(r)
<1>1. n \in Nat /\ at[r] \in Nat
  BY ReleaseType DEF TypeOK
<1>2. n < at[r] \/ n = at[r]
  BY <1>1
<1>3. QED
  BY <1>2 DEF Current

\* What a step of a run that leaves its release alone leaves alone with it.
LEMMA SameRelease ==
    ASSUME TypeOK, NEW r \in Runs, Provision(r)
    PROVE  /\ release' = release
           /\ Seeded(r)' = Seeded(r)
<1>1. release' = release
  BY DEF Provision, FindEntity, CreateEntity, ReadAttributes, WriteAttribute,
     Continue, FindView, CreateView, ReadFields, ReadPaths, CreateField,
     CreatePath, Finish, runLocals
<1>2. QED
  BY <1>1 DEF Seeded

LEMMA StartInv ==
    ASSUME TypeOK, NEW r \in Runs, FindEntity(r) \/ CreateEntity(r) \/ Crash(r)
    PROVE  RunInv(r)'
<1>1. r \in Call
  BY DEF Call
<1>2. pc'[r] \in {"readAttributes", "createEntity", "failed", "crashed"}
  BY <1>1 DEF FindEntity, CreateEntity, Crash, Go, TypeOK
<1>3. QED
  BY <1>2 DEF RunInv

LEMMA ReadAttributesInv ==
    ASSUME TypeOK, NEW r \in Runs, ReadAttributes(r)
    PROVE  RunInv(r)'
<1>1. r \in Call /\ Provision(r)
  BY DEF Call, Provision
<1>2. /\ pc'[r] = "attributes" /\ at'[r] = 1 /\ attribute' = attribute
      /\ todo'[r] = {a \in Seeded(r) : attribute[a] # release[r].meta[a]}
  BY <1>1 DEF ReadAttributes, Go, TypeOK, tables
<1>3. release' = release /\ Seeded(r)' = Seeded(r) /\ Seeded(r) \subseteq Attr
  BY <1>1, SameRelease, ReleaseType
<1>4. \A a \in Seeded(r) \ todo'[r] : HasRow(a)'
  <2>1. \A a \in Attr : release[r].meta[a] # None
    BY ReleaseType, GridLayoutAssumption
  <2>2. QED
    BY <1>2, <1>3, <2>1 DEF HasRow
<1>5. \A n \in DOMAIN release[r].attrs : ~(n < 1)
  BY ReleaseType
<1>6. RowsDone(r)'
  BY <1>2, <1>3, <1>4, <1>5 DEF RowsDone
<1>7. QED
  BY <1>2, <1>6 DEF RunInv

LEMMA WriteAttributeInv ==
    ASSUME TypeOK, NEW r \in Runs, RunInv(r), RowsStay, WriteAttribute(r)
    PROVE  RunInv(r)'
<1>1. r \in Call /\ Provision(r)
  BY DEF Call, Provision
<1>2. /\ pc[r] = "attributes" /\ pc'[r] \in {"attributes", "failed"}
      /\ at'[r] = at[r] + 1 /\ todo' = todo
  BY <1>1 DEF WriteAttribute, Go, TypeOK
<1>3. release' = release /\ Seeded(r)' = Seeded(r) /\ Seeded(r) \subseteq Attr
  BY <1>1, SameRelease, ReleaseType
<1>4. CASE pc'[r] = "failed"
  BY <1>4 DEF RunInv
<1>5. CASE pc'[r] = "attributes"
  <2>1. Current(r) \in Attr /\ release[r].meta[Current(r)] # None
    BY ReleaseType, GridLayoutAssumption DEF WriteAttribute
  <2>2. ~(Current(r) \notin known[r] /\ attribute[Current(r)] # None)
    BY <1>1, <1>5 DEF WriteAttribute, Go, TypeOK
  <2>3. attribute'[Current(r)] # None
    BY <2>1, <2>2 DEF WriteAttribute, TypeOK
  <2>4. RowsDone(r)
    BY <1>2 DEF RunInv
  <2>5. ASSUME NEW n \in DOMAIN release[r].attrs, n < at[r] + 1
        PROVE  attribute'[release[r].attrs[n]] # None
    <3>1. CASE release[r].attrs[n] = Current(r)
      BY <3>1, <2>3
    <3>2. CASE n < at[r]
      <4>1. release[r].attrs[n] \in Attr
        BY <1>3 DEF Seeded
      <4>2. QED
        BY <2>4, <3>2, <4>1 DEF RowsDone, RowsStay, HasRow
    <3>3. QED
      BY <2>5, <3>1, <3>2, LoopGoesOn
  <2>6. \A a \in Seeded(r) \ todo[r] : attribute'[a] # None
    BY <1>3, <2>4 DEF RowsDone, RowsStay, HasRow
  <2>7. RowsDone(r)'
    BY <1>2, <1>3, <2>5, <2>6 DEF RowsDone, HasRow
  <2>8. QED
    BY <1>5, <2>7 DEF RunInv
<1>6. QED
  BY <1>2, <1>4, <1>5

LEMMA ContinueInv ==
    ASSUME TypeOK, NEW r \in Runs, RunInv(r), Continue(r)
    PROVE  RunInv(r)'
<1>1. /\ pc' = pc /\ at'[r] = at[r] + 1 /\ todo' = todo /\ view' = view
      /\ attribute' = attribute /\ fields' = fields
      /\ Current(r) \in Seeded(r) \ todo[r]
  BY ReleaseType DEF Continue, tables, TypeOK
<1>2. release' = release /\ Seeded(r)' = Seeded(r)
  BY SameRelease DEF Provision
<1>3. CASE pc[r] = "attributes"
  <2>1. RowsDone(r)
    BY <1>3 DEF RunInv
  <2>2. \A n \in DOMAIN release[r].attrs :
            n < at[r] + 1 => HasRow(release[r].attrs[n])
    BY <1>1, <2>1, LoopGoesOn DEF RowsDone
  <2>3. RowsDone(r)'
    BY <1>1, <1>2, <2>1, <2>2 DEF RowsDone, HasRow
  <2>4. QED
    BY <1>1, <1>3, <2>3 DEF RunInv
<1>4. CASE pc[r] = "fields"
  <2>1. ColumnsDone(r) /\ \A a \in Seeded(r) : HasRow(a)
    BY <1>4 DEF RunInv
  <2>2. \A n \in DOMAIN release[r].attrs :
            n < at[r] + 1 => HasColumn(view[r], release[r].attrs[n])
    BY <1>1, <2>1, LoopGoesOn DEF ColumnsDone
  <2>3. ColumnsDone(r)'
    BY <1>1, <1>2, <2>1, <2>2 DEF ColumnsDone, HasColumn, FieldsOf
  <2>4. \A a \in Seeded(r)' : HasRow(a)'
    BY <1>1, <1>2, <2>1 DEF HasRow
  <2>5. QED
    BY <1>1, <1>4, <2>3, <2>4 DEF RunInv
<1>5. QED
  BY <1>3, <1>4 DEF Continue

LEMMA ViewInv ==
    ASSUME TypeOK, NEW r \in Runs, RunInv(r),
           FindView(r) \/ CreateView(r) \/ ReadFields(r)
    PROVE  RunInv(r)'
<1>1. r \in Call
  BY DEF Call
<1>2. release' = release /\ Seeded(r)' = Seeded(r)
  BY SameRelease DEF Provision
<1>3. attribute' = attribute /\ fields' = fields
  BY DEF FindView, CreateView, ReadFields, tables
<1>4. \A a \in Seeded(r) : HasRow(a)
  <2>1. CASE FindView(r)
    <3>1. RowsDone(r) /\ ~InLoop(r)
      BY <2>1 DEF FindView, Go, RunInv
    <3>2. QED
      BY <3>1, LoopEnds DEF RowsDone
  <2>2. CASE CreateView(r)
    BY <2>2 DEF CreateView, Go, RunInv
  <2>3. CASE ReadFields(r)
    BY <2>3 DEF ReadFields, Go, RunInv
  <2>4. QED
    BY <2>1, <2>2, <2>3
<1>5. \A a \in Seeded(r)' : HasRow(a)'
  BY <1>2, <1>3, <1>4 DEF HasRow
<1>6. CASE FindView(r)
  <2>1. pc'[r] \in {"createView", "readFields"}
    BY <1>1, <1>6 DEF FindView, Go, TypeOK
  <2>2. QED
    BY <1>5, <2>1 DEF RunInv
<1>7. CASE CreateView(r)
  <2>1. pc'[r] = "readFields"
    BY <1>1, <1>7 DEF CreateView, Go, TypeOK
  <2>2. QED
    BY <1>5, <2>1 DEF RunInv
<1>8. CASE ReadFields(r)
  <2>1. pc'[r] = "readPaths" /\ known'[r] = FieldsOf(view[r]) /\ view' = view
    BY <1>1, <1>8 DEF ReadFields, Go, TypeOK
  <2>2. (known[r] \subseteq FieldsOf(view[r]))'
    BY <1>3, <2>1 DEF FieldsOf
  <2>3. QED
    BY <1>5, <2>1, <2>2 DEF RunInv
<1>9. QED
  BY <1>6, <1>7, <1>8

LEMMA ReadPathsInv ==
    ASSUME TypeOK, NEW r \in Runs, RunInv(r), ReadPaths(r)
    PROVE  RunInv(r)'
<1>1. r \in Call /\ release' = release /\ Seeded(r)' = Seeded(r)
  BY SameRelease DEF Call, Provision
<1>2. /\ pc[r] = "readPaths" /\ pc'[r] = "fields" /\ at'[r] = 1
      /\ todo'[r] = Seeded(r) \ Fielded(known[r]) /\ view' = view
      /\ attribute' = attribute /\ fields' = fields
  BY <1>1 DEF ReadPaths, Go, TypeOK, tables
<1>3. known[r] \subseteq FieldsOf(view[r]) /\ \A a \in Seeded(r) : HasRow(a)
  BY <1>2 DEF RunInv
<1>4. \A a \in Seeded(r) \ todo'[r] : HasColumn(view[r], a)
  BY <1>2, <1>3 DEF Fielded, HasColumn
<1>5. \A n \in DOMAIN release[r].attrs : ~(n < 1)
  BY ReleaseType
<1>6. ColumnsDone(r)'
  BY <1>1, <1>2, <1>4, <1>5 DEF ColumnsDone, HasColumn, FieldsOf
<1>7. \A a \in Seeded(r)' : HasRow(a)'
  BY <1>1, <1>2, <1>3 DEF HasRow
<1>8. QED
  BY <1>2, <1>6, <1>7 DEF RunInv

LEMMA CreateFieldInv ==
    ASSUME TypeOK, NEW r \in Runs, RunInv(r), FieldsStay, CreateField(r)
    PROVE  RunInv(r)'
<1>1. /\ r \in Call /\ release' = release /\ Seeded(r)' = Seeded(r)
      /\ Seeded(r) \subseteq Attr
  BY SameRelease, ReleaseType DEF Call, Provision
<1>2. /\ pc[r] = "fields" /\ pc'[r] = "path" /\ at' = at /\ todo' = todo
      /\ view' = view /\ attribute' = attribute /\ InLoop(r)
      /\ known'[r] = {Len(fields) + 1}
  BY <1>1 DEF CreateField, Go, TypeOK
<1>3. ColumnsDone(r) /\ \A a \in Seeded(r) : HasRow(a)
  BY <1>2 DEF RunInv
<1>4. \A n \in DOMAIN release[r].attrs : release[r].attrs[n] \in Attr
  BY <1>1 DEF Seeded
<1>5. \A a \in Attr : HasColumn(view[r], a) => HasColumn(view[r], a)'
  <2>1. \A a \in Attr : a # None
    BY GridLayoutAssumption
  <2>2. QED
    BY <1>2, <2>1 DEF FieldsStay, HasColumn, FieldsOf
<1>6. ColumnsDone(r)'
  BY <1>1, <1>2, <1>3, <1>4, <1>5 DEF ColumnsDone
<1>7. OwnField(r)'
  <2>1. /\ Len(fields) + 1 \in DOMAIN fields'
        /\ fields'[Len(fields) + 1] = NewField(r, Current(r))
    BY AppendField, FieldType
  <2>2. QED
    BY <1>2, <2>1 DEF OwnField, NewField
<1>8. InLoop(r)' /\ \A a \in Seeded(r)' : HasRow(a)'
  BY <1>1, <1>2, <1>3 DEF InLoop, HasRow
<1>9. QED
  BY <1>2, <1>6, <1>7, <1>8 DEF RunInv

LEMMA CreatePathInv ==
    ASSUME TypeOK, NEW r \in Runs, RunInv(r), FieldsStay, CreatePath(r)
    PROVE  RunInv(r)'
<1>1. /\ r \in Call /\ release' = release /\ Seeded(r)' = Seeded(r)
      /\ Seeded(r) \subseteq Attr
  BY SameRelease, ReleaseType DEF Call, Provision
<1>2. /\ pc[r] = "path" /\ pc'[r] = "fields" /\ at'[r] = at[r] + 1
      /\ todo' = todo /\ view' = view /\ attribute' = attribute
  BY <1>1 DEF CreatePath, Go, TypeOK
<1>3. ColumnsDone(r) /\ OwnField(r) /\ \A a \in Seeded(r) : HasRow(a)
  BY <1>2 DEF RunInv
<1>4. \A n \in DOMAIN release[r].attrs : release[r].attrs[n] \in Attr
  BY <1>1 DEF Seeded
<1>5. \A a \in Attr : HasColumn(view[r], a) => HasColumn(view[r], a)'
  <2>1. \A a \in Attr : a # None
    BY GridLayoutAssumption
  <2>2. QED
    BY <1>2, <2>1 DEF FieldsStay, HasColumn, FieldsOf
<1>6. \A a \in Attr : a = Current(r) => HasColumn(view[r], a)'
  <2>1. PICK i \in DOMAIN fields : known[r] = {i} /\ fields[i].view = view[r]
    BY <1>3 DEF OwnField
  <2>2. /\ i \in DOMAIN fields' /\ fields'[i].view = view[r]
        /\ fields'[i].attr = Current(r)
    BY <2>1, SetPath
  <2>3. QED
    BY <1>2, <2>2 DEF HasColumn, FieldsOf
<1>7. \A n \in DOMAIN release[r].attrs :
        n < at[r] + 1 => HasColumn(view[r], release[r].attrs[n])
                           \/ release[r].attrs[n] = Current(r)
  BY <1>3, LoopGoesOn DEF ColumnsDone
<1>8. ColumnsDone(r)'
  <2>1. \A a \in Seeded(r) \ todo[r] : HasColumn(view[r], a)'
    BY <1>1, <1>3, <1>5 DEF ColumnsDone
  <2>2. \A a \in Attr : (\E n \in DOMAIN release[r].attrs :
                n < at[r] + 1 /\ a = release[r].attrs[n]) => HasColumn(view[r], a)'
    BY <1>5, <1>6, <1>7
  <2>3. QED
    BY <1>1, <1>2, <1>4, <2>1, <2>2 DEF ColumnsDone
<1>9. \A a \in Seeded(r)' : HasRow(a)'
  BY <1>1, <1>2, <1>3 DEF HasRow
<1>10. QED
  BY <1>2, <1>8, <1>9 DEF RunInv

LEMMA FinishInv ==
    ASSUME TypeOK, NEW r \in Runs, RunInv(r), Finish(r)
    PROVE  RunInv(r)'
<1>1. r \in Call /\ release' = release /\ Seeded(r)' = Seeded(r)
  BY SameRelease DEF Call, Provision
<1>2. /\ pc[r] = "fields" /\ pc'[r] = "done" /\ ~InLoop(r) /\ view' = view
      /\ attribute' = attribute /\ fields' = fields
  BY <1>1 DEF Finish, Go, TypeOK, tables, runLocals
<1>3. ColumnsDone(r) /\ \A a \in Seeded(r) : HasRow(a)
  BY <1>2 DEF RunInv
<1>4. \A a \in Seeded(r) : HasColumn(view[r], a)
  BY <1>2, <1>3, LoopEnds DEF ColumnsDone
<1>5. \A a \in Seeded(r)' : HasRow(a)' /\ HasColumn(view[r], a)'
  BY <1>1, <1>2, <1>3, <1>4 DEF HasRow, HasColumn, FieldsOf
<1>6. QED
  BY <1>2, <1>5 DEF RunInv

-----------------------------------------------------------------------------
(* The invariant.                                                           *)

LEMMA RunInvStep ==
    ASSUME TypeOK, \A q \in Runs : RunInv(q), OwnFields, [Next]_vars,
           NEW r \in Runs
    PROVE  RunInv(r)'
<1>1. RunInv(r) /\ RowsStay /\ FieldsStay
  BY RowsPersist, FieldsPersist
<1>2. CASE Keeps(r)
  BY <1>2, BystanderInv
<1>3. CASE Crash(r)
  BY <1>3, StartInv
<1>4. CASE Provision(r)
  BY <1>1, <1>4, StartInv, ReadAttributesInv, WriteAttributeInv, ContinueInv,
     ViewInv, ReadPathsInv, CreateFieldInv, CreatePathInv, FinishInv DEF Provision
<1>5. QED
  BY <1>2, <1>3, <1>4, StepOrFrame

LEMMA PathStep ==
    ASSUME TypeOK, NEW r \in Runs, Provision(r) \/ Crash(r), pc'[r] = "path"
    PROVE  CreateField(r)
<1>1. r \in Call /\ DOMAIN pc = Call
  BY DEF Call, TypeOK
<1>2. ~(FindEntity(r) \/ CreateEntity(r) \/ ReadAttributes(r) \/ WriteAttribute(r))
  BY <1>1 DEF FindEntity, CreateEntity, ReadAttributes, WriteAttribute, Go
<1>3. ~(Continue(r) \/ FindView(r) \/ CreateView(r) \/ ReadFields(r) \/ ReadPaths(r))
  BY <1>1 DEF Continue, FindView, CreateView, ReadFields, ReadPaths, Go
<1>4. ~(CreatePath(r) \/ Finish(r) \/ Crash(r))
  BY <1>1 DEF CreatePath, Finish, Crash, Go
<1>5. QED
  BY <1>2, <1>3, <1>4 DEF Provision

\* The field a run has just created is nobody else's: its id is new.
LEMMA NewFieldApart ==
    ASSUME TypeOK, \A q \in Runs : RunInv(q), NEW r \in Runs, NEW q \in Runs,
           q # r, Provision(r) \/ Crash(r), pc'[r] = "path", pc'[q] = "path"
    PROVE  known'[r] \cap known'[q] = {}
<1>1. Keeps(q)
  BY RunFrame
<1>2. pc[q] = "path" /\ known'[q] = known[q]
  BY <1>1 DEF Keeps
<1>3. known'[r] = {Len(fields) + 1}
  BY PathStep DEF CreateField, TypeOK
<1>4. \A i \in known[q] : i \in DOMAIN fields
  BY <1>2 DEF RunInv, OwnField
<1>5. Len(fields) + 1 \notin DOMAIN fields
  BY FieldType
<1>6. QED
  BY <1>2, <1>3, <1>4, <1>5

LEMMA OwnFieldsStep ==
    ASSUME TypeOK, \A q \in Runs : RunInv(q), OwnFields, [Next]_vars
    PROVE  OwnFields'
<1>1. SUFFICES ASSUME NEW r \in Runs, NEW q \in Runs, r # q,
                      pc'[r] = "path", pc'[q] = "path"
               PROVE  known'[r] \cap known'[q] = {}
  BY DEF OwnFields
<1>2. CASE Provision(r) \/ Crash(r)
  BY <1>1, <1>2, NewFieldApart
<1>3. CASE Provision(q) \/ Crash(q)
  BY <1>1, <1>3, NewFieldApart
<1>4. CASE Keeps(r) /\ Keeps(q)
  BY <1>1, <1>4 DEF OwnFields, Keeps
<1>5. QED
  BY <1>2, <1>3, <1>4, StepOrFrame

LEMMA MoveInvStep ==
    ASSUME TypeOK, \A r \in Runs : RunInv(r), [Next]_vars, NEW m \in Moves,
           MoveInv(m)
    PROVE  MoveInv(m)'
<1>1. /\ m \in Call /\ m \notin Runs /\ m \notin Changes /\ DOMAIN pc = Call
      /\ DOMAIN goal = Moves /\ DOMAIN aim = Moves /\ DOMAIN listed = Moves
  BY GridLayoutAssumption DEF Call, TypeOK
<1>2. FieldsStay
  BY FieldsPersist
<1>3. CASE /\ pc'[m] = pc[m] /\ goal'[m] = goal[m]
           /\ aim'[m] = aim[m] /\ listed'[m] = listed[m]
  BY <1>2, <1>3 DEF MoveInv, FieldsStay
<1>4. CASE UNCHANGED vars
  BY <1>3, <1>4 DEF vars, moveLocals
<1>5. ASSUME NEW r \in Runs, Provision(r) \/ Crash(r) PROVE MoveInv(m)'
  <2>1. \E to : pc' = pc \/ pc' = [pc EXCEPT ![r] = to]
    BY <1>5 DEF Provision, FindEntity, CreateEntity, ReadAttributes,
       WriteAttribute, Continue, FindView, CreateView, ReadFields, ReadPaths,
       CreateField, CreatePath, Finish, Crash, Go
  <2>2. goal' = goal /\ aim' = aim /\ listed' = listed
    BY <1>5 DEF Provision, FindEntity, CreateEntity, ReadAttributes,
       WriteAttribute, Continue, FindView, CreateView, ReadFields, ReadPaths,
       CreateField, CreatePath, Finish, Crash, moveLocals
  <2>3. QED
    BY <1>1, <1>3, <2>1, <2>2
<1>6. ASSUME NEW c \in Changes, Change(c) PROVE MoveInv(m)'
  BY <1>1, <1>3, <1>6 DEF Change, Go, moveLocals
<1>7. ASSUME NEW n \in Moves, ReadForMove(n) \/ WriteMove(n) PROVE MoveInv(m)'
  <2>1. CASE n = m
    <3>1. CASE ReadForMove(m)
      BY <3>1, ReadForMoveType
    <3>2. CASE WriteMove(m)
      <4>1. pc'[m] = "done"
        BY <1>1, <3>2 DEF WriteMove, Go
      <4>2. QED
        BY <4>1 DEF MoveInv
    <3>3. QED
      BY <1>7, <2>1, <3>1, <3>2
  <2>2. CASE n # m
    <3>1. pc'[m] = pc[m]
      BY <1>1, <1>7, <2>2 DEF ReadForMove, WriteMove, Aim, Go
    <3>2. goal'[m] = goal[m] /\ aim'[m] = aim[m] /\ listed'[m] = listed[m]
      BY <1>1, <1>7, <2>2 DEF ReadForMove, WriteMove, Aim, moveLocals
    <3>3. QED
      BY <1>3, <3>1, <3>2
  <2>3. QED
    BY <2>1, <2>2
<1>8. QED
  BY <1>4, <1>5, <1>6, <1>7 DEF Next

LEMMA TypeStep ==
    ASSUME IInv, [Next]_vars
    PROVE  TypeOK'
<1>1. TypeOK /\ (\A r \in Runs : RunInv(r)) /\ (\A m \in Moves : MoveInv(m))
  BY DEF IInv
<1>2. ASSUME NEW r \in Runs, Provision(r) \/ Crash(r) PROVE TypeOK'
  BY <1>1, <1>2, StartType, RowsType, ViewType, ColumnType DEF Provision
<1>3. ASSUME NEW c \in Changes, Change(c) PROVE TypeOK'
  BY <1>1, <1>3, ChangeType
<1>4. ASSUME NEW m \in Moves, ReadForMove(m) \/ WriteMove(m) PROVE TypeOK'
  BY <1>1, <1>4, ReadForMoveType, WriteMoveType
<1>5. CASE UNCHANGED vars
  <2>1. UNCHANGED <<entity, attribute, views, fields, pc, release, at, todo,
                    known, view, found, rank, listed, aim, goal, overlapped>>
    BY <1>5 DEF vars, tables, runLocals, moveLocals
  <2>2. QED
    BY <1>1, <2>1 DEF TypeOK
<1>6. QED
  BY <1>2, <1>3, <1>4, <1>5 DEF Next

LEMMA InitInv ==
    ASSUME Init
    PROVE  IInv
<1>1. \A c \in Call : pc[c] = "idle"
  BY DEF Init
<1>2. (\A r \in Runs : RunInv(r)) /\ OwnFields /\ (\A m \in Moves : MoveInv(m))
  BY <1>1 DEF RunInv, OwnFields, MoveInv, Call
<1>3. TypeOK
  <2>1. /\ entity \in BOOLEAN /\ attribute \in [Attr -> Nat \cup {None}]
        /\ views \in Nat /\ overlapped \in BOOLEAN
        /\ pc \in [Call -> Control]
    BY DEF Init, Control
  <2>2. fields \in Seq(Field)
    BY DEF Init
  <2>3. /\ release \in [Runs -> Releases] /\ at \in [Runs -> Nat \ {0}]
        /\ todo \in [Runs -> SUBSET Attr] /\ DOMAIN known = Runs
        /\ view \in [Runs -> Nat] /\ found \in [Runs -> BOOLEAN]
        /\ rank \in [Runs -> Int]
    BY DEF Init, Middle
  <2>4. /\ listed \in [Moves -> Seq(Nat)] /\ aim \in [Moves -> Nat]
        /\ goal \in [Moves -> [field : Nat, rank : Int \cup {None}]]
    BY DEF Init, Middle
  <2>5. QED
    BY <2>1, <2>2, <2>3, <2>4 DEF TypeOK
<1>4. QED
  BY <1>2, <1>3 DEF IInv

LEMMA NextInv ==
    ASSUME IInv, [Next]_vars
    PROVE  IInv'
<1>1. /\ TypeOK /\ (\A r \in Runs : RunInv(r)) /\ OwnFields
      /\ (\A m \in Moves : MoveInv(m))
  BY DEF IInv
<1>2. TypeOK'
  BY TypeStep
<1>3. \A r \in Runs : RunInv(r)'
  BY <1>1, RunInvStep
<1>4. OwnFields'
  BY <1>1, OwnFieldsStep
<1>5. \A m \in Moves : MoveInv(m)'
  BY <1>1, MoveInvStep
<1>6. QED
  BY <1>2, <1>3, <1>4, <1>5 DEF IInv

\* Every row and every local has its type, whoever stops where: in particular
\* a path is only written for an attribute of the release, and a move only
\* writes a rank that rankBetween has returned (provision.ts, move-view-field.ts).
THEOREM TypeCorrect == Spec => []TypeOK
<1>1. Init => IInv
  BY InitInv
<1>2. IInv /\ [Next]_vars => IInv'
  BY NextInv
<1>3. IInv => TypeOK
  BY DEF IInv
<1>4. QED
  BY <1>1, <1>2, <1>3, PTL DEF Spec

\* A provisionWorkspace that ends without an error has left every attribute of
\* its release with a row and a column, whatever earlier runs, crashed ones
\* among them, runs at the same time and recruiters have done to the tables.
THEOREM ColumnsComplete == Spec => []EveryAttributeHasColumn
<1>1. Init => IInv
  BY InitInv
<1>2. IInv /\ [Next]_vars => IInv'
  BY NextInv
<1>3. IInv => EveryAttributeHasColumn
  BY DEF IInv, RunInv, HasRow, HasColumn, EveryAttributeHasColumn
<1>4. QED
  BY <1>1, <1>2, <1>3, PTL DEF Spec

-----------------------------------------------------------------------------
(* Runs that follow one another.  Only a run adds columns, so while one is  *)
(* at work by itself what it has read of the view stays true, and its loop  *)
(* has ahead of it only attributes without a column.                        *)

Distinct ==
    \A i, j \in DOMAIN fields :
        i # j /\ fields[i].view = fields[j].view /\ fields[i].attr # None
            => fields[i].attr # fields[j].attr

\* The attributes that the loop is still to give a column have none.
NoneAhead(r) ==
    \A n \in DOMAIN release[r].attrs :
        n >= at[r] /\ release[r].attrs[n] \in todo[r]
            => ~HasColumn(view[r], release[r].attrs[n])

SoleInv(r) ==
    /\ pc[r] = "createView" => views = 0
    /\ pc[r] = "readPaths" => known[r] = FieldsOf(view[r])
    /\ pc[r] \in {"fields", "path"} => NoneAhead(r)
    /\ pc[r] = "path" => Current(r) \in todo[r]

Single == views <= 1 /\ Distinct

Alone == \A r, q \in Runs : Working(r) /\ Working(q) => r = q

Quiet == ~overlapped => Alone /\ Single /\ \A r \in Runs : SoleInv(r)

LEMMA KeysApart ==
    ASSUME TypeOK, NEW r \in Runs, NEW m \in DOMAIN release[r].attrs,
           NEW n \in DOMAIN release[r].attrs, m # n
    PROVE  release[r].attrs[m] # release[r].attrs[n]
<1>1. release[r] \in Releases
  BY DEF TypeOK
<1>2. QED
  BY <1>1, GridLayoutAssumption

(* What keeps the views and paths of the fields keeps who has which column. *)
LEMMA SameColumns ==
    ASSUME DOMAIN fields' = DOMAIN fields,
           \A i \in DOMAIN fields : /\ fields'[i].view = fields[i].view
                                    /\ fields'[i].attr = fields[i].attr
    PROVE  /\ Distinct => Distinct'
           /\ \A v : FieldsOf(v)' = FieldsOf(v)
           /\ \A v, a : HasColumn(v, a)' <=> HasColumn(v, a)
<1>1. \A v : FieldsOf(v)' = FieldsOf(v)
  BY DEF FieldsOf
<1>2. \A v, a : HasColumn(v, a)' <=> HasColumn(v, a)
  BY <1>1 DEF HasColumn, FieldsOf
<1>3. Distinct => Distinct'
  BY DEF Distinct
<1>4. QED
  BY <1>1, <1>2, <1>3

(* A step of a run that is not its first is a step of a run at work.        *)
LEMMA AtWork ==
    ASSUME TypeOK, NEW r \in Runs, Provision(r) \/ Crash(r), ~FindEntity(r)
    PROVE  Working(r)
<1>1. CASE Crash(r)
  BY <1>1 DEF Crash
<1>2. CASE Provision(r)
  BY <1>2 DEF Provision, CreateEntity, ReadAttributes, WriteAttribute, Continue,
     FindView, CreateView, ReadFields, ReadPaths, CreateField, CreatePath, Finish,
     Go, Working, Ended
<1>3. QED
  BY <1>1, <1>2

LEMMA OverlapStays ==
    ASSUME [Next]_vars, overlapped
    PROVE  overlapped'
  BY DEF Next, vars, Provision, FindEntity, CreateEntity, ReadAttributes,
     WriteAttribute, Continue, FindView, CreateView, ReadFields, ReadPaths,
     CreateField, CreatePath, Finish, Crash, Change, ReadForMove, WriteMove

(* Beside a run that steps, nobody is at work unless runs have overlapped.  *)
LEMMA OthersRest ==
    ASSUME TypeOK, Alone, NEW r \in Runs, Provision(r) \/ Crash(r), ~overlapped',
           NEW q \in Runs, q # r
    PROVE  ~Working(q)'
<1>1. Keeps(q)
  BY RunFrame
<1>2. Working(q)' <=> Working(q)
  BY <1>1 DEF Keeps, Working
<1>3. CASE FindEntity(r)
  BY <1>2, <1>3 DEF FindEntity
<1>4. CASE ~FindEntity(r)
  BY <1>2, <1>4, AtWork DEF Alone
<1>5. QED
  BY <1>3, <1>4

LEMMA EarlySole ==
    ASSUME TypeOK, NEW r \in Runs, Single,
           \/ FindEntity(r) \/ CreateEntity(r) \/ ReadAttributes(r)
           \/ WriteAttribute(r) \/ Finish(r) \/ Crash(r)
    PROVE  Single' /\ SoleInv(r)'
<1>1. r \in Call
  BY DEF Call
<1>2. fields' = fields /\ views' = views
  BY DEF FindEntity, CreateEntity, ReadAttributes, WriteAttribute, Finish, Crash,
     tables
<1>3. pc'[r] \in {"createEntity", "readAttributes", "attributes"} \cup Ended
  BY <1>1 DEF FindEntity, CreateEntity, ReadAttributes, WriteAttribute, Finish,
     Crash, Go, TypeOK, Ended
<1>4. Single'
  BY <1>2, SameColumns DEF Single
<1>5. SoleInv(r)'
  BY <1>3 DEF SoleInv, Ended
<1>6. QED
  BY <1>4, <1>5

LEMMA ContinueSole ==
    ASSUME TypeOK, NEW r \in Runs, Single, SoleInv(r), Continue(r)
    PROVE  Single' /\ SoleInv(r)'
<1>1. /\ fields' = fields /\ views' = views /\ pc' = pc /\ view' = view
      /\ todo' = todo /\ release' = release /\ at'[r] = at[r] + 1
      /\ pc[r] \in {"attributes", "fields"}
  BY DEF Continue, tables, TypeOK
<1>2. Single' /\ \A v, a : HasColumn(v, a)' <=> HasColumn(v, a)
  BY <1>1, SameColumns DEF Single
<1>3. CASE pc[r] = "attributes"
  BY <1>1, <1>2, <1>3 DEF SoleInv
<1>4. CASE pc[r] = "fields"
  <2>1. NoneAhead(r)
    BY <1>4 DEF SoleInv
  <2>2. at[r] \in Nat /\ \A n \in DOMAIN release[r].attrs : n \in Nat
    BY ReleaseType DEF TypeOK
  <2>3. NoneAhead(r)'
    BY <1>1, <1>2, <2>1, <2>2 DEF NoneAhead
  <2>4. QED
    BY <1>1, <1>2, <1>4, <2>3 DEF SoleInv
<1>5. QED
  BY <1>1, <1>3, <1>4

LEMMA ViewSole ==
    ASSUME TypeOK, NEW r \in Runs, Single, SoleInv(r),
           FindView(r) \/ CreateView(r) \/ ReadFields(r)
    PROVE  Single' /\ SoleInv(r)'
<1>1. r \in Call /\ fields' = fields
  BY DEF Call, FindView, CreateView, ReadFields, tables
<1>2. Distinct' /\ \A v : FieldsOf(v)' = FieldsOf(v)
  BY <1>1, SameColumns DEF Single
<1>3. CASE FindView(r)
  <2>1. views' = views /\ pc'[r] \in {"createView", "readFields"}
        /\ (pc'[r] = "createView" => views = 0)
    BY <1>1, <1>3 DEF FindView, Go, TypeOK, tables
  <2>2. QED
    BY <1>2, <2>1 DEF Single, SoleInv
<1>4. CASE CreateView(r)
  <2>1. pc[r] = "createView" /\ pc'[r] = "readFields" /\ views' = views + 1
    BY <1>1, <1>4 DEF CreateView, Go, TypeOK
  <2>2. views' = 1
    BY <2>1 DEF SoleInv
  <2>3. QED
    BY <1>2, <2>1, <2>2 DEF Single, SoleInv
<1>5. CASE ReadFields(r)
  <2>1. /\ pc'[r] = "readPaths" /\ views' = views /\ view' = view
        /\ known'[r] = FieldsOf(view[r])
    BY <1>1, <1>5 DEF ReadFields, Go, TypeOK, tables
  <2>2. (known[r] = FieldsOf(view[r]))'
    BY <1>2, <2>1
  <2>3. QED
    BY <1>2, <2>1, <2>2 DEF Single, SoleInv
<1>6. QED
  BY <1>3, <1>4, <1>5

LEMMA ReadPathsSole ==
    ASSUME TypeOK, NEW r \in Runs, Single, SoleInv(r), ReadPaths(r)
    PROVE  Single' /\ SoleInv(r)'
<1>1. /\ pc[r] = "readPaths" /\ pc'[r] = "fields" /\ fields' = fields
      /\ views' = views /\ view' = view /\ release' = release
      /\ todo'[r] = Seeded(r) \ Fielded(known[r])
  BY DEF ReadPaths, Go, Call, TypeOK, tables
<1>2. Single' /\ \A v, a : HasColumn(v, a)' <=> HasColumn(v, a)
  BY <1>1, SameColumns DEF Single
<1>3. known[r] = FieldsOf(view[r])
  BY <1>1 DEF SoleInv
<1>4. \A a \in Attr : HasColumn(view[r], a) => a \in Fielded(known[r])
  <2>1. \A a \in Attr : a # None
    BY GridLayoutAssumption
  <2>2. QED
    BY <1>3, <2>1 DEF HasColumn, Fielded, FieldsOf
<1>5. \A n \in DOMAIN release[r].attrs : release[r].attrs[n] \in Attr
  BY ReleaseType DEF Seeded
<1>6. NoneAhead(r)'
  BY <1>1, <1>2, <1>4, <1>5 DEF NoneAhead
<1>7. QED
  BY <1>1, <1>2, <1>6 DEF SoleInv

LEMMA CreateFieldSole ==
    ASSUME TypeOK, NEW r \in Runs, Single, SoleInv(r), CreateField(r)
    PROVE  Single' /\ SoleInv(r)'
<1>1. /\ pc[r] = "fields" /\ pc'[r] = "path" /\ views' = views /\ view' = view
      /\ at' = at /\ todo' = todo /\ release' = release
      /\ Current(r) \in todo[r]
  BY DEF CreateField, Go, Call, TypeOK
<1>2. PICK k \in Nat :
        /\ k \notin DOMAIN fields /\ DOMAIN fields' = DOMAIN fields \cup {k}
        /\ \A i \in DOMAIN fields : fields'[i] = fields[i]
        /\ fields'[k].attr = None
  <2>1. /\ DOMAIN fields = 1..Len(fields) /\ Len(fields) \in Nat
        /\ DOMAIN fields' = 1..(Len(fields) + 1)
        /\ \A i \in DOMAIN fields : fields'[i] = fields[i]
    BY AppendField, FieldType
  <2>2. fields'[Len(fields) + 1].attr = None
    <3>1. fields'[Len(fields) + 1] = NewField(r, Current(r))
      BY AppendField
    <3>2. NewField(r, Current(r)).attr = None
      BY DEF NewField
    <3>3. QED
      BY <3>1, <3>2
  <2>3. 1..(Len(fields) + 1) = 1..Len(fields) \cup {Len(fields) + 1}
    BY <2>1
  <2>4. Len(fields) + 1 \notin 1..Len(fields) /\ Len(fields) + 1 \in Nat
    BY <2>1
  <2>5. QED
    BY <2>1, <2>2, <2>3, <2>4
<1>3. Distinct'
  <2>1. Distinct
    BY DEF Single
  <2>2. SUFFICES ASSUME NEW i \in DOMAIN fields', NEW j \in DOMAIN fields', i # j,
                        fields'[i].view = fields'[j].view, fields'[i].attr # None
                 PROVE  fields'[i].attr # fields'[j].attr
    BY DEF Distinct
  <2>3. i \in DOMAIN fields
    BY <1>2, <2>2
  <2>4. CASE j = k
    BY <1>2, <2>2, <2>4
  <2>5. CASE j \in DOMAIN fields
    BY <1>2, <2>1, <2>2, <2>3, <2>5 DEF Distinct
  <2>6. QED
    BY <1>2, <2>4, <2>5
<1>4. \A v, a : a # None /\ HasColumn(v, a)' => HasColumn(v, a)
  BY <1>2 DEF HasColumn, FieldsOf
<1>5. \A n \in DOMAIN release[r].attrs : release[r].attrs[n] # None
  BY ReleaseType, GridLayoutAssumption DEF Seeded
<1>6. NoneAhead(r)'
  <2>1. NoneAhead(r)
    BY <1>1 DEF SoleInv
  <2>2. QED
    BY <1>1, <1>4, <1>5, <2>1 DEF NoneAhead
<1>7. (Current(r) \in todo[r])'
  BY <1>1 DEF Current
<1>8. QED
  BY <1>1, <1>3, <1>6, <1>7 DEF Single, SoleInv

LEMMA CreatePathSole ==
    ASSUME TypeOK, NEW r \in Runs, RunInv(r), Single, SoleInv(r), CreatePath(r)
    PROVE  Single' /\ SoleInv(r)'
<1>1. /\ pc[r] = "path" /\ pc'[r] = "fields" /\ views' = views /\ view' = view
      /\ at'[r] = at[r] + 1 /\ todo' = todo /\ release' = release
  BY DEF CreatePath, Go, Call, TypeOK
<1>2. Distinct /\ NoneAhead(r) /\ Current(r) \in todo[r]
  BY <1>1 DEF Single, SoleInv
<1>3. PICK k \in DOMAIN fields :
        known[r] = {k} /\ fields[k].view = view[r] /\ fields[k].attr = None
  BY <1>1 DEF RunInv, OwnField
<1>4. /\ DOMAIN fields' = DOMAIN fields
      /\ \A i \in DOMAIN fields :
            /\ fields'[i].view = fields[i].view
            /\ i # k => fields'[i].attr = fields[i].attr
      /\ fields'[k].attr = Current(r)
  BY <1>3, SetPath
<1>5. /\ at[r] \in DOMAIN release[r].attrs /\ at[r] \in Nat
      /\ \A n \in DOMAIN release[r].attrs : n \in Nat /\ release[r].attrs[n] # None
  <2>1. InLoop(r)
    BY <1>1 DEF RunInv
  <2>2. QED
    BY SMTT(30), <2>1, ReleaseType, GridLayoutAssumption DEF InLoop, TypeOK, Seeded
<1>6. ~HasColumn(view[r], Current(r))
  BY <1>2, <1>5 DEF NoneAhead, Current
<1>7. Distinct'
  <2>1. SUFFICES ASSUME NEW i \in DOMAIN fields', NEW j \in DOMAIN fields', i # j,
                        fields'[i].view = fields'[j].view, fields'[i].attr # None
                 PROVE  fields'[i].attr # fields'[j].attr
    BY DEF Distinct
  <2>2. \A l \in DOMAIN fields : fields[l].view = view[r] => fields[l].attr # Current(r)
    BY <1>6 DEF HasColumn, FieldsOf
  <2>3. CASE i = k
    BY <1>3, <1>4, <2>1, <2>2, <2>3
  <2>4. CASE j = k
    BY <1>3, <1>4, <2>1, <2>2, <2>4
  <2>5. CASE i # k /\ j # k
    BY <1>2, <1>4, <2>1, <2>5 DEF Distinct
  <2>6. QED
    BY <2>3, <2>4, <2>5
<1>8. \A v, a : HasColumn(v, a)' => HasColumn(v, a) \/ a = Current(r)
  BY <1>4 DEF HasColumn, FieldsOf
<1>9. NoneAhead(r)'
  <2>1. SUFFICES ASSUME NEW n \in DOMAIN release[r].attrs, n >= at[r] + 1,
                        release[r].attrs[n] \in todo[r]
                 PROVE  ~HasColumn(view[r], release[r].attrs[n])'
    BY <1>1 DEF NoneAhead
  <2>2. n # at[r] /\ n >= at[r]
    BY <1>5, <2>1
  <2>3. release[r].attrs[n] # Current(r)
    BY <1>5, <2>2, KeysApart DEF Current
  <2>4. ~HasColumn(view[r], release[r].attrs[n])
    BY <1>2, <2>1, <2>2 DEF NoneAhead
  <2>5. (view[r])' = view[r] /\ (release[r].attrs[n])' = release[r].attrs[n]
    BY <1>1
  <2>6. QED
    BY <1>8, <2>3, <2>4, <2>5
<1>10. QED
  BY <1>1, <1>7, <1>9 DEF Single, SoleInv

LEMMA QuietStep ==
    ASSUME TypeOK, \A r \in Runs : RunInv(r), Quiet, [Next]_vars
    PROVE  Quiet'
<1>1. SUFFICES ASSUME ~overlapped'
               PROVE  Alone' /\ Single' /\ \A r \in Runs : SoleInv(r)'
  BY DEF Quiet
<1>2. Alone /\ Single /\ \A r \in Runs : SoleInv(r)
  BY <1>1, OverlapStays DEF Quiet
<1>3. ASSUME NEW r \in Runs, Provision(r) \/ Crash(r)
      PROVE  Alone' /\ Single' /\ \A q \in Runs : SoleInv(q)'
  <2>1. \A q \in Runs : q # r => ~Working(q)'
    BY <1>1, <1>2, <1>3, OthersRest
  <2>2. Alone'
    BY <2>1 DEF Alone
  <2>3. Single' /\ SoleInv(r)'
    BY <1>2, <1>3, EarlySole, ContinueSole, ViewSole, ReadPathsSole,
       CreateFieldSole, CreatePathSole DEF Provision
  <2>4. \A q \in Runs : ~Working(q)' => SoleInv(q)'
    BY DEF Working, SoleInv, Ended
  <2>5. QED
    BY <2>1, <2>2, <2>3, <2>4
<1>4. CASE \/ UNCHANGED vars \/ (\E c \in Changes : Change(c))
           \/ \E m \in Moves : ReadForMove(m) \/ WriteMove(m)
  <2>1. \A r \in Runs : Keeps(r)
    BY <1>4, CallFrame DEF vars, runLocals, Keeps
  <2>2. views' = views
    BY <1>4 DEF vars, tables, Change, ReadForMove, WriteMove
  <2>3. /\ DOMAIN fields' = DOMAIN fields
        /\ \A i \in DOMAIN fields : /\ fields'[i].view = fields[i].view
                                    /\ fields'[i].attr = fields[i].attr
    <3>1. CASE fields' = fields
      BY <3>1
    <3>2. CASE (\E c \in Changes : Change(c)) \/ (\E m \in Moves : WriteMove(m))
      BY <3>2, LayoutSteps
    <3>3. QED
      BY <1>4, <3>1, <3>2 DEF vars, tables, ReadForMove
  <2>4. /\ Distinct => Distinct'
        /\ \A v : FieldsOf(v)' = FieldsOf(v)
        /\ \A v, a : HasColumn(v, a)' <=> HasColumn(v, a)
    BY <2>3, SameColumns
  <2>5. Alone' /\ Single'
    BY <1>2, <2>1, <2>2, <2>4 DEF Alone, Single, Working, Keeps
  <2>6. ASSUME NEW r \in Runs PROVE SoleInv(r)'
    <3>1. Keeps(r) /\ SoleInv(r)
      BY <1>2, <2>1
    <3>2. NoneAhead(r) => NoneAhead(r)'
      BY <3>1, <2>4 DEF NoneAhead, Keeps
    <3>3. Current(r)' = Current(r)
      BY <3>1 DEF Current, Keeps
    <3>4. known[r] = FieldsOf(view[r]) => (known[r] = FieldsOf(view[r]))'
      BY <3>1, <2>4 DEF Keeps
    <3>5. QED
      BY <3>1, <2>2, <3>2, <3>3, <3>4 DEF SoleInv, Keeps
  <2>7. QED
    BY <2>5, <2>6
<1>5. QED
  BY <1>3, <1>4 DEF Next

\* One default view and one column for an attribute, however many runs follow
\* one another and wherever each of them dies: provisionWorkspace matches a
\* field by the attribute it points at.
THEOREM NothingTwice == Spec => []OneOfEach
<1>1. Init => Quiet
  BY DEF Init, Quiet, Alone, Single, Distinct, SoleInv, Working, Call
<1>2. IInv /\ Quiet /\ [Next]_vars => Quiet'
  BY QuietStep DEF IInv
<1>3. Quiet => OneOfEach
  BY DEF Quiet, Single, Distinct, OneOfEach
<1>4. Init => IInv
  BY InitInv
<1>5. IInv /\ [Next]_vars => IInv'
  BY NextInv
<1>6. QED
  BY <1>1, <1>2, <1>3, <1>4, <1>5, PTL DEF Spec

-----------------------------------------------------------------------------
(* A grid that was found.                                                   *)

NoGridYet == {"idle", "createEntity", "readAttributes", "attributes", "createView"}

FoundLater == \A r \in Runs : pc[r] \in NoGridYet => ~found[r]

LEMMA FoundLaterStep ==
    ASSUME TypeOK, FoundLater, [Next]_vars
    PROVE  FoundLater'
<1>1. SUFFICES ASSUME NEW r \in Runs, pc'[r] \in NoGridYet PROVE ~found'[r]
  BY DEF FoundLater
<1>2. r \in Call /\ (pc[r] \in NoGridYet => ~found[r])
  BY DEF Call, FoundLater
<1>3. CASE Keeps(r)
  BY <1>1, <1>2, <1>3 DEF Keeps
<1>4. CASE FindView(r)
  <2>1. pc'[r] = IF views = 0 THEN "createView" ELSE "readFields"
    BY <1>2, <1>4 DEF FindView, Go, TypeOK
  <2>2. views = 0
    BY <1>1, <2>1 DEF NoGridYet
  <2>3. QED
    BY <1>4, <2>2 DEF FindView, TypeOK
<1>5. CASE \/ FindEntity(r) \/ CreateEntity(r) \/ ReadAttributes(r)
           \/ WriteAttribute(r)
  <2>1. pc[r] \in NoGridYet
    BY <1>5 DEF FindEntity, CreateEntity, ReadAttributes, WriteAttribute, Go,
       NoGridYet
  <2>2. found' = found
    BY <1>5 DEF FindEntity, CreateEntity, ReadAttributes, WriteAttribute, runLocals
  <2>3. QED
    BY <1>2, <2>1, <2>2
<1>6. CASE Continue(r)
  BY <1>1, <1>2, <1>6 DEF Continue
<1>7. CASE \/ CreateView(r) \/ ReadFields(r) \/ ReadPaths(r) \/ CreateField(r)
           \/ CreatePath(r) \/ Finish(r) \/ Crash(r)
  <2>1. pc'[r] \notin NoGridYet
    BY <1>2, <1>7 DEF CreateView, ReadFields, ReadPaths, CreateField, CreatePath,
       Finish, Crash, Go, TypeOK, NoGridYet
  <2>2. QED
    BY <1>1, <2>1
<1>8. QED
  BY <1>3, <1>4, <1>5, <1>6, <1>7, StepOrFrame DEF Provision

(* The orders a view can come in depend on the rows it shows and no other.  *)
LEMMA SameOrders ==
    ASSUME TypeOK, NEW v, Shown(v)' = Shown(v),
           \A i \in Shown(v) : /\ fields'[i].pinned = fields[i].pinned
                               /\ fields'[i].rank = fields[i].rank
    PROVE  Orders(Shown(v))' = Orders(Shown(v))
<1> DEFINE L(S) == [1..Cardinality(S) -> S]
           Sorted(s, n) == \A k \in 2..n : Before(s[k - 1], s[k])
<1>1. PICK S : S = Shown(v)
  OBVIOUS
<1>2. \A i, j \in S : Before(i, j)' <=> Before(i, j)
  BY <1>1 DEF Before
<1>3. Cardinality(S) \in Nat
  BY <1>1, FiniteShown
<1>4. \A s \in L(S) : \A k \in 2..Cardinality(S) : s[k - 1] \in S /\ s[k] \in S
  BY <1>3
<1>5. \A s \in L(S) :
        (\A k \in 2..Cardinality(S) : Before(s[k - 1], s[k]))'
            <=> \A k \in 2..Cardinality(S) : Before(s[k - 1], s[k])
  BY <1>2, <1>4
<1>6. Orders(S)' = Orders(S)
  BY <1>5 DEF Orders
<1>7. QED
  BY <1>1, <1>6

LEMMA KeptByRun ==
    ASSUME TypeOK, FoundLater, [Next]_vars, NEW r \in Runs, pc[r] # pc'[r], found[r]
    PROVE  (Orders(Shown(view[r])))' = Orders(Shown(view[r]))
<1>1. r \in Call /\ pc[r] \notin NoGridYet
  BY DEF Call, FoundLater
<1>2. Provision(r) \/ Crash(r)
  BY StepOrFrame DEF Keeps
<1>3. ~(\/ FindEntity(r) \/ CreateEntity(r) \/ ReadAttributes(r)
        \/ WriteAttribute(r) \/ FindView(r) \/ CreateView(r) \/ Continue(r))
  BY <1>1 DEF FindEntity, CreateEntity, ReadAttributes, WriteAttribute, FindView,
     CreateView, Continue, Go, NoGridYet
<1>4. \/ ReadFields(r) \/ ReadPaths(r) \/ CreateField(r) \/ CreatePath(r)
      \/ Finish(r) \/ Crash(r)
  BY <1>2, <1>3 DEF Provision
<1>5. view' = view
  BY <1>4 DEF ReadFields, ReadPaths, CreateField, CreatePath, Finish, Crash, runLocals
<1>6. PICK v : v = view[r]
  OBVIOUS
<1>7. /\ Shown(v)' = Shown(v)
      /\ \A i \in Shown(v) : /\ fields'[i].pinned = fields[i].pinned
                             /\ fields'[i].rank = fields[i].rank
  <2>1. CASE ReadFields(r) \/ ReadPaths(r) \/ Finish(r) \/ Crash(r)
    BY <2>1 DEF ReadFields, ReadPaths, Finish, Crash, tables, Shown, FieldsOf
  <2>2. CASE CreateField(r)
    <3>1. NewField(r, Current(r)).visible = FALSE
      BY DEF NewField
    <3>2. /\ DOMAIN fields' = 1..(Len(fields) + 1) /\ DOMAIN fields = 1..Len(fields)
          /\ Len(fields) \in Nat
          /\ \A i \in DOMAIN fields : fields'[i] = fields[i]
          /\ ~fields'[Len(fields) + 1].visible
      BY <2>2, <3>1, AppendField, FieldType
    <3>3. 1..(Len(fields) + 1) = 1..Len(fields) \cup {Len(fields) + 1}
      BY <3>2
    <3>4. QED
      BY <3>2, <3>3 DEF Shown, FieldsOf
  <2>3. CASE CreatePath(r)
    <3>1. /\ DOMAIN fields' = DOMAIN fields
          /\ \A i \in DOMAIN fields : /\ fields'[i].view = fields[i].view
                                      /\ fields'[i].visible = fields[i].visible
                                      /\ fields'[i].pinned = fields[i].pinned
                                      /\ fields'[i].rank = fields[i].rank
      BY <2>3, FieldType DEF CreatePath, Field
    <3>2. QED
      BY <3>1 DEF Shown, FieldsOf
  <2>4. QED
    BY <1>4, <2>1, <2>2, <2>3
<1>8. Orders(Shown(v))' = Orders(Shown(v))
  BY <1>7, SameOrders
<1>9. QED
  BY <1>5, <1>6, <1>8

\* A run takes a view it found as the user has arranged it: no statement of it
\* changes what the view shows or an order it may come in, because the columns
\* it adds are switched off (provision-workspace.ts).
THEOREM FoundGridStays == Spec => FoundGridKept
<1>1. Init => IInv /\ FoundLater
  BY InitInv DEF Init, FoundLater
<1>2. IInv /\ FoundLater /\ [Next]_vars => IInv' /\ FoundLater'
  BY NextInv, FoundLaterStep DEF IInv
<1>3. IInv /\ FoundLater /\ [Next]_vars =>
        [\A r \in Runs : pc[r] # pc'[r] /\ found[r]
            => (Orders(Shown(view[r])))' = Orders(Shown(view[r]))]_vars
  BY KeptByRun DEF IInv
<1>4. QED
  BY <1>1, <1>2, <1>3, PTL DEF Spec, FoundGridKept

-----------------------------------------------------------------------------
(* Where a move lands.                                                      *)

(* Before and Orders, for any fields.                                       *)
Precedes(F, i, j) ==
    \/ F[i].pinned /\ ~F[j].pinned
    \/ F[i].pinned = F[j].pinned /\ F[i].rank <= F[j].rank

Listing(F, S, s) ==
    /\ s \in [1..Cardinality(S) -> S]
    /\ {s[k] : k \in DOMAIN s} = S
    /\ \A k \in 2..Cardinality(S) : Precedes(F, s[k - 1], s[k])

LEMMA OrdersAreListings ==
    /\ \A v, s : s \in Orders(Shown(v)) <=> Listing(fields, Shown(v), s)
    /\ \A v, s : s \in Orders(Shown(v))' <=> Listing(fields', Shown(v)', s)
<1>1. \A i, j : /\ Before(i, j) <=> Precedes(fields, i, j)
                /\ Before(i, j)' <=> Precedes(fields', i, j)
  BY DEF Before, Precedes
<1>2. QED
  BY <1>1 DEF Orders, Listing

LEMMA LeastNat ==
    ASSUME NEW S \in SUBSET Nat, S # {}
    PROVE  \E n \in S : \A k \in S : n <= k
<1>1. IsWellFoundedOn(OpToRel(<, Nat), Nat)
  BY NatLessThanWellFounded
<1>2. PICK n \in S : \A k \in S : <<k, n>> \notin OpToRel(<, Nat)
  BY <1>1, WFMin
<1>3. \A k \in S : ~(k < n)
  BY <1>2 DEF OpToRel
<1>4. QED
  BY <1>3

(* A list holds every column once, and each before all that follow.         *)
LEMMA ListingSorted ==
    ASSUME NEW F, NEW S, IsFiniteSet(S),
           \A i \in S : F[i].pinned \in BOOLEAN /\ F[i].rank \in Int,
           NEW s, Listing(F, S, s)
    PROVE  /\ \A i, j \in DOMAIN s : s[i] = s[j] => i = j
           /\ \A i, j \in DOMAIN s : i < j => Precedes(F, s[i], s[j])
<1> DEFINE N == Cardinality(S)
<1>1. N \in Nat /\ s \in [1..N -> S] /\ DOMAIN s = 1..N
  BY FS_CardinalityType DEF Listing
<1>2. \A i, j \in DOMAIN s : s[i] = s[j] => i = j
  <2>1. s \in Surjection(1..N, S)
    BY <1>1, Fun_IsSurj DEF Listing
  <2>2. IsFiniteSet(1..N) /\ Cardinality(1..N) = N
    BY <1>1, FS_Interval
  <2>3. s \in Injection(1..N, S)
    BY <2>1, <2>2, FS_Surjection
  <2>4. QED
    BY <1>1, <2>3, Fun_InjectionProperties
<1>3. \A a, b, c \in S : Precedes(F, a, b) /\ Precedes(F, b, c) => Precedes(F, a, c)
  BY DEF Precedes
<1>4. \A k \in 2..N : Precedes(F, s[k - 1], s[k])
  BY DEF Listing
<1>5. ASSUME NEW i \in 1..N, NEW j \in 1..N, i < j, ~Precedes(F, s[i], s[j])
      PROVE  FALSE
  <2> DEFINE Bad == {k \in 1..N : i < k /\ ~Precedes(F, s[i], s[k])}
  <2>1. Bad \in SUBSET Nat /\ j \in Bad
    BY <1>1, <1>5
  <2>2. PICK k \in Bad : \A l \in Bad : k <= l
    <3> HIDE DEF Bad
    <3>1. QED
      BY <2>1, LeastNat
  <2>3. k \in 2..N /\ k - 1 \in 1..N /\ i <= k - 1
    BY <1>1, <2>2
  <2>4. k - 1 \notin Bad
    BY <2>2, <2>3
  <2>5. i = k - 1 \/ Precedes(F, s[i], s[k - 1])
    BY <2>3, <2>4
  <2>6. Precedes(F, s[k - 1], s[k])
    BY <1>4, <2>3
  <2>7. s[i] \in S /\ s[k - 1] \in S /\ s[k] \in S
    BY <1>1, <2>2, <2>3
  <2>8. Precedes(F, s[i], s[k])
    BY <1>3, <2>5, <2>6, <2>7
  <2>9. QED
    BY <2>2, <2>8
<1> HIDE DEF N
<1>6. QED
  BY <1>1, <1>2, <1>5

(* The first N of s are the columns of S, each once.                        *)
OnceEach(s, S, N) ==
    /\ \A i \in 1..N : s[i] \in S
    /\ \A i, j \in 1..N : s[i] = s[j] => i = j
    /\ \A x \in S : \E j \in 1..N : s[j] = x

(* They are the columns of S but f, each once.                              *)
OnceEachBut(f, s, S, N) ==
    /\ \A i \in 1..N : s[i] \in S /\ s[i] # f
    /\ \A i, j \in 1..N : s[i] = s[j] => i = j
    /\ \A x \in S : x # f => \E j \in 1..N : s[j] = x

(* So there are N of them.                                                 *)
LEMMA OnceEachCount ==
    ASSUME NEW n \in Nat, NEW u, NEW T, OnceEach(u, T, n)
    PROVE  Cardinality(T) = n
<1> DEFINE f == [i \in 1..n |-> u[i]]
<1>1. /\ f \in [1..n -> T] /\ \A i, j \in 1..n : f[i] = f[j] => i = j
      /\ \A x \in T : \E i \in 1..n : f[i] = x
  BY DEF OnceEach
<1>2. IsFiniteSet(1..n) /\ Cardinality(1..n) = n
  BY FS_Interval
<1> HIDE DEF f
<1>3. f \in Bijection(1..n, T)
  BY <1>1, Fun_IsBij
<1>4. ExistsBijection(1..n, T)
  BY <1>3, Fun_ExistsBij
<1>5. QED
  BY <1>2, <1>4, FS_Bijection

(* Column f comes strictly behind the first n of s and strictly before the  *)
(* others.                                                                  *)
Splits(F, f, s, n, N) ==
    /\ \A j \in 1..n : ~Precedes(F, f, s[j])
    /\ \A j \in (n + 1)..N : ~Precedes(F, s[j], f)

(* Such a column is at n + 1 in any list with it and the columns of s.      *)
LEMMA Placed ==
    ASSUME NEW F, NEW S, IsFiniteSet(S), NEW f \in S,
           \A i \in S : F[i].pinned \in BOOLEAN /\ F[i].rank \in Int,
           NEW N \in Nat, NEW s, OnceEachBut(f, s, S, N),
           NEW n \in 0..N, Splits(F, f, s, n, N),
           NEW t, Listing(F, S, t)
    PROVE  t[n + 1] = f
<1>0. /\ \A i \in 1..N : s[i] \in S
      /\ \A i, j \in 1..N : s[i] = s[j] => i = j
      /\ \A x \in S \ {f} : \E j \in 1..N : s[j] = x
      /\ \A j \in 1..N : s[j] # f
      /\ \A j \in 1..n : ~Precedes(F, f, s[j])
      /\ \A j \in (n + 1)..N : ~Precedes(F, s[j], f)
  BY DEF OnceEachBut, Splits
<1> USE <1>0
<1> DEFINE M == Cardinality(S)
<1>1. M \in Nat /\ t \in [1..M -> S] /\ DOMAIN t = 1..M
  BY FS_CardinalityType DEF Listing
<1>2. /\ \A i, j \in 1..M : t[i] = t[j] => i = j
      /\ \A i, j \in 1..M : i < j => Precedes(F, t[i], t[j])
  BY <1>1, ListingSorted
<1>3. \A x \in S : \E i \in 1..M : t[i] = x
  BY <1>1 DEF Listing
<1> HIDE DEF M
<1>4. PICK q \in 1..M : t[q] = f
  BY <1>3
<1>5. ASSUME NEW i \in 1..(q - 1) PROVE \E j \in 1..n : s[j] = t[i]
  <2>1. i \in 1..M /\ i < q /\ t[i] \in S \ {f}
    BY <1>1, <1>2, <1>4
  <2>2. PICK j \in 1..N : s[j] = t[i]
    BY <2>1
  <2>3. Precedes(F, t[i], f)
    BY <1>2, <1>4, <2>1
  <2>4. j \notin (n + 1)..N
    BY <2>2, <2>3
  <2>5. j \in 1..n
    BY <2>4
  <2>6. QED
    BY <2>2, <2>5
<1>6. ASSUME NEW j \in 1..n PROVE \E i \in 1..(q - 1) : s[j] = t[i]
  <2>1. j \in 1..N /\ s[j] \in S /\ s[j] # f
    OBVIOUS
  <2>2. PICK i \in 1..M : t[i] = s[j]
    BY <1>3, <2>1
  <2>3. ~(q < i) /\ i # q
    BY <1>2, <1>4, <2>1, <2>2
  <2>4. i \in 1..(q - 1)
    BY <1>1, <2>3
  <2>5. QED
    BY <2>2, <2>4
<1>7. PICK T : T = {t[i] : i \in 1..(q - 1)}
  OBVIOUS
<1>8. q - 1 = n
  <2>1. PICK m \in Nat : m = q - 1
    BY <1>1
  <2>2. (\A i \in 1..m : i \in 1..M) /\ \A i \in 1..n : i \in 1..N
    BY <1>1, <2>1
  <2>3. OnceEach(t, T, m)
    <3>1. \A x : x \in T <=> \E i \in 1..m : t[i] = x
      BY <1>7, <2>1
    <3>2. \A i, j \in 1..m : t[i] = t[j] => i = j
      BY <1>2, <2>2
    <3>3. QED
      BY <3>1, <3>2 DEF OnceEach
  <2>4. OnceEach(s, T, n)
    <3>1. ASSUME NEW x \in T PROVE \E j \in 1..n : s[j] = x
      <4>1. PICK i \in 1..(q - 1) : t[i] = x
        BY <1>7
      <4>2. QED
        BY <1>5, <4>1
    <3>2. ASSUME NEW j \in 1..n PROVE s[j] \in T
      BY <1>6, <1>7
    <3>3. \A i, j \in 1..n : s[i] = s[j] => i = j
      BY <2>2
    <3>4. QED
      BY <3>1, <3>2, <3>3 DEF OnceEach
  <2>5. Cardinality(T) = n
    <3>1. n \in Nat
      OBVIOUS
    <3>2. QED
      BY <2>4, <3>1, OnceEachCount
  <2>7. Cardinality(T) = m
    BY <2>1, <2>3, OnceEachCount
  <2>8. QED
    BY <2>1, <2>5, <2>7
<1>9. q = n + 1
  BY <1>1, <1>8
<1>10. QED
  BY <1>4, <1>9

(* Of two columns of o the first is before the second in s too.             *)
OrderedAs(o, s, N) ==
    \A i, j \in 1..(N - 1) : i < j =>
        \E a, b \in 1..N : a < b /\ o[i] = s[a] /\ o[j] = s[b]

(* The list without the column that is moved.                               *)
LEMMA OthersListed ==
    ASSUME NEW S, NEW N \in Nat, NEW s \in [1..N -> S], OnceEach(s, S, N),
           NEW k \in 1..N
    PROVE  /\ OnceEachBut(s[k], Others(s, k), S, N - 1)
           /\ Others(s, k) \in [1..(N - 1) -> S]
           /\ OrderedAs(Others(s, k), s, N)
<1>0. /\ \A i, j \in 1..N : s[i] = s[j] => i = j
      /\ \A x \in S : \E j \in 1..N : s[j] = x
  BY DEF OnceEach
<1> USE <1>0
<1> DEFINE o == Others(s, k)
           from(n) == IF n < k THEN n ELSE n + 1
<1>1. Len(s) = N
  OBVIOUS
<1>2. o = [n \in 1..(N - 1) |-> s[from(n)]]
  BY <1>1 DEF Others
<1>3. /\ \A n \in 1..(N - 1) : from(n) \in 1..N /\ from(n) # k
      /\ \A i, j \in 1..(N - 1) : i < j => from(i) < from(j)
  OBVIOUS
<1>4. \A a \in 1..N : a # k => \E n \in 1..(N - 1) : from(n) = a
  <2>1. SUFFICES ASSUME NEW a \in 1..N, a # k
                 PROVE  \E n \in 1..(N - 1) : from(n) = a
    OBVIOUS
  <2>2. CASE a < k
    <3>1. a \in 1..(N - 1) /\ from(a) = a
      BY <2>2
    <3>2. QED
      BY <3>1
  <2>3. CASE a > k
    <3>1. a - 1 \in 1..(N - 1) /\ from(a - 1) = a
      BY <2>3
    <3>2. QED
      BY <3>1
  <2>4. QED
    BY <2>1, <2>2, <2>3
<1> HIDE DEF from
<1>5. N - 1 \in Nat /\ Len(o) = N - 1 /\ o \in [1..(N - 1) -> S]
  <2>1. N - 1 \in Nat
    OBVIOUS
  <2>2. \A n \in 1..(N - 1) : s[from(n)] \in S
    BY <1>3
  <2>3. QED
    BY <1>2, <2>1, <2>2
<1>6. \A n \in 1..(N - 1) : o[n] = s[from(n)]
  BY <1>2
<1> HIDE DEF o
<1>7. OrderedAs(o, s, N)
  BY <1>3, <1>6 DEF OrderedAs
<1>8. \A i, j \in 1..(N - 1) : o[i] = o[j] => i = j
  <2>1. SUFFICES ASSUME NEW i \in 1..(N - 1), NEW j \in 1..(N - 1), o[i] = o[j]
                 PROVE  i = j
    OBVIOUS
  <2>2. from(i) = from(j)
    BY <1>3, <1>6, <2>1
  <2>3. from(i) \in Int /\ from(j) \in Int /\ ~(from(i) < from(j)) /\ ~(from(j) < from(i))
    BY <1>3, <2>2
  <2>4. QED
    BY <1>3, <2>3
<1>9. \A j \in 1..(N - 1) : o[j] # s[k]
  BY <1>3, <1>6
<1>10. \A x \in S \ {s[k]} : \E j \in 1..(N - 1) : o[j] = x
  <2>1. SUFFICES ASSUME NEW x \in S, x # s[k]
                 PROVE  \E j \in 1..(N - 1) : o[j] = x
    OBVIOUS
  <2>2. PICK a \in 1..N : s[a] = x /\ a # k
    BY <2>1
  <2>3. QED
    BY <1>4, <1>6, <2>2
<1>11. OnceEachBut(s[k], o, S, N - 1)
  BY <1>5, <1>8, <1>9, <1>10 DEF OnceEachBut
<1>12. QED
  BY <1>5, <1>7, <1>11 DEF o

(* In a sorted list the pinned columns are the first.                       *)
LEMMA LockedFirst ==
    ASSUME NEW S, \A i \in S : fields[i].pinned \in BOOLEAN /\ fields[i].rank \in Int,
           NEW N \in Nat, NEW s \in [1..N -> S],
           \A i, j \in 1..N : i < j => Precedes(fields, s[i], s[j])
    PROVE  \A j \in 1..N : fields[s[j]].pinned <=> j <= Locked(s)
<1> DEFINE Free == {j \in 1..(N + 1) : j = N + 1 \/ ~fields[s[j]].pinned}
           Pinned == {j \in 1..N : fields[s[j]].pinned}
<1>1. PICK n \in Free : \A j \in Free : n <= j
  <2>1. Free \in SUBSET Nat /\ N + 1 \in Free
    OBVIOUS
  <2> HIDE DEF Free
  <2>2. QED
    BY <2>1, LeastNat
<1>2. n \in 1..(N + 1)
  BY <1>1
<1>3. \A j \in 1..N : j < n => fields[s[j]].pinned
  <2>1. \A j \in 1..N : j < n => j \notin Free
    BY <1>1, <1>2
  <2>2. QED
    BY <2>1
<1>4. \A j \in 1..N : n <= j => ~fields[s[j]].pinned
  <2>1. SUFFICES ASSUME NEW j \in 1..N, n <= j
                 PROVE  ~fields[s[j]].pinned
    OBVIOUS
  <2>2. n \in 1..N /\ ~fields[s[n]].pinned
    BY <1>1, <1>2, <2>1
  <2>3. n = j \/ Precedes(fields, s[n], s[j])
    BY <2>1, <2>2
  <2>4. s[n] \in S /\ s[j] \in S
    BY <2>1, <2>2
  <2>5. QED
    BY <2>2, <2>3, <2>4 DEF Precedes
<1>5. Pinned = 1..(n - 1)
  BY <1>2, <1>3, <1>4
<1>6. Locked(s) = Cardinality(Pinned)
  BY DEF Locked
<1> HIDE DEF Pinned, Free
<1>7. Locked(s) = n - 1
  BY <1>2, <1>5, <1>6, FS_Interval
<1>8. QED
  BY <1>2, <1>3, <1>4, <1>7

(* The rank for a slot is above the one on its left and below the one on    *)
(* its right.                                                               *)
LEMMA RankBetween ==
    ASSUME NEW s, Len(s) \in Nat, NEW n \in 0..Len(s),
           \A j \in 1..Len(s) : fields[s[j]].rank \in Int,
           n \in 1..(Len(s) - 1) => Room(fields[s[n]].rank, fields[s[n + 1]].rank),
           NEW p, p = RankAt(s, n), p \in Int
    PROVE  /\ n >= 1 => fields[s[n]].rank < p
           /\ n < Len(s) => p < fields[s[n + 1]].rank
<1>1. CASE n >= 1 /\ n < Len(s)
  <2>1. PICK a \in Int : a = fields[s[n]].rank
    BY <1>1
  <2>2. PICK b \in Int : b = fields[s[n + 1]].rank
    BY <1>1
  <2>3. a + 1 < b
    BY <1>1, <2>1, <2>2 DEF Room
  <2>4. p = Between(a, b)
    <3>1. n > 0 /\ a # b
      BY <1>1, <2>3
    <3>2. QED
      BY <1>1, <2>1, <2>2, <3>1 DEF RankAt
  <2>5. a < p /\ p < b
    BY <2>3, <2>4 DEF Between
  <2>6. QED
    BY <2>1, <2>2, <2>5
<1>2. CASE n = 0 /\ n < Len(s)
  <2>1. p = fields[s[1]].rank - Step /\ fields[s[1]].rank \in Int
    BY <1>2 DEF RankAt
  <2>2. QED
    BY <1>2, <2>1 DEF Step
<1>3. CASE n >= 1 /\ ~(n < Len(s))
  <2>1. p = fields[s[n]].rank + Step /\ fields[s[n]].rank \in Int
    BY <1>3 DEF RankAt
  <2>2. QED
    BY <1>3, <2>1 DEF Step
<1>4. CASE n = 0 /\ ~(n < Len(s))
  BY <1>4
<1>5. QED
  BY <1>1, <1>2, <1>3, <1>4

(* The pinned columns can be counted.                                       *)
LEMMA LockedCount ==
    ASSUME NEW s, Len(s) \in Nat, DOMAIN s = 1..Len(s)
    PROVE  Locked(s) \in Nat
<1> DEFINE P == {j \in DOMAIN s : fields[s[j]].pinned}
<1>1. P \subseteq 1..Len(s)
  OBVIOUS
<1>2. IsFiniteSet(1..Len(s))
  BY FS_Interval
<1>3. Locked(s) = Cardinality(P)
  BY DEF Locked
<1> HIDE DEF P
<1>4. QED
  BY <1>1, <1>2, <1>3, FS_Subset, FS_CardinalityType

(* A move that writes what it has aimed at in the list that is still shown. *)
LEMMA WriteLands ==
    ASSUME TypeOK, NEW m \in Moves, MoveInv(m), pc[m] = "write", WriteMove(m),
           StillAsRead(m), SlotIsPlain(m)
    PROVE  Lands(m)'
<1> DEFINE f == goal[m].field
           p == goal[m].rank
           n == aim[m]
           t == listed[m]
<1>1. PICK v \in 1..views :
        /\ f \in FieldsOf(v) /\ t \in Orders(Shown(v))
        /\ \E k \in DOMAIN t : t[k] = f /\ p = RankAt(Others(t, k), n)
  BY DEF StillAsRead
<1>2. PICK k \in DOMAIN t : t[k] = f /\ p = RankAt(Others(t, k), n)
  BY <1>1
<1> DEFINE S == Shown(v)
           N == Cardinality(S)
           s == Others(t, k)
<1>3. /\ IsFiniteSet(S) /\ N \in Nat /\ S \subseteq DOMAIN fields
      /\ \A i \in S : fields[i].pinned \in BOOLEAN /\ fields[i].rank \in Int
  <2>1. S \subseteq DOMAIN fields
    BY DEF Shown, FieldsOf
  <2>2. \A i \in DOMAIN fields : fields[i].pinned \in BOOLEAN /\ fields[i].rank \in Int
    BY FieldType DEF Field
  <2>3. QED
    BY <2>1, <2>2, FiniteShown
<1>4. Listing(fields, S, t)
  BY <1>1, OrdersAreListings
<1>5. /\ t \in [1..N -> S] /\ DOMAIN t = 1..N /\ Len(t) = N
      /\ {t[i] : i \in 1..N} = S
      /\ \A i, j \in 1..N : t[i] = t[j] => i = j
      /\ \A i, j \in 1..N : i < j => Precedes(fields, t[i], t[j])
  <2>1. t \in [1..N -> S] /\ DOMAIN t = 1..N /\ {t[i] : i \in DOMAIN t} = S
    BY <1>4 DEF Listing
  <2>2. Len(t) = N
    BY <1>3, <2>1
  <2> HIDE DEF S, t
  <2>3. QED
    BY <1>3, <1>4, <2>1, <2>2, ListingSorted
<1>6. f \in S /\ n \in 0..(N - 1) /\ p \in Int
  <2>1. f \in S
    BY <1>2, <1>5
  <2>2. n \in Nat /\ n < Len(t) /\ p \in Int
    BY DEF MoveInv, TypeOK
  <2>3. QED
    BY <1>3, <1>5, <2>1, <2>2
<1>7. /\ Len(s) = N - 1 /\ s \in [1..(N - 1) -> S] /\ OnceEachBut(f, s, S, N - 1)
      /\ \A i, j \in 1..(N - 1) : i < j => Precedes(fields, s[i], s[j])
  <2> HIDE DEF S, t, N
  <2>1. k \in 1..N /\ OnceEach(t, S, N)
    <3>1. \A x \in S : \E i \in 1..N : t[i] = x
      BY <1>5
    <3>2. QED
      BY <1>5, <3>1 DEF OnceEach
  <2>2. PICK W, M, u, l : W = S /\ M = N /\ u = t /\ l = k
    OBVIOUS
  <2>3. M \in Nat /\ u \in [1..M -> W] /\ l \in 1..M
    BY <1>3, <1>5, <2>1, <2>2
  <2>4. OnceEach(u, W, M)
    BY <2>1, <2>2
  <2>5. /\ OnceEachBut(u[l], Others(u, l), W, M - 1)
        /\ Others(u, l) \in [1..(M - 1) -> W]
        /\ OrderedAs(Others(u, l), u, M)
    BY <2>3, <2>4, OthersListed
  <2>6. /\ OnceEachBut(f, s, S, N - 1) /\ s \in [1..(N - 1) -> S]
        /\ OrderedAs(s, t, N)
    BY <1>2, <2>2, <2>5 DEF s
  <2>7. N - 1 \in Nat
    BY <1>3, <1>6
  <2> HIDE DEF s, f
  <2>8. QED
    BY <1>5, <2>6, <2>7 DEF OrderedAs
<1>8. /\ N - 1 \in Nat
      /\ \A j \in 1..(N - 1) : s[j] \in S /\ s[j] # f
  <2> HIDE DEF S, N, s, t, f
  <2>1. QED
    BY <1>3, <1>6, <1>7 DEF OnceEachBut
<1>9. /\ IF fields[f].pinned THEN n <= Locked(s) ELSE n >= Locked(s)
      /\ n \in 1..(Len(s) - 1) => Room(fields[s[n]].rank, fields[s[n + 1]].rank)
  <2>1. PICK l : l = CHOOSE i \in DOMAIN t : t[i] = f
    OBVIOUS
  <2>2. l = k
    BY <1>2, <1>5, <2>1
  <2>3. QED
    BY <2>1, <2>2 DEF SlotIsPlain
<1> HIDE DEF S, N, s, t, f, p, n
<1>10. \A j \in 1..(N - 1) : fields[s[j]].pinned <=> j <= Locked(s)
  BY <1>3, <1>7, <1>8, LockedFirst
<1>11. /\ n >= 1 => fields[s[n]].rank < p
       /\ n < N - 1 => p < fields[s[n + 1]].rank
  <2>1. \A j \in 1..Len(s) : fields[s[j]].rank \in Int
    BY <1>3, <1>7, <1>8
  <2>2. n \in 0..Len(s) /\ Len(s) \in Nat
    BY <1>6, <1>7, <1>8
  <2>3. p = RankAt(s, n)
    BY <1>2 DEF s, p, n, t
  <2>4. QED
    BY <1>6, <1>7, <1>8, <1>9, <2>1, <2>2, <2>3, RankBetween
<1>12. /\ fields' = [fields EXCEPT ![f].rank = p] /\ f \in DOMAIN fields
       /\ goal' = goal /\ aim' = aim /\ views' = views
  BY <1>3, <1>6 DEF WriteMove, moveLocals, f, p
<1>13. /\ DOMAIN fields' = DOMAIN fields
       /\ \A i \in DOMAIN fields :
            /\ fields'[i].view = fields[i].view /\ fields'[i].visible = fields[i].visible
            /\ fields'[i].pinned = fields[i].pinned
            /\ fields'[i].rank = IF i = f THEN p ELSE fields[i].rank
  <2>1. \A i \in DOMAIN fields : fields[i] \in Field
    BY FieldType
  <2>2. QED
    BY <1>12, <2>1 DEF Field
<1>14. \A i \in S : fields'[i].pinned \in BOOLEAN /\ fields'[i].rank \in Int
  BY <1>3, <1>6, <1>13
<1>15. ASSUME NEW j \in 1..n
       PROVE  ~Precedes(fields', f, s[j])
  <2>1. j \in 1..(N - 1) /\ n \in 1..(N - 1) /\ s[j] \in S /\ s[n] \in S /\ s[j] # f
    BY <1>6, <1>7, <1>8
  <2>2. /\ fields'[s[j]].pinned = fields[s[j]].pinned
        /\ fields'[s[j]].rank = fields[s[j]].rank
        /\ fields'[f].pinned = fields[f].pinned /\ fields'[f].rank = p
    BY <1>3, <1>6, <1>13, <2>1
  <2>3. j = n \/ Precedes(fields, s[j], s[n])
    BY <1>7, <1>8, <2>1
  <2>4. fields[s[n]].rank < p
    BY <1>11, <2>1
  <2>5. fields[f].pinned => fields[s[j]].pinned /\ fields[s[n]].pinned
    <3>1. fields[f].pinned => n <= Locked(s)
      BY <1>9
    <3>2. fields[f].pinned => fields[s[n]].pinned
      BY <1>10, <2>1, <3>1
    <3>3. QED
      BY <1>3, <2>1, <2>3, <3>2 DEF Precedes
  <2>6. fields[s[j]].pinned = fields[f].pinned => fields[s[j]].rank < p
    <3>1. fields[s[j]].pinned = fields[s[n]].pinned => fields[s[j]].rank < p
      BY <1>3, <1>6, <2>1, <2>3, <2>4 DEF Precedes
    <3>2. ~fields[s[j]].pinned => ~fields[s[n]].pinned
      BY <1>3, <2>1, <2>3 DEF Precedes
    <3>3. QED
      BY <1>3, <1>6, <2>1, <2>5, <3>1, <3>2
  <2>7. QED
    BY <1>3, <1>6, <2>1, <2>2, <2>5, <2>6 DEF Precedes
<1>16. ASSUME NEW j \in (n + 1)..(N - 1)
       PROVE  ~Precedes(fields', s[j], f)
  <2>1. /\ j \in 1..(N - 1) /\ n + 1 \in 1..(N - 1) /\ n < N - 1
        /\ s[j] \in S /\ s[n + 1] \in S /\ s[j] # f
    BY <1>6, <1>7, <1>8
  <2>2. /\ fields'[s[j]].pinned = fields[s[j]].pinned
        /\ fields'[s[j]].rank = fields[s[j]].rank
        /\ fields'[f].pinned = fields[f].pinned /\ fields'[f].rank = p
    BY <1>3, <1>6, <1>13, <2>1
  <2>3. j = n + 1 \/ Precedes(fields, s[n + 1], s[j])
    BY <1>7, <1>8, <2>1
  <2>4. p < fields[s[n + 1]].rank
    BY <1>11, <2>1
  <2>5. ~fields[f].pinned => ~fields[s[j]].pinned /\ ~fields[s[n + 1]].pinned
    <3>1. ~fields[f].pinned => n >= Locked(s)
      BY <1>9
    <3>2. ~fields[f].pinned => ~(n + 1 <= Locked(s))
      <4>1. Locked(s) \in Nat
        BY LockedCount, <1>7, <1>8
      <4>2. QED
        BY <1>6, <3>1, <4>1
    <3>3. ~fields[f].pinned => ~fields[s[n + 1]].pinned
      BY <1>10, <2>1, <3>2
    <3>4. QED
      BY <1>3, <2>1, <2>3, <3>3 DEF Precedes
  <2>6. fields[s[j]].pinned = fields[f].pinned => p < fields[s[j]].rank
    <3>1. fields[s[j]].pinned = fields[s[n + 1]].pinned => p < fields[s[j]].rank
      BY <1>3, <1>6, <2>1, <2>3, <2>4 DEF Precedes
    <3>2. fields[s[j]].pinned => fields[s[n + 1]].pinned
      BY <1>3, <2>1, <2>3 DEF Precedes
    <3>3. QED
      BY <1>3, <1>6, <2>1, <2>5, <3>1, <3>2
  <2>7. QED
    BY <1>3, <1>6, <2>1, <2>2, <2>5, <2>6 DEF Precedes
<1>17. ASSUME NEW u, Listing(fields', S, u) PROVE u[n + 1] = f
  <2>1. Splits(fields', f, s, n, N - 1)
    BY <1>6, <1>15, <1>16, <1>8 DEF Splits
  <2>2. QED
    BY <1>3, <1>6, <1>7, <1>14, <1>17, <2>1, Placed
<1>18. \A w : f \in Shown(w)' => w = v
  <2>1. fields[f].view = v
    BY <1>6 DEF S, Shown, FieldsOf
  <2>2. QED
    BY <1>13, <2>1 DEF Shown, FieldsOf
<1>19. Shown(v)' = S
  BY <1>13 DEF S, Shown, FieldsOf
<1>20. goal'[m].field = f /\ aim'[m] = n
  BY <1>12 DEF f, n
<1>21. ASSUME NEW w \in 1..views', f \in Shown(w)', NEW u \in Orders(Shown(w))'
       PROVE  u[n + 1] = f
  <2>1. w = v
    BY <1>18, <1>21
  <2>2. Listing(fields', Shown(w)', u)
    BY OrdersAreListings
  <2>3. QED
    BY <1>17, <1>19, <2>1, <2>2
<1>22. QED
  BY <1>20, <1>21 DEF Lands

LEMMA LiftIsWrite ==
    ASSUME TypeOK, [Next]_vars, NEW m \in Moves, Lifts(m)
    PROVE  WriteMove(m)
<1>1. /\ m \in Call /\ m \notin Runs /\ m \notin Changes /\ DOMAIN pc = Call
      /\ pc[m] = "write" /\ pc'[m] = "done"
  BY GridLayoutAssumption DEF Call, TypeOK, Lifts
<1>2. CASE UNCHANGED vars
  BY <1>1, <1>2 DEF vars
<1>3. ASSUME NEW r \in Runs, Provision(r) \/ Crash(r) PROVE FALSE
  <2>1. \E to : pc' = pc \/ pc' = [pc EXCEPT ![r] = to]
    BY <1>3 DEF Provision, FindEntity, CreateEntity, ReadAttributes,
       WriteAttribute, Continue, FindView, CreateView, ReadFields, ReadPaths,
       CreateField, CreatePath, Finish, Crash, Go
  <2>2. QED
    BY <1>1, <2>1
<1>4. ASSUME NEW c \in Changes, Change(c) PROVE FALSE
  BY <1>1, <1>4 DEF Change, Go
<1>5. ASSUME NEW n \in Moves, ReadForMove(n) \/ WriteMove(n) PROVE WriteMove(m)
  <2>1. CASE n = m
    BY <1>1, <1>5, <2>1 DEF ReadForMove
  <2>2. CASE n # m
    BY <1>1, <1>5, <2>2 DEF ReadForMove, WriteMove, Aim, Go
  <2>3. QED
    BY <2>1, <2>2
<1>6. QED
  BY <1>2, <1>3, <1>4, <1>5 DEF Next

\* A move that writes while the list it has read is still what the view shows
\* puts the column in the slot that was asked for, whichever way the view lists
\* equal ranks: the pinned columns come first in it, and the new rank is between
\* those of the slot's neighbours (move-view-field.ts).
THEOREM MovesLand == Spec => MoveLands
<1>1. IInv /\ [Next]_vars =>
        [\A m \in Moves : Lifts(m) /\ SlotIsPlain(m) => Lands(m)']_vars
  <2>1. ASSUME IInv, [Next]_vars, NEW m \in Moves, Lifts(m), SlotIsPlain(m)
        PROVE  Lands(m)'
    <3>1. TypeOK /\ MoveInv(m) /\ pc[m] = "write" /\ StillAsRead(m)
      BY <2>1 DEF IInv, Lifts
    <3>2. WriteMove(m)
      BY <2>1, <3>1, LiftIsWrite
    <3>3. QED
      BY <2>1, <3>1, <3>2, WriteLands
  <2>2. QED
    BY <2>1
<1>2. Init => IInv
  BY InitInv
<1>3. IInv /\ [Next]_vars => IInv'
  BY NextInv
<1>4. QED
  BY <1>1, <1>2, <1>3, PTL DEF Spec, MoveLands

=============================================================================

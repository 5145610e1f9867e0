---------------------------- MODULE AtomicEdits ----------------------------
(***************************************************************************)
(* What editing a record promises: a submitted batch is judged against the *)
(* cells of one moment, and then either all of it is there or none of it,  *)
(* with a conflict exactly when one of its writes names a version that is  *)
(* not the cell's.                                                         *)
(***************************************************************************)
EXTENDS Integers, Sequences, FiniteSets

CONSTANTS Edit, Attr, Value, Batch, Forced, Absent, EarlierCells

VARIABLES
    cell,      \* [attribute -> [value, version, source]]
    batch,     \* batch[e]: the writes submitted, <<>> before
    outcome    \* outcome[e]

vars == <<cell, batch, outcome>>

Init ==
    /\ cell \in EarlierCells
    /\ batch = [e \in Edit |-> <<>>]
    /\ outcome = [e \in Edit |-> "none"]

Written(old, v, source) ==
    [value |-> v, version |-> old.version + 1, source |-> source]

Stale(old, w) == old # Absent /\ w.expected \notin {Forced, old.version}

\* The writes of a batch to an attribute that come before the n-th, and what
\* they make of its cell: a version for each, and the contents of the last.
Before(b, n, a) == {i \in DOMAIN b : i < n /\ b[i].attr = a}

Made(b, n, a, old) ==
    LET mine == Before(b, n, a)
        last == CHOOSE i \in mine : \A j \in mine : j <= i
    IN  IF mine = {} THEN old
        ELSE [value |-> b[last].value, version |-> old.version + Cardinality(mine),
              source |-> "human"]

\* A write of the batch clashes if it does not expect what those before it
\* make of the cell; if none does, this is what becomes of the cells.
Clashes(b, cells) ==
    \E i \in DOMAIN b : Stale(Made(b, i, b[i].attr, cells[b[i].attr]), b[i])

Played(b, cells) == [a \in Attr |-> Made(b, Len(b) + 1, a, cells[a])]

Submit(e) ==
    /\ batch[e] = <<>> /\ outcome[e] = "none"
    /\ batch'[e] \in Batch
    /\ batch' = [batch EXCEPT ![e] = batch'[e]]
    /\ UNCHANGED <<cell, outcome>>

Save(e) ==
    /\ batch[e] # <<>> /\ outcome[e] = "none"
    /\ ~Clashes(batch[e], cell)
    /\ cell' = Played(batch[e], cell)
    /\ outcome' = [outcome EXCEPT ![e] = "saved"]
    /\ UNCHANGED batch

Conflict(e) ==
    /\ batch[e] # <<>> /\ outcome[e] = "none"
    /\ Clashes(batch[e], cell)
    /\ outcome' = [outcome EXCEPT ![e] = "conflict"]
    /\ UNCHANGED <<cell, batch>>

Fail(e) ==
    /\ outcome[e] = "none"
    /\ outcome' = [outcome EXCEPT ![e] = "failed"]
    /\ UNCHANGED <<cell, batch>>

\* A single write, which yields to no version.
Force ==
    /\ \E a \in Attr, v \in Value, source \in {"human", "machine"} :
            /\ source = "machine" => cell[a].source # "human"
            /\ cell' = [cell EXCEPT ![a] = Written(@, v, source)]
    /\ UNCHANGED <<batch, outcome>>

Next == Force \/ \E e \in Edit : Submit(e) \/ Save(e) \/ Conflict(e) \/ Fail(e)

Spec == Init /\ [][Next]_vars
=============================================================================

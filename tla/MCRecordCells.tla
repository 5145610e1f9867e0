--------------------------- MODULE MCRecordCells ---------------------------
(* Instances of RecordCells for TLC.                                       *)
EXTENDS RecordCells, TLC

CONSTANTS a1, a2, a3, v1

Set(a, v, x) == [attr |-> a, value |-> v, expected |-> x]

\* Two cells, in both orders, pinned or not, one cell twice, and a batch whose
\* second cell the market owns.
WithMarket == {<<Set(a1, v1, 0), Set(a2, v1, Forced)>>,
               <<Set(a2, v1, 0), Set(a1, v1, 0)>>,
               <<Set(a1, v1, 0), Set(a1, v1, 1)>>,
               <<Set(a1, v1, 0), Set(a3, v1, Forced)>>}

\* The same two cells in both orders.
TwoPlans == {<<[attr |-> a1, value |-> v1], [attr |-> a2, value |-> v1]>>,
             <<[attr |-> a2, value |-> v1], [attr |-> a1, value |-> v1]>>}

Empty == {[a \in Attr |-> Absent]}
============================================================================

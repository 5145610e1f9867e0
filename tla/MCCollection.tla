---------------------------- MODULE MCCollection ----------------------------
(***************************************************************************)
(* Instances of Collection: an index of a few CRDs, one of which may have  *)
(* two records, around the limit of a range and the source's cap.          *)
(***************************************************************************)
EXTENDS Collection, TLC

One(n) == [crd |-> n, copy |-> 1]
Double(n) == [crd |-> n, copy |-> 2]

Records == {One(1), One(2), One(3), One(6), Double(2)}

\* Three records in two ranges and above the cap, and a CRD with two records.
Indexes == {{One(2), One(3), One(6)}, {One(2), Double(2)}}

=============================================================================

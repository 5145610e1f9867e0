--------------------------- MODULE MCPublication ---------------------------
(* Two pages of one and of two records, for TLC. *)
EXTENDS Publication, TLC

Filings == <<{1, 2}, {3}>>

Symmetry == Permutations(Publishers) \cup Permutations(Exporters)
=============================================================================

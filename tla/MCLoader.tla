------------------------------ MODULE MCLoader ------------------------------
(***************************************************************************)
(* Two or three collections, in which bob is registered with f, then gone, *)
(* and ann appears at g with a registration that lets her conduct business *)
(* only in the last.                                                       *)
(***************************************************************************)
EXTENDS Loader, TLC, Sequences

CONSTANTS ann, bob, f, g

Reg(a, b, conducts) == [adviser |-> a, firm |-> b, conducts |-> conducts]

People == <<{bob}, {ann, bob}, {ann, bob}>>
Rosters == <<{Reg(bob, f, TRUE)}, {Reg(ann, g, FALSE)}, {Reg(ann, g, TRUE)}>>

TwoPeople == <<{bob}, {ann, bob}>>
TwoRosters == <<{Reg(bob, f, TRUE)}, {Reg(ann, g, TRUE)}>>

Symmetry == Permutations(Loaders)
=============================================================================

--------------------------- MODULE MCInvitations ---------------------------
(***************************************************************************)
(* Two calls ask for the same address at the same time; the second names a *)
(* member as well.                                                         *)
(***************************************************************************)
EXTENDS Invitations

CONSTANTS c1, c2, new, member

Addresses == [c \in {c1, c2} |-> IF c = c1 THEN <<new>> ELSE <<member, new>>]
=============================================================================

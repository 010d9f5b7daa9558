---------------------------- MODULE MCOutgoing ----------------------------
(* Model values and symmetry for Outgoing.                                 *)
EXTENDS Outgoing, TLC

CONSTANTS r1, r2, r3

Symmetric == Permutations(Requests)
===========================================================================

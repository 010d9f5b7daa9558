----------------------------- MODULE MCLimits -----------------------------
(* Model values and symmetry for Limits.                                   *)
EXTENDS Limits, TLC

CONSTANTS k1, k2, c1, c2

Symmetric == Permutations(Keys) \cup Permutations(Callers)
===========================================================================

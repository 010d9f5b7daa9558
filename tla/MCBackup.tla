----------------------------- MODULE MCBackup -----------------------------
(* Model values and symmetry for Backup.                                   *)
EXTENDS Backup, TLC

CONSTANTS u1, c1, c2, kA, kB, p1, p2, j1, j2, home, out1

Symmetric == Permutations(Callers) \cup Permutations(Keys) \cup Permutations(Pools)
               \cup Permutations(Jobs) \cup Permutations(Outs)
===========================================================================

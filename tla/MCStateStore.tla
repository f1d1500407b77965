---------------------------- MODULE MCStateStore ----------------------------
(* Model-checking instance of StateStore. *)
EXTENDS StateStore, TLC

CONSTANTS p1, p2, k1, k2

Symmetry == Permutations(Procs)
=============================================================================

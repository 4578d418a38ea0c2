---------------------------- MODULE MCConductor ----------------------------
(* Small instances of Conductor for TLC.                                   *)
EXTENDS Conductor, TLC

CONSTANTS c1, c2, s1, s2, s3

GoroutineSymmetry == Permutations(Callers) \cup Permutations(Spawners)
=============================================================================

-------------------------- MODULE MCMysteryDialer --------------------------
(* Small instances of MysteryDialer for TLC.                               *)
EXTENDS MysteryDialer, TLC

CONSTANTS d1, d2, k1, k2

DialSymmetry == Permutations(Dials) \cup Permutations(Killers)
=============================================================================

------------------------------ MODULE MCIntake ------------------------------
(* Small instances of Intake for TLC.                                      *)
EXTENDS Intake

CONSTANTS e1, e2, p1, p2, l1, l2, s1, s2, c1

IntakeSymmetry ==
  Permutations(Endpoints) \cup Permutations(Proxies) \cup Permutations(Loaders)
    \cup Permutations(Spawners) \cup Permutations(Consumers)
=============================================================================

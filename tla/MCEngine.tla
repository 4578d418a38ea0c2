------------------------------ MODULE MCEngine ------------------------------
(* Small instances of Engine for TLC.                                      *)
EXTENDS Engine

CONSTANTS c1, e1, p1, l1, s1, s2
=============================================================================

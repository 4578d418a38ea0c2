---------------------------- MODULE MCAutoScaler ----------------------------
(* A small instance of AutoScaler for TLC.                                 *)
EXTENDS AutoScaler

CONSTANTS g1, g2
=============================================================================

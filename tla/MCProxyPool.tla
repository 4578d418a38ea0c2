---------------------------- MODULE MCProxyPool ----------------------------
(* Small instances of ProxyPool for TLC.                                   *)
EXTENDS ProxyPool, TLC

CONSTANTS p1, p2, q1, q2, w1, w2, d1, d2

\* Every proxy under an endpoint of its own, or all objects under one.
OwnEndpoint == [p \in Proxies |-> p]
OneEndpoint == [p \in Proxies |-> p1]

DialAndAny == [d \in Dispensers |-> IF d = d1 THEN "dial" ELSE "any"]
DialAndStr == [d \in Dispensers |-> IF d = d1 THEN "dial" ELSE "str"]
OnlyDial == [d \in Dispensers |-> "dial"]
OnlyAny == [d \in Dispensers |-> "any"]
OnlyStr == [d \in Dispensers |-> "str"]

ProtoSymmetry == Permutations(Protos)
WorkerSymmetry == Permutations(Workers) \cup Permutations(Protos)
=============================================================================

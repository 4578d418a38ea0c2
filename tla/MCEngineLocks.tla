---- MODULE MCEngineLocks ----
(* Two goroutines, each of which may make any call. *)
EXTENDS EngineLocks
CONSTANTS t1, t2
AnyCall == [t \in {t1, t2} |-> DOMAIN Script]
====

---------------------------- MODULE DialOutcomes ----------------------------
(***************************************************************************)
(* What the dialer promises its callers, without proxies, attempts or      *)
(* channels: a call comes to one outcome, and the connection it may be     *)
(* stays open until the context of the call, the end of the engine or a    *)
(* CloseAllConns gives a reason to close it.  While calls of CloseAllConns *)
(* run they end what they like; once the last has returned, one thing more *)
(* may follow.                                                             *)
(***************************************************************************)
EXTENDS Naturals

CONSTANT Calls

VARIABLES
  own,       \* the calls that have a context of their own to be ended by
  outcome,   \* outcome[d]: "none" yet, "open", "closed", "err" or "killed"
  ended,     \* ended[d]: that context is done
  closed,    \* the engine is closed
  killing,   \* a CloseAllConns is running
  spare      \* things the last CloseAllConns may still end

vars == <<own, outcome, ended, closed, killing, spare>>

Init ==
  /\ own \in SUBSET Calls
  /\ outcome = [d \in Calls |-> "none"]
  /\ ended = [d \in Calls |-> FALSE]
  /\ closed = FALSE /\ killing = FALSE /\ spare = 0

Becomes(d, o) == outcome' = [outcome EXCEPT ![d] = o]

\* CloseAllConns ends a call or a connection.
Kill ==
  \/ killing /\ UNCHANGED spare
  \/ ~killing /\ spare = 1 /\ spare' = 0

Finish(d) ==
  /\ outcome[d] = "none"
  /\ \/ (Becomes(d, "open") \/ Becomes(d, "err")) /\ UNCHANGED spare
     \/ Becomes(d, "killed") /\ Kill
  /\ UNCHANGED <<own, ended, closed, killing>>

CloseConn(d) ==
  /\ outcome[d] = "open"
  /\ Becomes(d, "closed")
  /\ \/ (ended[d] \/ closed) /\ UNCHANGED spare
     \/ Kill
  /\ UNCHANGED <<own, ended, closed, killing>>

End(d) ==
  /\ d \in own
  /\ ended' = [ended EXCEPT ![d] = TRUE]
  /\ UNCHANGED <<own, outcome, closed, killing, spare>>

Close ==
  /\ closed' = TRUE
  /\ UNCHANGED <<own, outcome, ended, killing, spare>>

CloseAllConns ==
  /\ ~killing
  /\ killing' = TRUE /\ spare' = 0
  /\ UNCHANGED <<own, outcome, ended, closed>>

CloseAllConnsReturns ==
  /\ killing
  /\ killing' = FALSE /\ spare' = 1
  /\ UNCHANGED <<own, outcome, ended, closed>>

Next ==
  \/ \E d \in Calls : Finish(d) \/ CloseConn(d) \/ End(d)
  \/ Close \/ CloseAllConns \/ CloseAllConnsReturns

Spec == Init /\ [][Next]_vars
=============================================================================

--------------------------- MODULE VerifiedLedger ---------------------------
(***************************************************************************)
(* What the lists of verified proxies promise, without lists, locks or     *)
(* protocols: a proxy is handed to a caller only against a verification    *)
(* that a worker has made, and each verification is good for one hand-out. *)
(* Verifications may be lost (a stale, rate limited or busy proxy is       *)
(* dropped), never counted twice.                                          *)
(***************************************************************************)
EXTENDS Naturals

CONSTANTS Proxies, Workers, Dispensers, NoProxy

VARIABLES
  earned,  \* earned[w]: the proxy worker w has verified and not yet credited
  credit,  \* credit[p]: verifications of p not spent yet
  handed   \* handed[d]: the proxy caller d was given, NoProxy between calls

vars == <<earned, credit, handed>>

Init ==
  /\ earned = [w \in Workers |-> NoProxy]
  /\ credit = [p \in Proxies |-> 0]
  /\ handed = [d \in Dispensers |-> NoProxy]

\* A validation succeeded.
Verify(w, p) ==
  /\ earned[w] = NoProxy
  /\ earned' = [earned EXCEPT ![w] = p]
  /\ UNCHANGED <<credit, handed>>

Credit(w, p) ==
  /\ earned[w] = p
  /\ earned' = [earned EXCEPT ![w] = NoProxy]
  /\ credit' = [credit EXCEPT ![p] = @ + 1]
  /\ UNCHANGED handed

Spend(p) ==
  /\ credit[p] > 0
  /\ credit' = [credit EXCEPT ![p] = @ - 1]

HandOut(d, p) ==
  /\ handed[d] = NoProxy
  /\ Spend(p)
  /\ handed' = [handed EXCEPT ![d] = p]
  /\ UNCHANGED earned

Drop(p) == Spend(p) /\ UNCHANGED <<earned, handed>>

\* The caller is done with the proxy it was given.
Finish(d) ==
  /\ handed[d] # NoProxy
  /\ handed' = [handed EXCEPT ![d] = NoProxy]
  /\ UNCHANGED <<earned, credit>>

Next ==
  \/ \E p \in Proxies : Drop(p) \/ \E w \in Workers : Verify(w, p) \/ Credit(w, p)
  \/ \E d \in Dispensers : Finish(d) \/ \E p \in Proxies : HandOut(d, p)

Spec == Init /\ [][Next]_vars
=============================================================================

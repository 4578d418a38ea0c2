---------------------------- MODULE MysteryDialer ----------------------------
(***************************************************************************)
(* Dial, DialContext and DialTimeout (mystery_dialer.go), from the call to *)
(* the connection and the goroutine that watches over it, with             *)
(* CloseAllConns and Close (conductor.go), which end both by the channel   *)
(* conKiller and by the context of the engine.                             *)
(*                                                                         *)
(* The proxies are not told apart: ProxyPool says who holds one and why it *)
(* is good.  Here it matters whether there is one, for GetAnySOCKS waits   *)
(* until there is.  A call is only made on an engine that has validated a  *)
(* proxy once: isEmpty, which refuses others, is false from then on.       *)
(***************************************************************************)
EXTENDS Integers

CONSTANTS
  Dials,     \* calls of the three, each made once
  Killers,   \* calls of CloseAllConns, each made once
  Bailout    \* opt.dialerBailout, the same throughout

ASSUME DialerAssumption == Bailout \in Int

VARIABLES
  kind,       \* kind[d]: which of the three d is
  pc,         \* where d is; "ok", "err", "gaveUp" and "killed" once it has returned
  count,      \* count[d]: attempts that have failed
  late,       \* late[d]: attempts begun since Close
  ctxDone,    \* ctxDone[d]: the context of the call is done
  conn,       \* conn[d]: "none", "open", "closed"
  closed,     \* the context of the engine is done
  conKiller,  \* tokens in the channel
  kpc,        \* where each CloseAllConns is
  stocked     \* GetAnySOCKS finds a good proxy

callVars == <<kind, count, late>>
engineVars == <<closed, stocked>>
killVars == <<conKiller, kpc>>
vars == <<callVars, engineVars, pc, ctxDone, conn, killVars>>

Returned == {"ok", "err", "gaveUp", "killed"}
Goto(d, l) == pc' = [pc EXCEPT ![d] = l]
UnderWay == {d \in Dials : pc[d] \notin {"idle"} \cup Returned}

TypeOK ==
  /\ kind \in [Dials -> {"Dial", "DialContext", "DialTimeout"}]
  /\ pc \in [Dials -> {"idle", "check", "round", "visit", "sock", "connect",
                       "return"} \cup Returned]
  /\ count \in [Dials -> Nat] /\ late \in [Dials -> Nat]
  /\ ctxDone \in [Dials -> BOOLEAN]
  /\ conn \in [Dials -> {"none", "open", "closed"}]
  /\ \A d \in Dials : conn[d] # "none" <=> pc[d] \in {"return", "ok"}
  /\ closed \in BOOLEAN /\ stocked \in BOOLEAN
  /\ conKiller \in 0..1
  /\ kpc \in [Killers -> {"idle", "loop", "last", "done"}]

Init ==
  /\ kind \in [Dials -> {"Dial", "DialContext", "DialTimeout"}]
  /\ pc = [d \in Dials |-> "idle"]
  /\ count = [d \in Dials |-> 0] /\ late = [d \in Dials |-> 0]
  /\ ctxDone = [d \in Dials |-> FALSE]
  /\ conn = [d \in Dials |-> "none"]
  /\ closed = FALSE /\ stocked = FALSE
  /\ conKiller = 0
  /\ kpc = [k \in Killers |-> "idle"]

-----------------------------------------------------------------------------
(* The call.                                                               *)

\* A token is taken from the channel.
Take ==
  /\ conKiller > 0
  /\ conKiller' = conKiller - 1

Call(d) ==
  /\ pc[d] = "idle"
  /\ Goto(d, "check")
  /\ UNCHANGED <<kind, count, late, engineVars, ctxDone, conn, killVars>>

\* Mutant: one try more.
BailedLate(d) == count[d] > Bailout + 1

Bailed(d) == count[d] > Bailout

\* The tries come first, then the contexts, the channel and the timer, which may
\* have run out by any look: of several ready cases the select takes any, and a
\* token off the channel if it is that one.
Check(d) ==
  /\ pc[d] = "check"
  /\ \/ Bailed(d) /\ Goto(d, "gaveUp") /\ UNCHANGED conKiller
     \/ ~Bailed(d) /\ Goto(d, "err") /\ UNCHANGED conKiller
     \/ /\ ~Bailed(d) /\ ~ctxDone[d] /\ Take
        /\ Goto(d, "killed")
     \/ /\ ~Bailed(d) /\ ~ctxDone[d] /\ ~closed /\ conKiller = 0
        /\ Goto(d, "round")
        /\ UNCHANGED conKiller
  /\ UNCHANGED <<callVars, engineVars, ctxDone, conn, kpc>>

\* Mutant: the context of the call is not looked at.
RoundSpins(d) ==
  /\ pc[d] = "round"
  /\ Goto(d, IF closed THEN "round" ELSE "visit")
  /\ UNCHANGED <<callVars, engineVars, ctxDone, conn, killVars>>

\* A round of GetAnySOCKS begins: on a closed engine it returns no proxy, and
\* popSockAndLockIt looks at the context of the call before it is asked again.
Round(d) ==
  /\ pc[d] = "round"
  /\ Goto(d, IF ~closed THEN "visit" ELSE IF ctxDone[d] THEN "err" ELSE "round")
  /\ UNCHANGED <<callVars, engineVars, ctxDone, conn, killVars>>

\* A round that finds none is followed by another one.
Visit(d) ==
  /\ pc[d] = "visit"
  /\ Goto(d, IF ~stocked THEN "round" ELSE IF ctxDone[d] THEN "err" ELSE "sock")
  /\ UNCHANGED <<callVars, engineVars, ctxDone, conn, killVars>>

\* The proxy may be locked by another call and is put back, or the middleware
\* does not like it.
Sock(d) ==
  /\ pc[d] = "sock"
  /\ \E l \in {"round", "check", "connect"} :
       /\ Goto(d, l)
       /\ late' = [late EXCEPT ![d] = IF l = "connect" /\ closed THEN @ + 1 ELSE @]
  /\ UNCHANGED <<kind, count, engineVars, ctxDone, conn, killVars>>

\* Mutant: the same proxy once more, without a look at the contexts.
ConnectAgain(d) ==
  /\ pc[d] = "connect"
  /\ count' = [count EXCEPT ![d] = @ + 1]
  /\ Goto(d, "sock")
  /\ UNCHANGED <<kind, late, engineVars, ctxDone, conn, killVars>>

ConnectFails(d) ==
  /\ pc[d] = "connect"
  /\ count' = [count EXCEPT ![d] = @ + 1]
  /\ Goto(d, "check")
  /\ UNCHANGED <<kind, late, engineVars, ctxDone, conn, killVars>>

Connect(d) ==
  /\ pc[d] = "connect"
  /\ conn' = [conn EXCEPT ![d] = "open"]
  /\ Goto(d, "return")
  /\ UNCHANGED <<callVars, engineVars, ctxDone, killVars>>

\* Mutant: every call cancels its context on the way out.
ReturnCancels(d) ==
  /\ pc[d] = "return"
  /\ ctxDone' = [ctxDone EXCEPT ![d] = TRUE]
  /\ Goto(d, "ok")
  /\ UNCHANGED <<callVars, engineVars, conn, killVars>>

\* DialTimeout cancels its context on the way out.
Return(d) ==
  /\ pc[d] = "return"
  /\ ctxDone' = [ctxDone EXCEPT ![d] = @ \/ kind[d] = "DialTimeout"]
  /\ Goto(d, "ok")
  /\ UNCHANGED <<callVars, engineVars, conn, killVars>>

mysteryDialer(d) ==
  Check(d) \/ Round(d) \/ Visit(d) \/ Sock(d) \/ ConnectFails(d) \/ Connect(d) \/ Return(d)

\* Mutant: the watcher does not listen to the engine's context.
WatchLess(d) ==
  /\ conn[d] = "open" /\ ctxDone[d]
  /\ conn' = [conn EXCEPT ![d] = "closed"]
  /\ UNCHANGED <<callVars, engineVars, pc, ctxDone, killVars>>

\* The goroutine of the connection.
Watch(d) ==
  /\ conn[d] = "open"
  /\ \/ (ctxDone[d] \/ closed) /\ UNCHANGED conKiller
     \/ Take
  /\ conn' = [conn EXCEPT ![d] = "closed"]
  /\ UNCHANGED <<callVars, engineVars, pc, ctxDone, kpc>>

-----------------------------------------------------------------------------
(* What happens to it.                                                     *)

\* The deadline of DialTimeout, or the caller of DialContext gives up.
CtxEnds(d) ==
  /\ pc[d] \notin {"idle", "err", "gaveUp", "killed"} /\ kind[d] # "Dial" /\ ~ctxDone[d]
  /\ ctxDone' = [ctxDone EXCEPT ![d] = TRUE]
  /\ UNCHANGED <<kind, count, late, engineVars, pc, conn, killVars>>

Stock(b) ==
  /\ stocked' = b
  /\ UNCHANGED <<callVars, closed, pc, ctxDone, conn, killVars>>

CloseAllConns(k) ==
  /\ kpc[k] = "idle"
  /\ kpc' = [kpc EXCEPT ![k] = "loop"]
  /\ UNCHANGED <<callVars, engineVars, pc, ctxDone, conn, conKiller>>

KillOne(k) ==
  /\ kpc[k] = "loop" /\ conKiller = 0
  /\ conKiller' = 1
  /\ UNCHANGED <<callVars, engineVars, pc, ctxDone, conn, kpc>>

\* The ticker or the closed engine ends the loop, whatever is still open.
KillEnough(k) ==
  /\ kpc[k] = "loop"
  /\ kpc' = [kpc EXCEPT ![k] = "last"]
  /\ UNCHANGED <<callVars, engineVars, pc, ctxDone, conn, conKiller>>

\* Mutant: it finds room in a full channel.
KillLastOver(k) ==
  /\ kpc[k] = "last"
  /\ conKiller' = conKiller + 1
  /\ kpc' = [kpc EXCEPT ![k] = "done"]
  /\ UNCHANGED <<callVars, engineVars, pc, ctxDone, conn>>

\* The deferred send, which does not wait for room.
KillLast(k) ==
  /\ kpc[k] = "last"
  /\ conKiller' = 1
  /\ kpc' = [kpc EXCEPT ![k] = "done"]
  /\ UNCHANGED <<callVars, engineVars, pc, ctxDone, conn>>

Close ==
  /\ closed' = TRUE
  /\ UNCHANGED <<callVars, stocked, pc, ctxDone, conn, killVars>>

Next ==
  \/ \E d \in Dials : Call(d) \/ mysteryDialer(d) \/ Watch(d) \/ CtxEnds(d)
  \/ \E k \in Killers : CloseAllConns(k) \/ KillOne(k) \/ KillEnough(k) \/ KillLast(k)
  \/ Close \/ \E b \in BOOLEAN : Stock(b)

Spec == Init /\ [][Next]_vars

(***************************************************************************)
(* Goroutines keep running: a call goes on, its dials through a proxy end, *)
(* for their URI carries a timeout.                                        *)
(***************************************************************************)
FairSpec ==
  Spec /\ \A d \in Dials : WF_vars(mysteryDialer(d)) /\ WF_vars(Watch(d))

-----------------------------------------------------------------------------
(* What the dialer promises.                                               *)

\* A call gives up exactly when all its tries have failed: the first one and
\* Bailout redials, as "The dialer will attempt to redial a destination ... a
\* specified amount of times before it gives up" says, and one more than "giving
\* up after %d tries" does.  Rounds without a proxy and proxies the middleware
\* refuses are no tries.
Tries == IF Bailout < 0 THEN 0 ELSE Bailout + 1

GivesUpSpent ==
  \A d \in Dials :
    /\ count[d] <= Tries
    /\ pc[d] \notin {"idle", "check"} => (pc[d] = "gaveUp" <=> count[d] = Tries)

\* A call that is under way at Close dials once more at most, since it is past
\* its look at the engine's context then.
OneLateDial == \A d \in Dials : late[d] <= 1

\* A closed engine keeps no connection open, those made after Close included.
ConnsClosed == \A d \in Dials : closed /\ conn[d] = "open" ~> conn[d] = "closed"

\* With its own context and the engine's done, a call returns, whether there
\* are proxies or not.
CancelledReturns ==
  \A d \in Dials : closed /\ ctxDone[d] /\ d \in UnderWay ~> pc[d] \in Returned

\* A call comes to one outcome, and its connection is the caller's until the
\* call's own context, Close or CloseAllConns ends it: DialOutcomes.  Once the
\* last CloseAllConns has returned, the token it leaves in the channel ends one
\* call or connection more at most, whichever comes first.
Killing == \E k \in Killers : kpc[k] \in {"loop", "last"}
Spare == IF Killing THEN 0 ELSE conKiller

Outcome ==
  [d \in Dials |->
     IF conn[d] # "none" THEN conn[d]
     ELSE IF pc[d] \in {"err", "gaveUp"} THEN "err"
     ELSE IF pc[d] = "killed" THEN "killed" ELSE "none"]

Outcomes == INSTANCE DialOutcomes WITH
  Calls <- Dials, own <- {d \in Dials : kind[d] # "Dial"}, outcome <- Outcome,
  ended <- ctxDone, killing <- Killing, spare <- Spare
ImplementsOutcomes == Outcomes!Spec

\* "to implement a net.Dialer with a timeout": a connection that has been made
\* in time is the caller's until the engine or CloseAllConns ends it.
MadeInTime ==
  \A d \in Dials :
    kind[d] = "DialTimeout" /\ pc[d] = "ok" /\ conn[d] = "closed"
      => closed \/ \E k \in Killers : kpc[k] # "idle"
=============================================================================

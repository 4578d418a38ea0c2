------------------------------ MODULE ProxyPool ------------------------------
(***************************************************************************)
(* The heart of prox5: validation workers run Proxy.validate on the        *)
(* proxies the job spawner submits and push the verified ones onto the     *)
(* Valids lists (validator_engine.go); consumers pop them again through    *)
(* getSocksStr, GetAnySOCKS and the dialer's popSockAndLockIt              *)
(* (dispense.go, mystery_dialer.go).  Workers and consumers meet on the    *)
(* per-proxy lock word sock.lock, which is a compare-and-swap flag, and on *)
(* the lists.                                                              *)
(*                                                                         *)
(* Every proxy is already loaded and queued (Pending never gives one up),  *)
(* so the spawner may submit any of them at any time.  What an int64       *)
(* counter is compared with bounds what is kept of it: timesValidated is   *)
(* only compared with 0, timesBad with RemoveAfter.                        *)
(***************************************************************************)
EXTENDS Integers, Sequences, FiniteSets

CONSTANTS
  Proxies,      \* the *Proxy objects
  Protos,       \* the protocols validate probes: SOCKS4, SOCKS4a, SOCKS5
  Workers,      \* goroutines of the ants pool
  Dispensers,   \* goroutines that ask for proxies
  KindOf,       \* what each of them calls: "str" getSocksStr, "any" GetAnySOCKS,
                \* "dial" the dialer's popSockAndLockIt and dispense middleware
  Endpoint,     \* Proxy.Endpoint, the key of the map and of the limiters
  ProtoNull,    \* the protocol of a proxy never verified
  NoProxy,      \* the nil *Proxy
  RemoveAfter,  \* GetRemoveAfter(): -1 never removes
  MaxListed     \* bound of the model: copies on one list and on their way to it

ASSUME PoolAssumption ==
  /\ ProtoNull \notin Protos
  /\ NoProxy \notin Proxies
  /\ Workers \cap Dispensers = {}
  /\ KindOf \in [Dispensers -> {"str", "any", "dial"}]
  /\ RemoveAfter \in Nat \cup {-1}
  /\ MaxListed \in Nat

VARIABLES
  ctxDone,         \* p5.ctx is cancelled
  plot,            \* the proxies the proxy map holds
  limited,         \* the endpoints over their burst in badProx
  validated,       \* GetTotalValidated() > 0
  Valids,          \* Valids[q]: the list of proxies verified as q
  lock,            \* lock[p]: sock.lock = stateLocked
  protocol,        \* protocol[p]
  timesValidated,  \* timesValidated[p], kept up to 1
  timesBad,        \* timesBad[p], kept up to RemoveAfter + 1
  recent,          \* recent[p]: lastValidated is within the stale time
  pc,              \* where each goroutine is
  sock,            \* the proxy it works on
  todo,            \* todo[w]: protocols validate has still to probe
  passed,          \* passed[w]: a check succeeded in this call of validate
  lists            \* lists[d]: the lists this call has still to look at

facts == <<protocol, timesValidated, timesBad, recent>>
proxyVars == <<lock, facts>>
sharedVars == <<ctxDone, plot, limited, validated, Valids>>
threadVars == <<pc, sock, todo, passed, lists>>
vars == <<sharedVars, proxyVars, threadVars>>

Threads == Workers \cup Dispensers

(***************************************************************************)
(* The points of validate and of the consumers at which the goroutine has  *)
(* won the compare-and-swap on its proxy and not yet stored stateUnlocked. *)
(***************************************************************************)
Inside == {"ctx", "limits", "probe", "check", "recheck", "verdict", "tally",
           "release", "judge", "middleware"}
Popped == {"cas", "judge", "lockIt", "middleware", "connect"}
WorkerPC == {"idle", "cas", "ctx", "limits", "probe", "check", "recheck",
             "verdict", "tally", "release"}
DispenserPC == {"idle", "dial", "empty", "visit", "len", "take", "cas", "judge",
                "lockIt", "middleware", "connect", "returned", "panicked"}

Holds(t, p) == pc[t] \in Inside /\ sock[t] = p

Goto(t, l) == pc' = [pc EXCEPT ![t] = l]
Bump(n, cap) == IF n < cap THEN n + 1 ELSE n

TypeOK ==
  /\ ctxDone \in BOOLEAN
  /\ plot \subseteq Proxies
  /\ limited \subseteq {Endpoint[p] : p \in Proxies}
  /\ validated \in BOOLEAN
  /\ Valids \in [Protos -> Seq(Proxies)]
  /\ lock \in [Proxies -> BOOLEAN]
  /\ protocol \in [Proxies -> Protos \cup {ProtoNull}]
  /\ timesValidated \in [Proxies -> Nat]
  /\ timesBad \in [Proxies -> Nat]
  /\ recent \in [Proxies -> BOOLEAN]
  /\ pc \in [Threads -> WorkerPC \cup DispenserPC]
  /\ \A w \in Workers : pc[w] \in WorkerPC
  /\ \A d \in Dispensers : pc[d] \in DispenserPC
  /\ sock \in [Threads -> Proxies \cup {NoProxy}]
  /\ \A t \in Threads : pc[t] \in Inside \cup Popped => sock[t] \in Proxies
  /\ todo \in [Workers -> SUBSET Protos]
  /\ passed \in [Workers -> BOOLEAN]
  /\ lists \in [Dispensers -> SUBSET Protos]

(***************************************************************************)
(* Proxies loaded and queued, nothing validated yet.  ClearSOCKSList may   *)
(* have emptied the map of some of them since, and a reload put another    *)
(* object there for the same endpoint.                                     *)
(***************************************************************************)
Init ==
  /\ ctxDone = FALSE
  /\ plot \in SUBSET Proxies
  /\ \A p, r \in plot : Endpoint[p] = Endpoint[r] => p = r
  /\ limited = {}
  /\ validated = FALSE
  /\ Valids = [q \in Protos |-> <<>>]
  /\ lock = [p \in Proxies |-> FALSE]
  /\ protocol = [p \in Proxies |-> ProtoNull]
  /\ timesValidated = [p \in Proxies |-> 0]
  /\ timesBad = [p \in Proxies |-> 0]
  /\ recent = [p \in Proxies |-> FALSE]
  /\ pc = [t \in Threads |-> "idle"]
  /\ sock = [t \in Threads |-> NoProxy]
  /\ todo = [w \in Workers |-> {}]
  /\ passed = [w \in Workers |-> FALSE]
  /\ lists = [d \in Dispensers |-> {}]

-----------------------------------------------------------------------------
(* Proxy.validate, run by a worker of the ants pool.                       *)

\* Bound of the model: the list of q has room for what may still be put on it.
Room(q) ==
  Len(Valids[q]) + Cardinality({t \in Threads : sock[t] # NoProxy}) < MaxListed

\* jobSpawner hands the proxy at the front of Pending to a free worker.
Submit(w, p) ==
  /\ pc[w] = "idle"
  /\ \A q \in Protos : Room(q)
  /\ Goto(w, "cas")
  /\ sock' = [sock EXCEPT ![w] = p]
  /\ UNCHANGED <<sharedVars, proxyVars, todo, passed, lists>>

\* Mutant: a return that skips the unlock.
LeaveLocked(w) ==
  sock' = [sock EXCEPT ![w] = NoProxy] /\ Goto(w, "idle") /\ UNCHANGED lock

\* The deferred store of stateUnlocked, then back to the pool.
LeaveValidate(w) ==
  /\ lock' = [lock EXCEPT ![sock[w]] = FALSE]
  /\ sock' = [sock EXCEPT ![w] = NoProxy]
  /\ Goto(w, "idle")

\* Mutant: the unlock is deferred before the compare-and-swap.
BusyUnlocks(w) ==
  /\ pc[w] = "cas"
  /\ lock[sock[w]]
  /\ LeaveValidate(w)
  /\ UNCHANGED <<sharedVars, facts, todo, passed, lists>>

\* A proxy someone else holds is not validated at all.
ValidateBusy(w) ==
  /\ pc[w] = "cas"
  /\ lock[sock[w]]
  /\ Goto(w, "idle")
  /\ sock' = [sock EXCEPT ![w] = NoProxy]
  /\ UNCHANGED <<sharedVars, proxyVars, todo, passed, lists>>

ValidateLock(w) ==
  /\ pc[w] = "cas"
  /\ ~lock[sock[w]]
  /\ lock' = [lock EXCEPT ![sock[w]] = TRUE]
  /\ passed' = [passed EXCEPT ![w] = FALSE]
  /\ Goto(w, "ctx")
  /\ UNCHANGED <<sharedVars, facts, sock, todo, lists>>

ValidateCtx(w) ==
  /\ pc[w] = "ctx"
  /\ \/ ctxDone /\ LeaveValidate(w)
     \/ ~ctxDone /\ Goto(w, "limits") /\ UNCHANGED <<lock, sock>>
  /\ UNCHANGED <<sharedVars, facts, todo, passed, lists>>

\* useProx may refuse any call (its count only paces the engine), badProx
\* refuses the endpoints that failed too often.
ValidateRefused(w) ==
  /\ pc[w] = "limits"
  /\ LeaveValidate(w)
  /\ UNCHANGED <<sharedVars, facts, todo, passed, lists>>

ValidateAdmitted(w) ==
  LET p == sock[w] IN
  /\ pc[w] = "limits"
  /\ Endpoint[p] \notin limited
  /\ IF timesValidated[p] = 0 \/ protocol[p] = ProtoNull
     THEN Goto(w, "probe") /\ todo' = [todo EXCEPT ![w] = Protos]
     ELSE Goto(w, "recheck") /\ UNCHANGED todo
  /\ UNCHANGED <<sharedVars, proxyVars, sock, passed, lists>>

\* The loop over protoMap: every protocol is tried, for the break only leaves
\* the select, and a cancelled context ends the call.
ProbeNext(w) ==
  /\ pc[w] = "probe"
  /\ \/ todo[w] = {} /\ Goto(w, "verdict") /\ UNCHANGED <<lock, sock>>
     \/ todo[w] # {} /\ ctxDone /\ LeaveValidate(w)
     \/ todo[w] # {} /\ ~ctxDone /\ Goto(w, "check") /\ UNCHANGED <<lock, sock>>
  /\ UNCHANGED <<sharedVars, facts, todo, passed, lists>>

\* badProx.Check counts one more failure, which may take the endpoint over
\* its burst; Peek only looks.
BadCheck(p) == limited' \in {limited, limited \cup {Endpoint[p]}}

\* A failed dial leaves no trace, a failed request or a bad answer counts.
CheckFails(p) == UNCHANGED limited \/ BadCheck(p)

\* Mutant: the protocol is stored without the sync.Once.
SetLastProto(p, q) == protocol' = [protocol EXCEPT ![p] = q]

\* proto.set: the first protocol to be set stays.
SetProto(p, q) ==
  protocol' = IF protocol[p] = ProtoNull THEN [protocol EXCEPT ![p] = q]
                                         ELSE protocol

\* singleProxyCheck with one of the protocols not yet tried.
ProbePasses(w, q) ==
  /\ pc[w] = "check"
  /\ q \in todo[w]
  /\ SetProto(sock[w], q)
  /\ passed' = [passed EXCEPT ![w] = TRUE]
  /\ todo' = [todo EXCEPT ![w] = @ \ {q}]
  /\ Goto(w, "probe")
  /\ UNCHANGED <<sharedVars, lock, timesValidated, timesBad, recent, sock, lists>>

ProbeFails(w, q) ==
  /\ pc[w] = "check"
  /\ q \in todo[w]
  /\ CheckFails(sock[w])
  /\ todo' = [todo EXCEPT ![w] = @ \ {q}]
  /\ Goto(w, "probe")
  /\ UNCHANGED <<ctxDone, plot, validated, Valids, proxyVars, sock, passed, lists>>

\* singleProxyCheck with the protocol the proxy is known by.
RecheckPasses(w) ==
  /\ pc[w] = "recheck"
  /\ passed' = [passed EXCEPT ![w] = TRUE]
  /\ Goto(w, "verdict")
  /\ UNCHANGED <<sharedVars, proxyVars, sock, todo, lists>>

\* bad(), badProx.Check and the return that unlocks.
MarkBad(w) ==
  /\ timesBad' = [timesBad EXCEPT ![sock[w]] = Bump(@, RemoveAfter + 1)]
  /\ BadCheck(sock[w])
  /\ LeaveValidate(w)
  /\ UNCHANGED <<ctxDone, plot, validated, Valids, protocol, timesValidated,
                 recent, todo, passed, lists>>

RecheckFails(w) == pc[w] = "recheck" /\ MarkBad(w)

VerdictBad(w) ==
  /\ pc[w] = "verdict"
  /\ protocol[sock[w]] = ProtoNull
  /\ MarkBad(w)

\* Mutant: stamped, but not counted as validated.
StampOnly(w) ==
  /\ pc[w] = "verdict"
  /\ protocol[sock[w]] \in Protos
  /\ recent' = [recent EXCEPT ![sock[w]] = TRUE]
  /\ Goto(w, "tally")
  /\ UNCHANGED <<sharedVars, lock, protocol, timesValidated, timesBad, sock,
                 todo, passed, lists>>

\* good(): counted and stamped with the time of this verification.
VerdictGood(w) ==
  /\ pc[w] = "verdict"
  /\ protocol[sock[w]] \in Protos
  /\ timesValidated' = [timesValidated EXCEPT ![sock[w]] = Bump(@, 1)]
  /\ recent' = [recent EXCEPT ![sock[w]] = TRUE]
  /\ Goto(w, "tally")
  /\ UNCHANGED <<sharedVars, lock, protocol, timesBad, sock, todo, passed, lists>>

\* Mutant: one list for every protocol.
PushOnOneList(q, p) ==
  Valids' = [Valids EXCEPT ![CHOOSE r \in Protos : TRUE] = Append(@, p)]

\* proxyList.add: at the back of the list of q.
PushBack(q, p) == Valids' = [Valids EXCEPT ![q] = Append(@, p)]

\* tally: the proxy is on the list while its lock is still held.
Tally(w) ==
  /\ pc[w] = "tally"
  /\ validated' = TRUE
  /\ PushBack(protocol[sock[w]], sock[w])
  /\ Goto(w, "release")
  /\ UNCHANGED <<ctxDone, plot, limited, proxyVars, sock, todo, passed, lists>>

ValidateDone(w) ==
  /\ pc[w] = "release"
  /\ LeaveValidate(w)
  /\ UNCHANGED <<sharedVars, facts, todo, passed, lists>>

\* What the proxy and the endpoint behind it answer to a check.
singleProxyCheck(w) ==
  \/ \E q \in Protos : ProbePasses(w, q) \/ ProbeFails(w, q)
  \/ RecheckPasses(w) \/ RecheckFails(w)

validate(w) ==
  \/ ValidateBusy(w) \/ ValidateLock(w) \/ ValidateCtx(w)
  \/ ValidateRefused(w) \/ ValidateAdmitted(w) \/ ProbeNext(w)
  \/ VerdictBad(w) \/ VerdictGood(w) \/ Tally(w) \/ ValidateDone(w)

-----------------------------------------------------------------------------
(* The consumers.  A popped proxy is off every list until a consumer       *)
(* returns it, drops it or puts it back.                                   *)

consumerRest == <<ctxDone, limited, validated, facts, todo, passed>>

\* getSocksStr(q) is called.
CallStr(d, q) ==
  /\ KindOf[d] = "str" /\ pc[d] = "idle"
  /\ Goto(d, "len")
  /\ lists' = [lists EXCEPT ![d] = {q}]
  /\ UNCHANGED <<sharedVars, proxyVars, sock, todo, passed>>

\* GetAnySOCKS or the dialer is called.
CallAny(d) ==
  /\ KindOf[d] # "str" /\ pc[d] = "idle"
  /\ Goto(d, IF KindOf[d] = "dial" THEN "dial" ELSE "visit")
  /\ lists' = [lists EXCEPT ![d] = {}]
  /\ UNCHANGED <<sharedVars, proxyVars, sock, todo, passed>>

\* getSocksStr reads the length without the list's lock, and sleeps on 0.
StrLen(d, q) ==
  /\ pc[d] = "len" /\ q \in lists[d]
  /\ Valids[q] # <<>>
  /\ Goto(d, "take")
  /\ UNCHANGED <<sharedVars, proxyVars, sock, todo, passed, lists>>

PopFront(d, q) ==
  /\ Valids[q] # <<>>
  /\ sock' = [sock EXCEPT ![d] = Head(Valids[q])]
  /\ Valids' = [Valids EXCEPT ![q] = Tail(@)]
  /\ Goto(d, "cas")

\* list.Remove(list.Front()): the front of a list emptied since is nil.
StrTake(d, q) ==
  /\ pc[d] = "take" /\ q \in lists[d]
  /\ \/ PopFront(d, q)
     \/ Valids[q] = <<>> /\ Goto(d, "panicked") /\ UNCHANGED <<Valids, sock>>
  /\ UNCHANGED <<consumerRest, plot, lock, lists>>

\* The head of mysteryDialer's loop: it may give up for its caller's context,
\* its timer, the bailout count or conKiller, and does once p5 is closed.
DialLoop(d) ==
  /\ pc[d] = "dial"
  /\ \/ Goto(d, "idle")
     \/ ~ctxDone /\ Goto(d, "empty")
  /\ UNCHANGED <<sharedVars, proxyVars, sock, todo, passed, lists>>

\* popSockAndLockIt: ErrNoProxies before the first verification, a call of
\* GetAnySOCKS otherwise.
PopSock(d) ==
  /\ pc[d] = "empty"
  /\ Goto(d, IF validated THEN "visit" ELSE "idle")
  /\ lists' = [lists EXCEPT ![d] = {}]
  /\ UNCHANGED <<sharedVars, proxyVars, sock, todo, passed>>

\* Mutant: a round without the look at the context.
NextRoundBlind(d) ==
  /\ pc[d] = "visit" /\ lists[d] = {}
  /\ lists' = [lists EXCEPT ![d] = Protos]
  /\ UNCHANGED <<sharedVars, proxyVars, pc, sock, todo, passed>>

\* GetAnySOCKS looks at the context once per round over the lists, and returns
\* nil when it is done.  The dialer takes that nil for another try, unless its
\* caller's context is done too.
NextRound(d) ==
  /\ pc[d] = "visit" /\ lists[d] = {}
  /\ \/ ~ctxDone /\ lists' = [lists EXCEPT ![d] = Protos] /\ UNCHANGED pc
     \/ /\ ctxDone
        /\ \/ Goto(d, "idle")
           \/ KindOf[d] = "dial" /\ Goto(d, "empty")
        /\ UNCHANGED lists
  /\ UNCHANGED <<sharedVars, proxyVars, sock, todo, passed>>

\* The lists come in any order, an empty one is passed over.
Visit(d, q) ==
  /\ pc[d] = "visit" /\ q \in lists[d]
  /\ lists' = [lists EXCEPT ![d] = @ \ {q}]
  /\ \/ PopFront(d, q)
     \/ Valids[q] = <<>> /\ UNCHANGED <<Valids, sock, pc>>
  /\ UNCHANGED <<consumerRest, plot, lock>>

\* Back to where the consumer looks for the next proxy.
Again(d) == IF KindOf[d] = "str" THEN "len" ELSE "visit"

\* Mutant: the proxy is let go of, and the consumer goes on with nil.
DropAndStay(d, l) == sock' = [sock EXCEPT ![d] = NoProxy] /\ UNCHANGED pc

Drop(d, l) ==
  /\ sock' = [sock EXCEPT ![d] = NoProxy]
  /\ Goto(d, l)

\* The code reads removeafter twice, and DisableRecycling between the two makes it
\* -1, so that any count of failures is too many; here it stays what it is.
TooBad(p) == RemoveAfter # -1 /\ timesBad[p] > RemoveAfter
Refused(p) == Endpoint[p] \in limited \/ ~recent[p]

\* stillGood of a proxy that is being validated or tried drops it.
StillGoodBusy(d) ==
  /\ pc[d] = "cas"
  /\ lock[sock[d]]
  /\ Drop(d, Again(d))
  /\ UNCHANGED <<consumerRest, plot, Valids, lock, lists>>

StillGoodLock(d) ==
  /\ pc[d] = "cas"
  /\ ~lock[sock[d]]
  /\ lock' = [lock EXCEPT ![sock[d]] = TRUE]
  /\ Goto(d, "judge")
  /\ UNCHANGED <<consumerRest, plot, Valids, sock, lists>>

Unlock(d) == lock' = [lock EXCEPT ![sock[d]] = FALSE]

\* Too many failures: whatever the map holds under this endpoint is deleted.
StillGoodRemoves(d) ==
  /\ pc[d] = "judge"
  /\ TooBad(sock[d])
  /\ plot' = {p \in plot : Endpoint[p] # Endpoint[sock[d]]}
  /\ Unlock(d)
  /\ Drop(d, Again(d))
  /\ UNCHANGED <<consumerRest, Valids, lists>>

\* Rate limited as bad, or verified too long ago.
StillGoodRefuses(d) ==
  /\ pc[d] = "judge"
  /\ ~TooBad(sock[d]) /\ Refused(sock[d])
  /\ Unlock(d)
  /\ Drop(d, Again(d))
  /\ UNCHANGED <<consumerRest, plot, Valids, lists>>

\* getSocksStr and GetAnySOCKS return it, the dialer goes on to lock it.
StillGoodAccepts(d) ==
  /\ pc[d] = "judge"
  /\ ~TooBad(sock[d]) /\ ~Refused(sock[d])
  /\ Unlock(d)
  /\ Goto(d, IF KindOf[d] = "dial" THEN "lockIt" ELSE "returned")
  /\ UNCHANGED <<consumerRest, plot, Valids, sock, lists>>

stillGood(d) ==
  \/ StillGoodBusy(d) \/ StillGoodLock(d) \/ StillGoodRemoves(d)
  \/ StillGoodRefuses(d) \/ StillGoodAccepts(d)

\* The caller's context ended while GetAnySOCKS waited: the proxy is dropped.
LockItCtxDone(d) ==
  /\ pc[d] = "lockIt"
  /\ Drop(d, "idle")
  /\ UNCHANGED <<consumerRest, plot, Valids, lock, lists>>

LockIt(d) ==
  /\ pc[d] = "lockIt"
  /\ ~lock[sock[d]]
  /\ lock' = [lock EXCEPT ![sock[d]] = TRUE]
  /\ Goto(d, "middleware")
  /\ UNCHANGED <<consumerRest, plot, Valids, sock, lists>>

\* Mutant: put back, and used all the same.
PutBackAndUse(d) ==
  /\ pc[d] = "lockIt"
  /\ lock[sock[d]]
  /\ PushBack(protocol[sock[d]], sock[d])
  /\ Goto(d, "connect")
  /\ UNCHANGED <<consumerRest, plot, lock, sock, lists>>

\* Someone else locked it since stillGood: back onto the list of its protocol.
PutBack(d) ==
  /\ pc[d] = "lockIt"
  /\ lock[sock[d]]
  /\ PushBack(protocol[sock[d]], sock[d])
  /\ Drop(d, "empty")
  /\ UNCHANGED <<consumerRest, plot, lock, lists>>

\* dispenseMiddleware hands the proxy it was given back and says yes or no.
MiddlewareApproves(d) ==
  /\ pc[d] = "middleware"
  /\ Unlock(d)
  /\ Goto(d, "connect")
  /\ UNCHANGED <<consumerRest, plot, Valids, sock, lists>>

MiddlewareRejects(d) ==
  /\ pc[d] = "middleware"
  /\ Unlock(d)
  /\ Drop(d, "dial")
  /\ UNCHANGED <<consumerRest, plot, Valids, lists>>

\* The dial through the proxy, its lock released.
Connect(d) ==
  /\ pc[d] = "connect"
  /\ \/ Goto(d, "returned") /\ UNCHANGED sock
     \/ Drop(d, "dial")
  /\ UNCHANGED <<consumerRest, plot, Valids, lock, lists>>

\* The caller has its proxy or its connection.
Return(d) ==
  /\ pc[d] = "returned"
  /\ Drop(d, "idle")
  /\ UNCHANGED <<consumerRest, plot, Valids, lock, lists>>

dispense(d) ==
  \/ (\E q \in Protos : StrLen(d, q) \/ StrTake(d, q) \/ Visit(d, q))
  \/ DialLoop(d) \/ PopSock(d) \/ NextRound(d) \/ stillGood(d)
  \/ LockItCtxDone(d) \/ LockIt(d) \/ PutBack(d)
  \/ MiddlewareApproves(d) \/ MiddlewareRejects(d) \/ Connect(d) \/ Return(d)

-----------------------------------------------------------------------------
(* What happens around them.                                               *)

\* Mutant: Resume makes a new context, as the line it has commented out would.
CloseOrReopen == ctxDone' = ~ctxDone /\ UNCHANGED
  <<plot, limited, validated, Valids, proxyVars, threadVars>>

\* Close cancels the context of the engine; Resume does not make a new one.
Close ==
  /\ ~ctxDone
  /\ ctxDone' = TRUE
  /\ UNCHANGED <<plot, limited, validated, Valids, proxyVars, threadVars>>

\* The window of badProx runs out for an endpoint.
BadExpires(e) ==
  /\ e \in limited
  /\ limited' = limited \ {e}
  /\ UNCHANGED <<ctxDone, plot, validated, Valids, proxyVars, threadVars>>

\* The stale time passes since the last verification.
GoesStale(p) ==
  /\ recent[p]
  /\ recent' = [recent EXCEPT ![p] = FALSE]
  /\ UNCHANGED <<sharedVars, lock, protocol, timesValidated, timesBad, threadVars>>

\* An unrecovered panic ends the program.
Crashed == \E d \in Dispensers : pc[d] = "panicked"

Next ==
  /\ ~Crashed
  /\ \/ \E w \in Workers, p \in Proxies : Submit(w, p)
     \/ \E w \in Workers : validate(w) \/ singleProxyCheck(w)
     \/ \E d \in Dispensers, q \in Protos : CallStr(d, q)
     \/ \E d \in Dispensers : CallAny(d) \/ dispense(d)
     \/ Close
     \/ \E p \in Proxies : BadExpires(Endpoint[p]) \/ GoesStale(p)

Spec == Init /\ [][Next]_vars

(***************************************************************************)
(* Goroutines keep running, dials have a timeout, and the middleware and   *)
(* the caller that gets the proxy return.  That a check is answered is a   *)
(* separate assumption, about the network: once the handshakes are over    *)
(* nothing bounds the wait for the answer to the HTTP request.             *)
(***************************************************************************)
Fairness ==
  /\ \A w \in Workers : WF_vars(~Crashed /\ validate(w))
  /\ \A d \in Dispensers : WF_vars(~Crashed /\ dispense(d))

ChecksAnswered == \A w \in Workers : WF_vars(~Crashed /\ singleProxyCheck(w))

FairSpec == Spec /\ Fairness
LiveSpec == FairSpec /\ ChecksAnswered

-----------------------------------------------------------------------------
(* What the pool promises.                                                 *)

\* A proxy's lock word is set exactly while one goroutine works on it, and no
\* two goroutines ever do: validate, stillGood and the dialer exclude each
\* other although each of them gives up instead of waiting.
LockDiscipline ==
  \A p \in Proxies :
    /\ lock[p] <=> \E t \in Threads : Holds(t, p)
    /\ \A t, u \in Threads : Holds(t, p) /\ Holds(u, p) => t = u

\* A proxy on the list of a protocol was verified, and as that protocol; no
\* later validation, failure or put-back makes that untrue.
ListedVerified ==
  \A q \in Protos : \A i \in 1..Len(Valids[q]) :
    /\ protocol[Valids[q][i]] = q
    /\ timesValidated[Valids[q][i]] > 0

\* Nothing is counted as verified by a call of validate in which no check
\* succeeded, although the verdict reads the protocol an earlier call may have
\* left there: a call that sets it and does not reach good() was cut short by
\* a context that stays cancelled.
TallyPassed ==
  \A w \in Workers : pc[w] = "tally" => passed[w]

\* The proxy a caller gets has been verified, as the protocol it asked for.
HandedVerified ==
  \A d \in Dispensers : pc[d] = "returned" =>
    /\ timesValidated[sock[d]] > 0
    /\ KindOf[d] = "str" => lists[d] = {protocol[sock[d]]}

Verified(p) == protocol[p] # ProtoNull /\ timesValidated[p] > 0

\* Whatever is on its way to a list or from one to a caller is verified.
CarriedVerified ==
  /\ \A w \in Workers : pc[w] = "tally" => Verified(sock[w])
  /\ \A d \in Dispensers : pc[d] \in Popped \cup {"returned"} =>
       sock[d] \in Proxies /\ Verified(sock[d])

\* A caller of getSocksStr carries a proxy of the protocol it asked for.
AskedFor ==
  \A d \in Dispensers : KindOf[d] = "str" =>
    /\ pc[d] \in {"idle", "len", "take", "cas", "judge", "returned", "panicked"}
    /\ pc[d] \in {"len", "take"} => \E q \in Protos : lists[d] = {q}
    /\ pc[d] \in {"cas", "judge", "returned"} => lists[d] = {protocol[sock[d]]}

\* A protocol without a verification is the work of the call of validate that
\* is still going on, or of one the cancelled context has cut short.
VerdictEarned ==
  /\ \A w \in Workers :
       /\ pc[w] = "limits" /\ protocol[sock[w]] # ProtoNull =>
            timesValidated[sock[w]] > 0
       /\ pc[w] \in {"probe", "check", "verdict"} /\ protocol[sock[w]] # ProtoNull =>
            passed[w]
  /\ \A p \in Proxies : protocol[p] # ProtoNull /\ timesValidated[p] = 0 =>
       \/ ctxDone
       \/ \E w \in Workers : pc[w] \in {"probe", "check", "verdict"} /\ sock[w] = p

\* The protocol a proxy was verified as never changes: it was read without the
\* lock by whoever formats or files the proxy.
ProtoStable ==
  [][\A p \in Proxies : protocol[p] # ProtoNull => protocol'[p] = protocol[p]]_vars

\* Each verification is spent at most once: put on a list by tally, popped by
\* one consumer, handed out or dropped, and put back by the dialer unspent.
Listed(p) ==
  {x \in UNION {{q} \X (1..Len(Valids[q])) : q \in Protos} : Valids[x[1]][x[2]] = p}
InHand(p) == {d \in Dispensers : pc[d] \in Popped /\ sock[d] = p}

Earned == [w \in Workers |-> IF pc[w] = "tally" THEN sock[w] ELSE NoProxy]
Credited == [p \in Proxies |-> Cardinality(Listed(p)) + Cardinality(InHand(p))]
Handed == [d \in Dispensers |-> IF pc[d] = "returned" THEN sock[d] ELSE NoProxy]

Ledger == INSTANCE VerifiedLedger WITH
  earned <- Earned, credit <- Credited, handed <- Handed
ImplementsLedger == Ledger!Spec

\* No path through validate, stillGood or the dialer leaves a proxy locked.
LockReleased == \A p \in Proxies : lock[p] ~> ~lock[p]

\* Once the engine is closed no call of GetAnySOCKS goes on waiting, however
\* the lists are filled and emptied around it.
AnyReturnsAfterClose ==
  \A d \in Dispensers : KindOf[d] = "any" =>
    (ctxDone ~> pc[d] \in {"idle", "returned"})

\* "Will block if one is not available!": a caller that finds the list empty
\* waits, it does not bring the program down.
NoPanic == ~Crashed
=============================================================================

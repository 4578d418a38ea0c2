-------------------------- MODULE ProxyPool_proofs --------------------------
(***************************************************************************)
(* Proofs about ProxyPool, for every number of proxies, protocols, workers *)
(* and callers.                                                            *)
(***************************************************************************)
EXTENDS ProxyPool, FiniteSetTheorems, FunctionTheorems, TLAPS

-----------------------------------------------------------------------------
(* Type correctness, one step per action.                                  *)

LEMMA TypeInit == Init => TypeOK
<1>. SUFFICES ASSUME Init PROVE TypeOK
  OBVIOUS
<1>1. Valids \in [Protos -> Seq(Proxies)]
  BY DEF Init
<1>2.
  /\ pc \in [Threads -> WorkerPC \cup DispenserPC]
  /\ \A w \in Workers : pc[w] \in WorkerPC
  /\ \A d \in Dispensers : pc[d] \in DispenserPC
  /\ sock \in [Threads -> Proxies \cup {NoProxy}]
  /\ \A t \in Threads : pc[t] \in Inside \cup Popped => sock[t] \in Proxies
  BY DEF Init, Threads, Inside, Popped, WorkerPC, DispenserPC
<1>3.
  /\ timesValidated \in [Proxies -> Nat]
  /\ timesBad \in [Proxies -> Nat]
  /\ protocol \in [Proxies -> Protos \cup {ProtoNull}]
  /\ lock \in [Proxies -> BOOLEAN]
  /\ recent \in [Proxies -> BOOLEAN]
  BY DEF Init
<1>4.
  /\ todo \in [Workers -> SUBSET Protos]
  /\ passed \in [Workers -> BOOLEAN]
  /\ lists \in [Dispensers -> SUBSET Protos]
  BY DEF Init
<1>5.
  /\ ctxDone \in BOOLEAN
  /\ plot \subseteq Proxies
  /\ limited \subseteq {Endpoint[p] : p \in Proxies}
  /\ validated \in BOOLEAN
  BY DEF Init
<1>. QED
  BY <1>1, <1>2, <1>3, <1>4, <1>5 DEF TypeOK

LEMMA PushType ==
  ASSUME Valids \in [Protos -> Seq(Proxies)], NEW q, NEW p \in Proxies,
         PushBack(q, p)
  PROVE  Valids' \in [Protos -> Seq(Proxies)]
<1>1. CASE q \in Protos
  BY <1>1 DEF PushBack
<1>2. CASE q \notin Protos
  BY <1>2 DEF PushBack
<1>. QED
  BY <1>1, <1>2

LEMMA AllProtos ==
  ASSUME NEW S, NEW f \in [S -> SUBSET Protos], NEW g, NEW x \in S,
         g = [f EXCEPT ![x] = Protos] \/ g = f
  PROVE  g \in [S -> SUBSET Protos]
  OBVIOUS

LEMMA TypeWorker ==
  ASSUME TypeOK, NEW w \in Workers, validate(w) \/ singleProxyCheck(w)
  PROVE  TypeOK'
<1>. USE PoolAssumption
     DEF TypeOK, Threads, Inside, Popped, WorkerPC, DispenserPC, Goto, Bump,
         sharedVars, proxyVars, facts
<1>1. CASE ValidateBusy(w)
  BY <1>1 DEF ValidateBusy
<1>2. CASE ValidateLock(w)
  BY <1>2 DEF ValidateLock
<1>3. CASE ValidateCtx(w)
  <2>1. CASE LeaveValidate(w)
    BY <1>3, <2>1 DEF ValidateCtx, LeaveValidate
  <2>2. CASE Goto(w, "limits") /\ UNCHANGED <<lock, sock>>
    BY <1>3, <2>2 DEF ValidateCtx
  <2>. QED
    BY <1>3, <2>1, <2>2 DEF ValidateCtx
<1>4. CASE ValidateRefused(w)
  BY <1>4 DEF ValidateRefused, LeaveValidate
<1>5. CASE ValidateAdmitted(w)
  <2>1. todo' \in [Workers -> SUBSET Protos]
    <3>1. todo' = [todo EXCEPT ![w] = Protos] \/ todo' = todo
      BY <1>5 DEF ValidateAdmitted
    <3>2. todo \in [Workers -> SUBSET Protos]
      OBVIOUS
    <3>. QED
      BY ONLY <3>1, <3>2, AllProtos, w \in Workers
  <2>2. pc' = [pc EXCEPT ![w] = "probe"] \/ pc' = [pc EXCEPT ![w] = "recheck"]
    BY <1>5 DEF ValidateAdmitted
  <2>3. pc[w] = "limits" /\ UNCHANGED <<sharedVars, proxyVars, sock, passed, lists>>
    BY <1>5 DEF ValidateAdmitted
  <2>. QED
    BY <2>1, <2>2, <2>3
<1>6. CASE ProbeNext(w)
  <2>1. CASE LeaveValidate(w)
    BY <1>6, <2>1 DEF ProbeNext, LeaveValidate
  <2>2. CASE Goto(w, "verdict") /\ UNCHANGED <<lock, sock>>
    BY <1>6, <2>2 DEF ProbeNext
  <2>3. CASE Goto(w, "check") /\ UNCHANGED <<lock, sock>>
    BY <1>6, <2>3 DEF ProbeNext
  <2>. QED
    BY <1>6, <2>1, <2>2, <2>3 DEF ProbeNext
<1>7. CASE VerdictBad(w)
  BY <1>7 DEF VerdictBad, MarkBad, BadCheck, LeaveValidate
<1>8. CASE VerdictGood(w)
  BY <1>8 DEF VerdictGood
<1>9. CASE Tally(w)
  <2>1. Valids' \in [Protos -> Seq(Proxies)]
    BY <1>9, PushType DEF Tally
  <2>. QED
    BY <1>9, <2>1 DEF Tally
<1>10. CASE ValidateDone(w)
  BY <1>10 DEF ValidateDone, LeaveValidate
<1>11. ASSUME NEW q \in Protos, ProbePasses(w, q) PROVE TypeOK'
  BY <1>11 DEF ProbePasses, SetProto
<1>12. ASSUME NEW q \in Protos, ProbeFails(w, q) PROVE TypeOK'
  BY <1>12 DEF ProbeFails, CheckFails, BadCheck
<1>13. CASE RecheckPasses(w)
  BY <1>13 DEF RecheckPasses
<1>14. CASE RecheckFails(w)
  BY <1>14 DEF RecheckFails, MarkBad, BadCheck, LeaveValidate
<1>. QED
  BY <1>1, <1>2, <1>3, <1>4, <1>5, <1>6, <1>7, <1>8, <1>9, <1>10, <1>11,
     <1>12, <1>13, <1>14 DEF validate, singleProxyCheck

\* What every step of a consumer comes down to: it goes on with x in hand.
LEMMA TypeMove ==
  ASSUME TypeOK, NEW d \in Dispensers, NEW l \in DispenserPC,
         NEW x \in Proxies \cup {NoProxy}, l \in Inside \cup Popped => x \in Proxies,
         Goto(d, l), sock' = [sock EXCEPT ![d] = x], UNCHANGED <<consumerRest, plot>>,
         Valids' \in [Protos -> Seq(Proxies)], lock' \in [Proxies -> BOOLEAN],
         lists' \in [Dispensers -> SUBSET Protos]
  PROVE  TypeOK'
<1>. USE PoolAssumption DEF TypeOK, Threads, Goto
<1>1. pc' \in [Threads -> WorkerPC \cup DispenserPC]
  OBVIOUS
<1>2. sock' \in [Threads -> Proxies \cup {NoProxy}]
  OBVIOUS
<1>3. \A w \in Workers : pc'[w] \in WorkerPC
  OBVIOUS
<1>4. \A e \in Dispensers : pc'[e] \in DispenserPC
  OBVIOUS
<1>5. \A t \in Threads : pc'[t] \in Inside \cup Popped => sock'[t] \in Proxies
  OBVIOUS
<1>6. UNCHANGED <<ctxDone, plot, limited, validated, protocol, timesValidated, timesBad,
                  recent, todo, passed>>
  BY DEF consumerRest, facts
<1>. QED
  BY <1>1, <1>2, <1>3, <1>4, <1>5, <1>6

LEMMA TypeLoop ==
  ASSUME TypeOK, NEW d \in Dispensers, DialLoop(d) \/ NextRound(d) \/ Connect(d)
  PROVE  TypeOK'
<1>1.
  /\ pc \in [Threads -> WorkerPC \cup DispenserPC]
  /\ sock \in [Threads -> Proxies \cup {NoProxy}]
  /\ Valids \in [Protos -> Seq(Proxies)] /\ lock \in [Proxies -> BOOLEAN]
  /\ lists \in [Dispensers -> SUBSET Protos] /\ plot \subseteq Proxies
  /\ d \in Threads
  BY DEF TypeOK, Threads
<1>2. sock[d] \in Proxies \cup {NoProxy} /\ sock = [sock EXCEPT ![d] = sock[d]]
  BY <1>1
<1>3. ASSUME NEW l \in DispenserPC, l \notin Inside \cup Popped, Goto(d, l),
             UNCHANGED <<consumerRest, plot, Valids, lock>>,
             lists' \in [Dispensers -> SUBSET Protos],
             sock' = sock \/ sock' = [sock EXCEPT ![d] = NoProxy]
      PROVE  TypeOK'
  <2>1. Valids' \in [Protos -> Seq(Proxies)] /\ lock' \in [Proxies -> BOOLEAN]
    BY <1>1, <1>3
  <2>2. CASE sock' = sock
    BY ONLY <1>2, <1>3, <2>1, <2>2, TypeMove, TypeOK, d \in Dispensers
  <2>3. CASE sock' = [sock EXCEPT ![d] = NoProxy]
    BY ONLY <1>3, <2>1, <2>3, TypeMove, TypeOK, d \in Dispensers
  <2>. QED
    BY <1>3, <2>2, <2>3
<1>4. {"idle", "empty", "visit", "returned", "dial"} \subseteq DispenserPC \ (Inside \cup Popped)
  BY DEF DispenserPC, Inside, Popped
<1>5. CASE DialLoop(d)
  <2>1. UNCHANGED <<consumerRest, plot, Valids, lock, sock, lists>>
    BY <1>5 DEF DialLoop, sharedVars, proxyVars, consumerRest
  <2>2. Goto(d, "idle") \/ Goto(d, "empty")
    BY <1>5 DEF DialLoop
  <2>. QED
    BY <1>1, <1>3, <1>4, <2>1, <2>2
<1>6. CASE NextRound(d)
  <2>1. UNCHANGED <<consumerRest, plot, Valids, lock, sock>>
    BY <1>6 DEF NextRound, sharedVars, proxyVars, consumerRest
  <2>2. lists' \in [Dispensers -> SUBSET Protos]
    BY <1>1, <1>6, AllProtos DEF NextRound
  <2>3. Goto(d, "visit") \/ Goto(d, "idle") \/ Goto(d, "empty")
    BY <1>1, <1>6 DEF NextRound, Goto
  <2>. QED
    BY <1>3, <1>4, <2>1, <2>2, <2>3
<1>7. CASE Connect(d)
  <2>1. UNCHANGED <<consumerRest, plot, Valids, lock, lists>>
    BY <1>7 DEF Connect
  <2>2. \/ Goto(d, "returned") /\ sock' = sock
        \/ Goto(d, "dial") /\ sock' = [sock EXCEPT ![d] = NoProxy]
    BY <1>7 DEF Connect, Drop
  <2>. QED
    BY <1>1, <1>3, <1>4, <2>1, <2>2
<1>. QED
  BY <1>5, <1>6, <1>7

LEMMA TypeConsumer ==
  ASSUME TypeOK, NEW d \in Dispensers,
         dispense(d) \/ CallAny(d) \/ (\E q \in Protos : CallStr(d, q))
  PROVE  TypeOK'
<1>. USE PoolAssumption
     DEF TypeOK, Threads, Inside, Popped, WorkerPC, DispenserPC, Goto, Drop,
         Unlock, Again, sharedVars, proxyVars, facts, consumerRest
<1>1. ASSUME NEW q \in Protos, CallStr(d, q) PROVE TypeOK'
  BY <1>1 DEF CallStr
<1>2. CASE CallAny(d)
  BY <1>2 DEF CallAny
<1>3. ASSUME NEW q \in Protos, StrLen(d, q) PROVE TypeOK'
  BY <1>3 DEF StrLen
<1>4. ASSUME NEW q \in Protos, PopFront(d, q)
      PROVE  /\ Valids' \in [Protos -> Seq(Proxies)]
             /\ \E p \in Proxies : sock' = [sock EXCEPT ![d] = p]
             /\ Goto(d, "cas")
  <2>1. Valids[q] \in Seq(Proxies) /\ Valids[q] # <<>>
    BY <1>4 DEF PopFront
  <2>2. Head(Valids[q]) \in Proxies /\ Tail(Valids[q]) \in Seq(Proxies)
    BY <2>1
  <2>. QED
    BY <1>4, <2>2 DEF PopFront
<1>5. ASSUME NEW q \in Protos, StrTake(d, q) PROVE TypeOK'
  <2>1. CASE PopFront(d, q)
    <3>1. UNCHANGED <<consumerRest, plot, lock, lists>>
      BY <1>5 DEF StrTake
    <3>2. Valids' \in [Protos -> Seq(Proxies)] /\ Goto(d, "cas")
      BY <1>4, <2>1
    <3>3. PICK p \in Proxies : sock' = [sock EXCEPT ![d] = p]
      BY <1>4, <2>1
    <3>. QED
      BY <3>1, <3>2, <3>3
  <2>2. CASE Goto(d, "panicked") /\ UNCHANGED <<Valids, sock>>
    BY <1>5, <2>2 DEF StrTake
  <2>. QED
    BY <1>5, <2>1, <2>2 DEF StrTake
<1>6. ASSUME NEW q \in Protos, Visit(d, q) PROVE TypeOK'
  <2>1. CASE PopFront(d, q)
    <3>1. UNCHANGED <<consumerRest, plot, lock>>
      BY <1>6 DEF Visit
    <3>2. lists' \in [Dispensers -> SUBSET Protos]
      BY <1>6 DEF Visit
    <3>3. Valids' \in [Protos -> Seq(Proxies)] /\ Goto(d, "cas")
      BY <1>4, <2>1
    <3>4. PICK p \in Proxies : sock' = [sock EXCEPT ![d] = p]
      BY <1>4, <2>1
    <3>. QED
      BY <3>1, <3>2, <3>3, <3>4
  <2>2. CASE UNCHANGED <<Valids, sock, pc>>
    BY <1>6, <2>2 DEF Visit
  <2>. QED
    BY <1>6, <2>1, <2>2 DEF Visit
<1>7. CASE DialLoop(d)
  BY ONLY <1>7, TypeOK, d \in Dispensers, TypeLoop
<1>8. CASE PopSock(d)
  BY <1>8 DEF PopSock
<1>9. CASE NextRound(d)
  BY ONLY <1>9, TypeOK, d \in Dispensers, TypeLoop
<1>10. CASE StillGoodBusy(d)
  BY <1>10 DEF StillGoodBusy
<1>11. CASE StillGoodLock(d)
  BY <1>11 DEF StillGoodLock
<1>12. CASE StillGoodRemoves(d)
  BY <1>12 DEF StillGoodRemoves
<1>13. CASE StillGoodRefuses(d)
  BY <1>13 DEF StillGoodRefuses
<1>14. CASE StillGoodAccepts(d)
  BY <1>14 DEF StillGoodAccepts
<1>15. CASE LockItCtxDone(d)
  BY <1>15 DEF LockItCtxDone
<1>16. CASE LockIt(d)
  BY <1>16 DEF LockIt
<1>17. CASE PutBack(d)
  <2>1. Valids' \in [Protos -> Seq(Proxies)]
    BY <1>17, PushType DEF PutBack
  <2>. QED
    BY <1>17, <2>1 DEF PutBack
<1>18. CASE MiddlewareApproves(d)
  BY <1>18 DEF MiddlewareApproves
<1>19. CASE MiddlewareRejects(d)
  BY <1>19 DEF MiddlewareRejects
<1>20. CASE Connect(d)
  BY ONLY <1>20, TypeOK, d \in Dispensers, TypeLoop
<1>21. CASE Return(d)
  BY <1>21 DEF Return
<1>. QED
  BY <1>1, <1>2, <1>3, <1>5, <1>6, <1>7, <1>8, <1>9, <1>10, <1>11, <1>12,
     <1>13, <1>14, <1>15, <1>16, <1>17, <1>18, <1>19, <1>20, <1>21
  DEF dispense, stillGood

LEMMA TypeStep == TypeOK /\ [Next]_vars => TypeOK'
<1>. SUFFICES ASSUME TypeOK, [Next]_vars PROVE TypeOK'
  OBVIOUS
<1>. USE DEF sharedVars, proxyVars, facts, threadVars
<1>1. ASSUME NEW w \in Workers, NEW p \in Proxies, Submit(w, p) PROVE TypeOK'
  BY <1>1 DEF Submit, Goto, TypeOK, Threads, Inside, Popped, WorkerPC, DispenserPC
<1>2. CASE Close
  BY <1>2 DEF Close, TypeOK
<1>3. ASSUME NEW p \in Proxies, BadExpires(Endpoint[p]) PROVE TypeOK'
  BY <1>3 DEF BadExpires, TypeOK
<1>4. ASSUME NEW p \in Proxies, GoesStale(p) PROVE TypeOK'
  BY <1>4 DEF GoesStale, TypeOK
<1>5. CASE UNCHANGED vars
  BY <1>5 DEF vars, TypeOK
<1>. QED
  BY <1>1, <1>2, <1>3, <1>4, <1>5, TypeWorker, TypeConsumer DEF Next

(***************************************************************************)
(* The variables of ProxyPool keep their types: in particular a goroutine  *)
(* past a compare-and-swap always has a proxy, and list.Remove's type      *)
(* assertion to *Proxy never meets anything else.                          *)
(***************************************************************************)
THEOREM TypeCorrect == Spec => []TypeOK
  BY TypeInit, TypeStep, PTL DEF Spec

-----------------------------------------------------------------------------
(* Mutual exclusion on the proxies.  A step keeps the lock words and who   *)
(* holds what, takes a free lock, or gives back one that was held.         *)

LEMMA LockInit == Init => LockDiscipline
  BY DEF Init, LockDiscipline, Holds, Inside

LEMMA KeepLock ==
  ASSUME LockDiscipline, lock' = lock,
         \A t \in Threads, p \in Proxies : Holds(t, p)' <=> Holds(t, p)
  PROVE  LockDiscipline'
  BY DEF LockDiscipline

LEMMA TakeLock ==
  ASSUME TypeOK, LockDiscipline, NEW t \in Threads, NEW r \in Proxies,
         ~lock[r], lock' = [lock EXCEPT ![r] = TRUE],
         \A u \in Threads, p \in Proxies :
           Holds(u, p)' <=> Holds(u, p) \/ (u = t /\ p = r)
  PROVE  LockDiscipline'
<1>. lock \in [Proxies -> BOOLEAN]
  BY DEF TypeOK
<1>. SUFFICES ASSUME NEW p \in Proxies
              PROVE  /\ lock'[p] <=> \E u \in Threads : Holds(u, p)'
                     /\ \A u, v \in Threads : Holds(u, p)' /\ Holds(v, p)' => u = v
  BY DEF LockDiscipline
<1>1. CASE p = r
  BY <1>1 DEF LockDiscipline
<1>2. CASE p # r
  BY <1>2 DEF LockDiscipline
<1>. QED
  BY <1>1, <1>2

LEMMA FreeLock ==
  ASSUME TypeOK, LockDiscipline, NEW t \in Threads, NEW r \in Proxies,
         Holds(t, r), lock' = [lock EXCEPT ![r] = FALSE],
         \A u \in Threads, p \in Proxies : Holds(u, p)' <=> Holds(u, p) /\ u # t
  PROVE  LockDiscipline'
<1>. lock \in [Proxies -> BOOLEAN]
  BY DEF TypeOK
<1>. SUFFICES ASSUME NEW p \in Proxies
              PROVE  /\ lock'[p] <=> \E u \in Threads : Holds(u, p)'
                     /\ \A u, v \in Threads : Holds(u, p)' /\ Holds(v, p)' => u = v
  BY DEF LockDiscipline
<1>0. Holds(t, p) => p = r
  BY DEF Holds
<1>1. CASE p = r
  BY <1>1 DEF LockDiscipline
<1>2. CASE p # r
  BY <1>0, <1>2 DEF LockDiscipline
<1>. QED
  BY <1>1, <1>2

LEMMA ValidateFrees ==
  ASSUME TypeOK, LockDiscipline, NEW w \in Workers, pc[w] \in Inside,
         LeaveValidate(w)
  PROVE  LockDiscipline'
<1>. w \in Threads /\ sock[w] \in Proxies /\ Holds(w, sock[w])
  BY DEF TypeOK, Threads, Holds
<1>. pc \in [Threads -> WorkerPC \cup DispenserPC] /\ "idle" \notin Inside
  BY DEF TypeOK, Inside
<1>. sock \in [Threads -> Proxies \cup {NoProxy}]
  BY DEF TypeOK
<1>. QED
  BY FreeLock DEF LeaveValidate, Goto, Holds

LEMMA LockWorker ==
  ASSUME TypeOK, LockDiscipline, NEW w \in Workers,
         validate(w) \/ singleProxyCheck(w)
  PROVE  LockDiscipline'
<1>. w \in Threads /\ (pc[w] \in Inside \cup Popped => sock[w] \in Proxies)
  BY DEF TypeOK, Threads
<1>. /\ pc \in [Threads -> WorkerPC \cup DispenserPC]
     /\ sock \in [Threads -> Proxies \cup {NoProxy}]
  BY DEF TypeOK
<1>. USE DEF Goto, Holds, Inside, Popped, sharedVars, proxyVars, facts
<1>1. CASE ValidateBusy(w)
  BY <1>1, KeepLock DEF ValidateBusy
<1>2. CASE ValidateLock(w)
  <2>1. /\ sock[w] \in Proxies /\ ~lock[sock[w]]
        /\ lock' = [lock EXCEPT ![sock[w]] = TRUE]
    BY <1>2 DEF ValidateLock
  <2>2. \A u \in Threads, p \in Proxies :
          Holds(u, p)' <=> Holds(u, p) \/ (u = w /\ p = sock[w])
    BY <1>2 DEF ValidateLock
  <2>. HIDE DEF Holds
  <2>. QED
    BY <2>1, <2>2, TakeLock
<1>3. CASE ValidateCtx(w)
  <2>1. CASE LeaveValidate(w)
    BY <1>3, <2>1, ValidateFrees DEF ValidateCtx
  <2>2. CASE Goto(w, "limits") /\ UNCHANGED <<lock, sock>>
    BY <1>3, <2>2, KeepLock DEF ValidateCtx
  <2>. QED
    BY <1>3, <2>1, <2>2 DEF ValidateCtx
<1>4. CASE ValidateRefused(w)
  BY <1>4, ValidateFrees DEF ValidateRefused
<1>5. CASE ValidateAdmitted(w)
  <2>1. pc' = [pc EXCEPT ![w] = "probe"] \/ pc' = [pc EXCEPT ![w] = "recheck"]
    BY <1>5 DEF ValidateAdmitted
  <2>. QED
    BY <1>5, <2>1, KeepLock DEF ValidateAdmitted
<1>6. CASE ProbeNext(w)
  <2>1. CASE LeaveValidate(w)
    BY <1>6, <2>1, ValidateFrees DEF ProbeNext
  <2>2. CASE (Goto(w, "verdict") \/ Goto(w, "check")) /\ UNCHANGED <<lock, sock>>
    BY <1>6, <2>2, KeepLock DEF ProbeNext
  <2>. QED
    BY <1>6, <2>1, <2>2 DEF ProbeNext
<1>7. CASE VerdictBad(w)
  BY <1>7, ValidateFrees DEF VerdictBad, MarkBad
<1>8. CASE VerdictGood(w)
  BY <1>8, KeepLock DEF VerdictGood
<1>9. CASE Tally(w)
  BY <1>9, KeepLock DEF Tally
<1>10. CASE ValidateDone(w)
  BY <1>10, ValidateFrees DEF ValidateDone
<1>11. ASSUME NEW q \in Protos, ProbePasses(w, q) PROVE LockDiscipline'
  BY <1>11, KeepLock DEF ProbePasses
<1>12. ASSUME NEW q \in Protos, ProbeFails(w, q) PROVE LockDiscipline'
  BY <1>12, KeepLock DEF ProbeFails
<1>13. CASE RecheckPasses(w)
  BY <1>13, KeepLock DEF RecheckPasses
<1>14. CASE RecheckFails(w)
  BY <1>14, ValidateFrees DEF RecheckFails, MarkBad
<1>. QED
  BY <1>1, <1>2, <1>3, <1>4, <1>5, <1>6, <1>7, <1>8, <1>9, <1>10, <1>11,
     <1>12, <1>13, <1>14 DEF validate, singleProxyCheck

LEMMA LockConsumer ==
  ASSUME TypeOK, LockDiscipline, NEW d \in Dispensers,
         dispense(d) \/ CallAny(d) \/ (\E q \in Protos : CallStr(d, q))
  PROVE  LockDiscipline'
<1>. d \in Threads /\ (pc[d] \in Inside \cup Popped => sock[d] \in Proxies)
  BY DEF TypeOK, Threads
<1>. /\ pc \in [Threads -> WorkerPC \cup DispenserPC]
     /\ sock \in [Threads -> Proxies \cup {NoProxy}]
  BY DEF TypeOK
<1>. USE DEF Goto, Drop, Unlock, Again, Holds, Inside, Popped, sharedVars,
             proxyVars, facts, consumerRest
<1>1. ASSUME pc[d] \notin Inside, pc'[d] \notin Inside, UNCHANGED lock,
             \A t \in Threads \ {d} : pc'[t] = pc[t] /\ sock'[t] = sock[t]
      PROVE  LockDiscipline'
  BY <1>1, KeepLock
<1>2. ASSUME NEW q \in Protos,
             CallStr(d, q) \/ StrLen(d, q) \/ StrTake(d, q) \/ Visit(d, q)
      PROVE  LockDiscipline'
  BY <1>1, <1>2 DEF CallStr, StrLen, StrTake, Visit, PopFront
<1>3. CASE CallAny(d) \/ DialLoop(d) \/ PopSock(d)
  BY <1>1, <1>3 DEF CallAny, DialLoop, PopSock
<1>4. CASE NextRound(d) \/ StillGoodBusy(d) \/ LockItCtxDone(d)
  BY <1>1, <1>4 DEF NextRound, StillGoodBusy, LockItCtxDone
<1>5. CASE PutBack(d) \/ Connect(d) \/ Return(d)
  BY <1>1, <1>5 DEF PutBack, Connect, Return
<1>6. CASE StillGoodLock(d)
  <2>1. /\ sock[d] \in Proxies /\ ~lock[sock[d]]
        /\ lock' = [lock EXCEPT ![sock[d]] = TRUE]
    BY <1>6 DEF StillGoodLock
  <2>2. \A u \in Threads, p \in Proxies :
          Holds(u, p)' <=> Holds(u, p) \/ (u = d /\ p = sock[d])
    BY <1>6 DEF StillGoodLock
  <2>. HIDE DEF Holds
  <2>. QED
    BY <2>1, <2>2, TakeLock
<1>7. CASE LockIt(d)
  <2>1. /\ sock[d] \in Proxies /\ ~lock[sock[d]]
        /\ lock' = [lock EXCEPT ![sock[d]] = TRUE]
    BY <1>7 DEF LockIt
  <2>2. \A u \in Threads, p \in Proxies :
          Holds(u, p)' <=> Holds(u, p) \/ (u = d /\ p = sock[d])
    BY <1>7 DEF LockIt
  <2>. HIDE DEF Holds
  <2>. QED
    BY <2>1, <2>2, TakeLock
<1>8. CASE StillGoodRemoves(d) \/ StillGoodRefuses(d)
  BY <1>8, FreeLock DEF StillGoodRemoves, StillGoodRefuses
<1>9. CASE StillGoodAccepts(d)
  BY <1>9, FreeLock DEF StillGoodAccepts
<1>10. CASE MiddlewareApproves(d) \/ MiddlewareRejects(d)
  BY <1>10, FreeLock DEF MiddlewareApproves, MiddlewareRejects
<1>. QED
  BY <1>2, <1>3, <1>4, <1>5, <1>6, <1>7, <1>8, <1>9, <1>10
  DEF dispense, stillGood

LEMMA LockStep == TypeOK /\ LockDiscipline /\ [Next]_vars => LockDiscipline'
<1>. SUFFICES ASSUME TypeOK, LockDiscipline, [Next]_vars PROVE LockDiscipline'
  OBVIOUS
<1>. USE DEF sharedVars, proxyVars, facts, threadVars, Holds
<1>1. ASSUME NEW w \in Workers, NEW p \in Proxies, Submit(w, p)
      PROVE  LockDiscipline'
  BY <1>1, KeepLock DEF Submit, Goto, Inside, TypeOK, Threads
<1>2. CASE Close
  BY <1>2, KeepLock DEF Close
<1>3. ASSUME NEW p \in Proxies, BadExpires(Endpoint[p]) PROVE LockDiscipline'
  BY <1>3, KeepLock DEF BadExpires
<1>4. ASSUME NEW p \in Proxies, GoesStale(p) PROVE LockDiscipline'
  BY <1>4, KeepLock DEF GoesStale
<1>5. CASE UNCHANGED vars
  BY <1>5, KeepLock DEF vars
<1>. QED
  BY <1>1, <1>2, <1>3, <1>4, <1>5, LockWorker, LockConsumer DEF Next

(***************************************************************************)
(* validate, stillGood and the dialer never work on one proxy at the same  *)
(* time, and the lock word is set exactly while one of them does.          *)
(***************************************************************************)
THEOREM MutualExclusion == Spec => []LockDiscipline
<1>1. Init => TypeOK /\ LockDiscipline
  BY TypeInit, LockInit
<1>2. TypeOK /\ LockDiscipline /\ [Next]_vars => (TypeOK /\ LockDiscipline)'
  BY TypeStep, LockStep
<1>. QED
  BY <1>1, <1>2, PTL DEF Spec

-----------------------------------------------------------------------------
(* What is verified stays verified.                                        *)

LEMMA Monotone ==
  ASSUME TypeOK, [Next]_vars, NEW p \in Proxies
  PROVE  /\ protocol[p] # ProtoNull => protocol'[p] = protocol[p]
         /\ timesValidated[p] > 0 => timesValidated'[p] > 0
<1>. protocol \in [Proxies -> Protos \cup {ProtoNull}]
  BY DEF TypeOK
<1>. timesValidated \in [Proxies -> Nat]
  BY DEF TypeOK
<1>. USE DEF sharedVars, proxyVars, facts, consumerRest
<1>1. ASSUME NEW w \in Workers, NEW q \in Protos, ProbePasses(w, q)
      PROVE  /\ protocol[p] # ProtoNull => protocol'[p] = protocol[p]
             /\ timesValidated' = timesValidated
  BY <1>1 DEF ProbePasses, SetProto
<1>2. ASSUME NEW w \in Workers, VerdictGood(w)
      PROVE  /\ protocol' = protocol
             /\ timesValidated[p] > 0 => timesValidated'[p] > 0
  BY <1>2 DEF VerdictGood, Bump
<1>3. ASSUME NEW w \in Workers, validate(w), ~VerdictGood(w)
      PROVE  UNCHANGED <<protocol, timesValidated>>
  BY <1>3 DEF validate, ValidateBusy, ValidateLock, ValidateCtx,
     ValidateRefused, ValidateAdmitted, ProbeNext, VerdictBad, MarkBad, Tally,
     ValidateDone
<1>4. ASSUME NEW w \in Workers,
             \/ \E q \in Protos : ProbeFails(w, q)
             \/ RecheckPasses(w) \/ RecheckFails(w)
      PROVE  UNCHANGED <<protocol, timesValidated>>
  BY <1>4 DEF ProbeFails, RecheckPasses, RecheckFails, MarkBad
<1>5. ASSUME NEW d \in Dispensers, NEW q \in Protos,
             CallStr(d, q) \/ StrLen(d, q) \/ StrTake(d, q) \/ Visit(d, q)
      PROVE  UNCHANGED <<protocol, timesValidated>>
  BY <1>5 DEF CallStr, StrLen, StrTake, Visit
<1>6. ASSUME NEW d \in Dispensers, CallAny(d) \/ DialLoop(d) \/ PopSock(d)
             \/ NextRound(d) \/ stillGood(d)
      PROVE  UNCHANGED <<protocol, timesValidated>>
  BY <1>6 DEF CallAny, DialLoop, PopSock, NextRound, stillGood, StillGoodBusy,
     StillGoodLock, StillGoodRemoves, StillGoodRefuses, StillGoodAccepts
<1>7. ASSUME NEW d \in Dispensers, LockItCtxDone(d) \/ LockIt(d) \/ PutBack(d)
             \/ MiddlewareApproves(d) \/ MiddlewareRejects(d) \/ Connect(d)
             \/ Return(d)
      PROVE  UNCHANGED <<protocol, timesValidated>>
  BY <1>7 DEF LockItCtxDone, LockIt, PutBack, MiddlewareApproves,
     MiddlewareRejects, Connect, Return
<1>8. ASSUME NEW w \in Workers, NEW r \in Proxies, Submit(w, r)
      PROVE  UNCHANGED <<protocol, timesValidated>>
  BY <1>8 DEF Submit
<1>9. ASSUME NEW r \in Proxies, Close \/ BadExpires(Endpoint[r]) \/ GoesStale(r)
      PROVE  UNCHANGED <<protocol, timesValidated>>
  BY <1>9 DEF Close, BadExpires, GoesStale
<1>10. CASE UNCHANGED vars
  BY <1>10 DEF vars
<1>11. ASSUME NEW w \in Workers, validate(w) \/ singleProxyCheck(w)
       PROVE  /\ protocol[p] # ProtoNull => protocol'[p] = protocol[p]
              /\ timesValidated[p] > 0 => timesValidated'[p] > 0
  BY <1>1, <1>2, <1>3, <1>4, <1>11 DEF singleProxyCheck
<1>12. ASSUME NEW d \in Dispensers,
              \/ \E q \in Protos : CallStr(d, q)
              \/ CallAny(d) \/ dispense(d)
       PROVE  UNCHANGED <<protocol, timesValidated>>
  BY <1>5, <1>6, <1>7, <1>12 DEF dispense
<1>. QED
  BY <1>8, <1>9, <1>10, <1>11, <1>12 DEF Next

(***************************************************************************)
(* The protocol a proxy was verified as never changes.                     *)
(***************************************************************************)
THEOREM ProtocolStable == Spec => ProtoStable
<1>1. TypeOK /\ [Next]_vars =>
        [\A p \in Proxies : protocol[p] # ProtoNull => protocol'[p] = protocol[p]]_vars
  BY Monotone
<1>. QED
  BY <1>1, TypeCorrect, PTL DEF Spec, ProtoStable

-----------------------------------------------------------------------------
(* No verdict without a check that succeeded.                              *)

Trying == {"probe", "check", "verdict"}

LEMMA EarnedInit == Init => VerdictEarned /\ TallyPassed
  BY DEF Init, VerdictEarned, TallyPassed, Threads

\* A step that neither touches a protocol, a count or the context, nor moves a
\* worker.
LEMMA EarnedFrame ==
  ASSUME VerdictEarned, TallyPassed,
         UNCHANGED <<protocol, timesValidated, passed>>, ctxDone => ctxDone',
         \A w \in Workers : pc'[w] = pc[w] /\ sock'[w] = sock[w]
  PROVE  VerdictEarned' /\ TallyPassed'
  BY DEF VerdictEarned, TallyPassed

\* A worker that moves to a place where nothing is asked of it, and had not
\* been trying, or has to stop because the context is cancelled, or leaves a
\* proxy without a protocol.
LEMMA EarnedLeaves ==
  ASSUME TypeOK, VerdictEarned, TallyPassed, NEW w \in Workers,
         UNCHANGED <<protocol, timesValidated, ctxDone>>,
         \A u \in Workers \ {w} :
           pc'[u] = pc[u] /\ sock'[u] = sock[u] /\ passed'[u] = passed[u],
         pc'[w] \in {"idle", "cas", "ctx", "recheck", "release"},
         \/ pc[w] \notin Trying
         \/ ctxDone
         \/ protocol[sock[w]] = ProtoNull
  PROVE  VerdictEarned' /\ TallyPassed'
  BY DEF VerdictEarned, TallyPassed, Trying

LEMMA EarnedWorker ==
  ASSUME TypeOK, LockDiscipline, VerdictEarned, TallyPassed, NEW w \in Workers,
         validate(w) \/ singleProxyCheck(w)
  PROVE  VerdictEarned' /\ TallyPassed'
<1>. /\ w \in Threads
     /\ \A u \in Workers : pc[u] \in Inside \cup Popped => sock[u] \in Proxies
  BY DEF TypeOK, Threads
<1>. /\ pc \in [Threads -> WorkerPC \cup DispenserPC]
     /\ sock \in [Threads -> Proxies \cup {NoProxy}]
     /\ passed \in [Workers -> BOOLEAN]
     /\ Workers \subseteq Threads
  BY DEF TypeOK, Threads
<1>. protocol \in [Proxies -> Protos \cup {ProtoNull}]
     /\ timesValidated \in [Proxies -> Nat]
  BY DEF TypeOK
<1>0. ASSUME NEW u \in Workers \ {w}, pc[u] \in Inside, pc[w] \in Inside
      PROVE  sock[u] # sock[w]
  BY <1>0 DEF LockDiscipline, Holds
<1>. USE DEF Goto, Trying, sharedVars, proxyVars, facts
<1>1. CASE ValidateBusy(w)
  BY <1>1, EarnedLeaves DEF ValidateBusy
<1>2. CASE ValidateLock(w)
  BY <1>2, EarnedLeaves DEF ValidateLock
<1>3. CASE ValidateCtx(w)
  <2>1. CASE LeaveValidate(w)
    BY <1>3, <2>1, EarnedLeaves DEF ValidateCtx, LeaveValidate
  <2>2. CASE ~ctxDone /\ Goto(w, "limits") /\ UNCHANGED <<lock, sock>>
    <3>1. protocol[sock[w]] # ProtoNull => timesValidated[sock[w]] > 0
      BY <1>0, <1>3, <2>2 DEF VerdictEarned, ValidateCtx, Inside
    <3>. QED
      BY <1>3, <2>2, <3>1 DEF VerdictEarned, TallyPassed, ValidateCtx
  <2>. QED
    BY <1>3, <2>1, <2>2 DEF ValidateCtx
<1>4. CASE ValidateRefused(w)
  BY <1>4, EarnedLeaves DEF ValidateRefused, LeaveValidate
<1>5. CASE ValidateAdmitted(w)
  <2>1. CASE timesValidated[sock[w]] = 0 \/ protocol[sock[w]] = ProtoNull
    <3>1. protocol[sock[w]] = ProtoNull
      BY <1>5, <2>1 DEF VerdictEarned, ValidateAdmitted, Inside
    <3>. QED
      BY <1>5, <2>1, <3>1 DEF VerdictEarned, TallyPassed, ValidateAdmitted
  <2>2. CASE ~(timesValidated[sock[w]] = 0 \/ protocol[sock[w]] = ProtoNull)
    BY <1>5, <2>2, EarnedLeaves DEF ValidateAdmitted
  <2>. QED
    BY <2>1, <2>2
<1>6. CASE ProbeNext(w)
  <2>1. CASE ctxDone /\ LeaveValidate(w)
    BY <1>6, <2>1, EarnedLeaves DEF ProbeNext, LeaveValidate
  <2>2. CASE (Goto(w, "verdict") \/ Goto(w, "check")) /\ UNCHANGED <<lock, sock>>
    BY <1>6, <2>2 DEF VerdictEarned, TallyPassed, ProbeNext
  <2>. QED
    BY <1>6, <2>1, <2>2 DEF ProbeNext
<1>7. CASE VerdictBad(w)
  BY <1>7, EarnedLeaves DEF VerdictBad, MarkBad, LeaveValidate
<1>8. CASE VerdictGood(w)
  BY <1>0, <1>8, PoolAssumption
  DEF VerdictEarned, TallyPassed, VerdictGood, Bump, Inside
<1>9. CASE Tally(w)
  BY <1>9, EarnedLeaves DEF Tally
<1>10. CASE ValidateDone(w)
  BY <1>10, EarnedLeaves DEF ValidateDone, LeaveValidate
<1>11. ASSUME NEW q \in Protos, ProbePasses(w, q)
       PROVE  VerdictEarned' /\ TallyPassed'
  <2>1. \A p \in Proxies \ {sock[w]} : protocol'[p] = protocol[p]
    BY <1>11 DEF ProbePasses, SetProto
  <2>. QED
    BY <1>0, <1>11, <2>1 DEF VerdictEarned, TallyPassed, ProbePasses, Inside
<1>12. ASSUME NEW q \in Protos, ProbeFails(w, q)
       PROVE  VerdictEarned' /\ TallyPassed'
  BY <1>12 DEF VerdictEarned, TallyPassed, ProbeFails
<1>13. CASE RecheckPasses(w)
  BY <1>13 DEF VerdictEarned, TallyPassed, RecheckPasses
<1>14. CASE RecheckFails(w)
  BY <1>14, EarnedLeaves DEF RecheckFails, MarkBad, LeaveValidate
<1>. QED
  BY <1>1, <1>2, <1>3, <1>4, <1>5, <1>6, <1>7, <1>8, <1>9, <1>10, <1>11,
     <1>12, <1>13, <1>14 DEF validate, singleProxyCheck

\* What a consumer does to the state the workers are judged by: nothing.
LEMMA ConsumerFrame ==
  ASSUME TypeOK, NEW d \in Dispensers,
         dispense(d) \/ CallAny(d) \/ (\E q \in Protos : CallStr(d, q))
  PROVE  /\ UNCHANGED <<ctxDone, protocol, timesValidated, passed>>
         /\ \A t \in Threads \ {d} : pc'[t] = pc[t] /\ sock'[t] = sock[t]
<1>. /\ pc \in [Threads -> WorkerPC \cup DispenserPC]
     /\ sock \in [Threads -> Proxies \cup {NoProxy}]
  BY DEF TypeOK
<1>. USE DEF Goto, Drop, sharedVars, proxyVars, facts, consumerRest
<1>1. CASE \E q \in Protos :
             CallStr(d, q) \/ StrLen(d, q) \/ StrTake(d, q) \/ Visit(d, q)
  BY <1>1 DEF CallStr, StrLen, StrTake, Visit, PopFront
<1>2. CASE CallAny(d) \/ DialLoop(d) \/ PopSock(d) \/ NextRound(d)
  BY <1>2 DEF CallAny, DialLoop, PopSock, NextRound
<1>3. CASE stillGood(d)
  BY <1>3 DEF stillGood, StillGoodBusy, StillGoodLock, StillGoodRemoves,
     StillGoodRefuses, StillGoodAccepts
<1>4. CASE LockItCtxDone(d) \/ LockIt(d) \/ PutBack(d)
  BY <1>4 DEF LockItCtxDone, LockIt, PutBack
<1>5. CASE MiddlewareApproves(d) \/ MiddlewareRejects(d) \/ Connect(d) \/ Return(d)
  BY <1>5 DEF MiddlewareApproves, MiddlewareRejects, Connect, Return
<1>. QED
  BY <1>1, <1>2, <1>3, <1>4, <1>5 DEF dispense

LEMMA EarnedStep ==
  TypeOK /\ LockDiscipline /\ VerdictEarned /\ TallyPassed /\ [Next]_vars
    => VerdictEarned' /\ TallyPassed'
<1>. SUFFICES ASSUME TypeOK, LockDiscipline, VerdictEarned, TallyPassed,
                     [Next]_vars
              PROVE  VerdictEarned' /\ TallyPassed'
  OBVIOUS
<1>. USE DEF sharedVars, proxyVars, facts, threadVars
<1>1. ASSUME NEW w \in Workers, NEW p \in Proxies, Submit(w, p)
      PROVE  VerdictEarned' /\ TallyPassed'
  BY <1>1, EarnedLeaves DEF Submit, Goto, TypeOK, Threads, Trying
<1>2. ASSUME NEW d \in Dispensers,
             \/ \E q \in Protos : CallStr(d, q)
             \/ CallAny(d) \/ dispense(d)
      PROVE  VerdictEarned' /\ TallyPassed'
  BY <1>2, ConsumerFrame, EarnedFrame, PoolAssumption DEF Threads
<1>3. CASE Close
  BY <1>3, EarnedFrame DEF Close
<1>4. ASSUME NEW p \in Proxies, BadExpires(Endpoint[p]) \/ GoesStale(p)
      PROVE  VerdictEarned' /\ TallyPassed'
  BY <1>4, EarnedFrame DEF BadExpires, GoesStale
<1>5. CASE UNCHANGED vars
  BY <1>5, EarnedFrame DEF vars
<1>. QED
  BY <1>1, <1>2, <1>3, <1>4, <1>5, EarnedWorker DEF Next

(***************************************************************************)
(* A call of validate counts a proxy as verified only if one of its own    *)
(* checks succeeded.                                                       *)
(***************************************************************************)
THEOREM TallyIsEarned == Spec => []TallyPassed
<1>. DEFINE I == TypeOK /\ LockDiscipline /\ VerdictEarned /\ TallyPassed
<1>1. Init => I
  BY TypeInit, LockInit, EarnedInit
<1>2. I /\ [Next]_vars => I'
  BY TypeStep, LockStep, EarnedStep
<1>. QED
  BY <1>1, <1>2, PTL DEF Spec

-----------------------------------------------------------------------------
(* What is listed, carried and handed out has been verified.               *)

Grows(p) ==
  /\ protocol[p] # ProtoNull => protocol'[p] = protocol[p]
  /\ timesValidated[p] > 0 => timesValidated'[p] > 0

\* The three things a step does to the lists: nothing, a push, a pop.
LEMMA ListsKept ==
  ASSUME TypeOK, PoolAssumption, ListedVerified, \A p \in Proxies : Grows(p),
         Valids' = Valids
  PROVE  ListedVerified'
<1>. SUFFICES ASSUME NEW q \in Protos, NEW i \in 1..Len(Valids[q])
              PROVE  /\ protocol'[Valids[q][i]] = q
                     /\ timesValidated'[Valids[q][i]] > 0
  BY DEF ListedVerified
<1>1. Valids[q] \in Seq(Proxies)
  BY DEF TypeOK
<1>2. Valids[q][i] \in Proxies
  BY <1>1
<1>3. protocol[Valids[q][i]] = q /\ timesValidated[Valids[q][i]] > 0
  BY DEF ListedVerified
<1>. QED
  BY <1>2, <1>3, PoolAssumption DEF Grows, PoolAssumption

LEMMA ListPushed ==
  ASSUME TypeOK, PoolAssumption, ListedVerified, \A p \in Proxies : Grows(p),
         NEW r \in Proxies, Verified(r), PushBack(protocol[r], r)
  PROVE  ListedVerified'
<1>. SUFFICES ASSUME NEW q \in Protos, NEW i \in 1..Len(Valids'[q])
              PROVE  /\ protocol'[Valids'[q][i]] = q
                     /\ timesValidated'[Valids'[q][i]] > 0
  BY DEF ListedVerified
<1>1. Valids[q] \in Seq(Proxies) /\ Valids \in [Protos -> Seq(Proxies)]
  BY DEF TypeOK
<1>2. protocol'[r] = protocol[r] /\ timesValidated'[r] > 0
  BY DEF Verified, Grows
<1>3. CASE q = protocol[r]
  <2>1. Valids'[q] = Append(Valids[q], r)
    BY <1>1, <1>3 DEF PushBack
  <2>2. CASE i = Len(Valids[q]) + 1
    BY <1>1, <1>2, <1>3, <2>1, <2>2
  <2>3. CASE i \in 1..Len(Valids[q])
    <3>1. Valids'[q][i] = Valids[q][i] /\ Valids[q][i] \in Proxies
      BY <1>1, <2>1, <2>3
    <3>. QED
      BY <2>3, <3>1, PoolAssumption DEF ListedVerified, Grows, PoolAssumption
  <2>. QED
    BY <1>1, <2>1, <2>2, <2>3
<1>4. CASE q # protocol[r]
  <2>1. Valids'[q] = Valids[q]
    BY <1>1, <1>4 DEF PushBack
  <2>2. Valids[q][i] \in Proxies /\ i \in 1..Len(Valids[q])
    BY <1>1, <2>1
  <2>. QED
    BY <2>1, <2>2, PoolAssumption DEF ListedVerified, Grows, PoolAssumption
<1>. QED
  BY <1>3, <1>4

LEMMA ListPopped ==
  ASSUME TypeOK, PoolAssumption, ListedVerified, \A p \in Proxies : Grows(p),
         NEW d \in Dispensers, NEW r \in Protos, PopFront(d, r)
  PROVE  /\ ListedVerified'
         /\ sock'[d] \in Proxies
         /\ protocol'[sock'[d]] = r
         /\ timesValidated'[sock'[d]] > 0
<1>1. /\ Valids \in [Protos -> Seq(Proxies)]
      /\ Valids[r] \in Seq(Proxies) /\ Valids[r] # <<>>
      /\ sock' = [sock EXCEPT ![d] = Head(Valids[r])]
      /\ Valids' = [Valids EXCEPT ![r] = Tail(Valids[r])]
      /\ sock \in [Threads -> Proxies \cup {NoProxy}] /\ d \in Threads
  BY DEF TypeOK, PopFront, Threads
<1>2. ASSUME NEW q \in Protos, NEW i \in 1..Len(Valids[q])
      PROVE  /\ Valids[q][i] \in Proxies
             /\ protocol'[Valids[q][i]] = q
             /\ timesValidated'[Valids[q][i]] > 0
  <2>1. Valids[q] \in Seq(Proxies)
    BY <1>1
  <2>2. Valids[q][i] \in Proxies
    BY <2>1
  <2>. QED
    BY <2>2, PoolAssumption DEF ListedVerified, Grows, PoolAssumption
<1>3. sock'[d] = Valids[r][1] /\ 1 \in 1..Len(Valids[r])
  BY <1>1
<1>4. ListedVerified'
  <2>. SUFFICES ASSUME NEW q \in Protos, NEW i \in 1..Len(Valids'[q])
                PROVE  /\ protocol'[Valids'[q][i]] = q
                       /\ timesValidated'[Valids'[q][i]] > 0
    BY DEF ListedVerified
  <2>1. CASE q = r
    <3>1. Valids'[q][i] = Valids[q][i + 1] /\ i + 1 \in 1..Len(Valids[q])
      BY <1>1, <2>1
    <3>. QED
      BY <1>2, <3>1
  <2>2. CASE q # r
    BY <1>1, <1>2, <2>2
  <2>. QED
    BY <2>1, <2>2
<1>. QED
  BY <1>2, <1>3, <1>4

LEMMA CarriedInit == Init => ListedVerified /\ CarriedVerified /\ AskedFor
<1>. SUFFICES ASSUME Init PROVE ListedVerified /\ CarriedVerified /\ AskedFor
  OBVIOUS
<1>1. ListedVerified
  BY DEF Init, ListedVerified
<1>2. CarriedVerified /\ AskedFor
  BY DEF Init, CarriedVerified, AskedFor, Threads, Popped
<1>. QED
  BY <1>1, <1>2

LEMMA CarriedWorker ==
  ASSUME TypeOK, LockDiscipline, ListedVerified, CarriedVerified, AskedFor,
         [Next]_vars, NEW w \in Workers, validate(w) \/ singleProxyCheck(w)
  PROVE  ListedVerified' /\ CarriedVerified' /\ AskedFor'
<1>1. \A p \in Proxies : Grows(p)
  BY Monotone DEF Grows
<1>2. /\ w \in Threads /\ w \notin Dispensers /\ Dispensers \subseteq Threads
      /\ Workers \subseteq Threads
      /\ pc \in [Threads -> WorkerPC \cup DispenserPC]
      /\ sock \in [Threads -> Proxies \cup {NoProxy}]
      /\ \A u \in Workers : pc[u] \in Inside \cup Popped => sock[u] \in Proxies
  BY PoolAssumption DEF TypeOK, Threads, PoolAssumption
<1>. USE DEF Goto, sharedVars, proxyVars, facts
<1>3. /\ \A t \in Threads \ {w} : pc'[t] = pc[t] /\ sock'[t] = sock[t]
      /\ lists' = lists
  <2>1. CASE validate(w)
    BY <1>2, <2>1 DEF validate, ValidateBusy, ValidateLock, ValidateCtx,
       ValidateRefused, ValidateAdmitted, ProbeNext, VerdictBad, MarkBad,
       VerdictGood, Tally, ValidateDone, LeaveValidate
  <2>2. CASE singleProxyCheck(w)
    BY <1>2, <2>2 DEF singleProxyCheck, ProbePasses, ProbeFails, RecheckPasses,
       RecheckFails, MarkBad, LeaveValidate
  <2>. QED
    BY <2>1, <2>2
<1>4. AskedFor'
  <2>. SUFFICES ASSUME NEW d \in Dispensers, KindOf[d] = "str"
                PROVE  /\ pc[d] \in {"idle", "len", "take", "cas", "judge",
                                      "returned", "panicked"}
                       /\ pc[d] \in {"len", "take"} =>
                            \E q \in Protos : lists[d] = {q}
                       /\ pc[d] \in {"cas", "judge", "returned"} =>
                            lists[d] = {protocol'[sock[d]]}
    BY <1>2, <1>3 DEF AskedFor
  <2>1. pc[d] \in {"cas", "judge", "returned"} =>
          protocol'[sock[d]] = protocol[sock[d]]
    BY <1>1 DEF CarriedVerified, Verified, Grows, Popped
  <2>. QED
    BY <2>1 DEF AskedFor
<1>5. \A d \in Dispensers : pc'[d] \in Popped \cup {"returned"} =>
        sock'[d] \in Proxies /\ Verified(sock[d])'
  BY <1>1, <1>2, <1>3 DEF CarriedVerified, Verified, Grows
<1>6. \A u \in Workers \ {w} : pc'[u] = "tally" => Verified(sock[u])'
  BY <1>1, <1>2, <1>3 DEF CarriedVerified, Verified, Grows, Inside
<1>7. CASE VerdictGood(w)
  <2>1. sock[w] \in Proxies /\ sock' = sock
    BY <1>2, <1>7 DEF VerdictGood, Inside
  <2>2. protocol'[sock[w]] # ProtoNull
    BY <1>7, PoolAssumption DEF VerdictGood, PoolAssumption
  <2>3. timesValidated'[sock[w]] > 0
    BY <1>7, <2>1 DEF VerdictGood, Bump, TypeOK
  <2>4. Verified(sock[w])'
    BY <2>1, <2>2, <2>3 DEF Verified
  <2>5. ListedVerified'
    BY <1>1, <1>7, ListsKept, PoolAssumption DEF VerdictGood
  <2>. QED
    BY <1>4, <1>5, <1>6, <2>4, <2>5 DEF CarriedVerified
<1>8. CASE Tally(w)
  <2>1. sock[w] \in Proxies /\ Verified(sock[w])
    BY <1>2, <1>8 DEF Tally, CarriedVerified, Inside
  <2>2. ListedVerified'
    BY <1>1, <1>8, <2>1, ListPushed, PoolAssumption DEF Tally
  <2>3. pc'[w] # "tally"
    BY <1>2, <1>8 DEF Tally
  <2>. QED
    BY <1>4, <1>5, <1>6, <2>2, <2>3 DEF CarriedVerified
<1>9. CASE ~VerdictGood(w) /\ ~Tally(w)
  <2>1. Valids' = Valids /\ pc'[w] # "tally"
    <3>1. CASE validate(w)
      BY <1>2, <1>9, <3>1 DEF validate, ValidateBusy, ValidateLock, ValidateCtx,
         ValidateRefused, ValidateAdmitted, ProbeNext, VerdictBad, MarkBad,
         ValidateDone, LeaveValidate
    <3>2. CASE singleProxyCheck(w)
      BY <1>2, <3>2 DEF singleProxyCheck, ProbePasses, ProbeFails,
         RecheckPasses, RecheckFails, MarkBad, LeaveValidate
    <3>. QED
      BY <3>1, <3>2
  <2>2. ListedVerified'
    BY <1>1, <2>1, ListsKept, PoolAssumption
  <2>. QED
    BY <1>4, <1>5, <1>6, <2>1, <2>2 DEF CarriedVerified
<1>. QED
  BY <1>7, <1>8, <1>9

LEMMA CarriedConsumer ==
  ASSUME TypeOK, ListedVerified, CarriedVerified, AskedFor,
         [Next]_vars, NEW d \in Dispensers,
         dispense(d) \/ CallAny(d) \/ (\E q \in Protos : CallStr(d, q))
  PROVE  ListedVerified' /\ CarriedVerified' /\ AskedFor'
<1>1. \A p \in Proxies : Grows(p)
  BY Monotone DEF Grows
<1>2. /\ d \in Threads /\ d \notin Workers /\ Dispensers \subseteq Threads
      /\ Workers \subseteq Threads
      /\ pc \in [Threads -> WorkerPC \cup DispenserPC]
      /\ sock \in [Threads -> Proxies \cup {NoProxy}]
      /\ lists \in [Dispensers -> SUBSET Protos]
  BY PoolAssumption DEF TypeOK, Threads, PoolAssumption
<1>3. /\ protocol' = protocol /\ timesValidated' = timesValidated
      /\ \A t \in Threads \ {d} : pc'[t] = pc[t] /\ sock'[t] = sock[t]
  BY ConsumerFrame
<1>. USE DEF Goto, Drop, Unlock, Again, sharedVars, proxyVars, facts, consumerRest
\* What is left to show of a step of d: the lists, and what d itself carries.
<1>4. ASSUME ListedVerified',
             \A e \in Dispensers \ {d} : lists'[e] = lists[e],
             pc'[d] \in Popped \cup {"returned"} =>
               sock'[d] \in Proxies /\ Verified(sock'[d]),
             KindOf[d] = "str" =>
               /\ pc'[d] \in {"idle", "len", "take", "cas", "judge", "returned",
                              "panicked"}
               /\ pc'[d] \in {"len", "take"} =>
                    \E q \in Protos : lists'[d] = {q}
               /\ pc'[d] \in {"cas", "judge", "returned"} =>
                    lists'[d] = {protocol[sock'[d]]}
      PROVE  ListedVerified' /\ CarriedVerified' /\ AskedFor'
  <2>1. CarriedVerified'
    BY <1>2, <1>3, <1>4 DEF CarriedVerified, Verified
  <2>2. AskedFor'
    BY <1>2, <1>3, <1>4 DEF AskedFor
  <2>. QED
    BY <1>4, <2>1, <2>2
<1>5. ASSUME Valids' = Valids PROVE ListedVerified'
  BY <1>1, <1>5, ListsKept, PoolAssumption
<1>6. pc[d] \in Popped => sock[d] \in Proxies /\ Verified(sock[d])
  BY DEF CarriedVerified
<1>7. ASSUME NEW q \in Protos, CallStr(d, q) \/ StrLen(d, q)
      PROVE  ListedVerified' /\ CarriedVerified' /\ AskedFor'
  BY <1>2, <1>4, <1>5, <1>7 DEF CallStr, StrLen, AskedFor, Popped
<1>8. ASSUME NEW q \in Protos, StrTake(d, q)
      PROVE  ListedVerified' /\ CarriedVerified' /\ AskedFor'
  <2>1. CASE PopFront(d, q)
    <3>1. ListedVerified' /\ sock'[d] \in Proxies /\ protocol[sock'[d]] = q
          /\ timesValidated[sock'[d]] > 0
      BY <1>1, <1>3, <2>1, ListPopped, PoolAssumption
    <3>2. Verified(sock'[d])
      BY <3>1, PoolAssumption DEF Verified, PoolAssumption
    <3>3. pc'[d] = "cas" /\ lists' = lists /\ q \in lists[d] /\ pc[d] = "take"
      BY <1>2, <1>8, <2>1 DEF StrTake, PopFront
    <3>. QED
      BY <1>4, <3>1, <3>2, <3>3 DEF AskedFor
  <2>2. CASE Goto(d, "panicked") /\ UNCHANGED <<Valids, sock>>
    BY <1>2, <1>4, <1>5, <1>8, <2>2 DEF StrTake, Popped
  <2>. QED
    BY <1>8, <2>1, <2>2 DEF StrTake
<1>9. ASSUME NEW q \in Protos, Visit(d, q)
      PROVE  ListedVerified' /\ CarriedVerified' /\ AskedFor'
  <2>0. KindOf[d] # "str"
    BY <1>9 DEF Visit, AskedFor
  <2>1. CASE PopFront(d, q)
    <3>1. ListedVerified' /\ sock'[d] \in Proxies /\ protocol[sock'[d]] = q
          /\ timesValidated[sock'[d]] > 0
      BY <1>1, <1>3, <2>1, ListPopped, PoolAssumption
    <3>2. Verified(sock'[d])
      BY <3>1, PoolAssumption DEF Verified, PoolAssumption
    <3>. QED
      BY <1>2, <1>4, <1>9, <2>0, <3>1, <3>2 DEF Visit
  <2>2. CASE UNCHANGED <<Valids, sock, pc>>
    BY <1>2, <1>4, <1>5, <1>9, <2>0, <2>2 DEF Visit, Popped
  <2>. QED
    BY <1>9, <2>1, <2>2 DEF Visit
<1>10. CASE CallAny(d)
  BY <1>2, <1>4, <1>5, <1>10 DEF CallAny, Popped
<1>11. CASE DialLoop(d) \/ PopSock(d) \/ NextRound(d)
  <2>1. KindOf[d] # "str"
    BY <1>11 DEF DialLoop, PopSock, NextRound, AskedFor
  <2>2. pc'[d] \notin Popped \cup {"returned"}
    BY <1>2, <1>11 DEF DialLoop, PopSock, NextRound, Popped
  <2>3. /\ Valids' = Valids
        /\ \A e \in Dispensers \ {d} : lists'[e] = lists[e]
    BY <1>2, <1>11 DEF DialLoop, PopSock, NextRound
  <2>. QED
    BY <1>4, <1>5, <2>1, <2>2, <2>3
<1>12. CASE StillGoodBusy(d) \/ StillGoodRemoves(d) \/ StillGoodRefuses(d)
  <2>1. /\ Valids' = Valids /\ lists' = lists /\ pc[d] \in {"cas", "judge"}
        /\ pc'[d] = IF KindOf[d] = "str" THEN "len" ELSE "visit"
    BY <1>2, <1>12 DEF StillGoodBusy, StillGoodRemoves, StillGoodRefuses
  <2>2. KindOf[d] = "str" => \E q \in Protos : lists[d] = {q}
    <3>1. protocol[sock[d]] \in Protos
      BY <1>6, <2>1 DEF Popped, Verified, TypeOK
    <3>. QED
      BY <2>1, <3>1 DEF AskedFor
  <2>. QED
    BY <1>4, <1>5, <2>1, <2>2 DEF Popped
<1>13. CASE StillGoodLock(d)
  BY <1>2, <1>4, <1>5, <1>6, <1>13 DEF StillGoodLock, AskedFor, Popped
<1>14. CASE StillGoodAccepts(d)
  <2>1. /\ Valids' = Valids /\ lists' = lists /\ sock' = sock /\ pc[d] = "judge"
        /\ pc'[d] = IF KindOf[d] = "dial" THEN "lockIt" ELSE "returned"
    BY <1>2, <1>14 DEF StillGoodAccepts
  <2>. QED
    BY <1>4, <1>5, <1>6, <2>1 DEF AskedFor, Popped
<1>15. CASE PutBack(d)
  <2>1. sock[d] \in Proxies /\ Verified(sock[d]) /\ KindOf[d] # "str"
    BY <1>6, <1>15 DEF PutBack, Popped, AskedFor
  <2>2. ListedVerified'
    BY <1>1, <1>15, <2>1, ListPushed, PoolAssumption DEF PutBack
  <2>. QED
    BY <1>2, <1>4, <1>15, <2>1, <2>2 DEF PutBack, Popped
<1>16. CASE LockItCtxDone(d) \/ LockIt(d) \/ MiddlewareApproves(d)
            \/ MiddlewareRejects(d) \/ Connect(d)
  <2>1. KindOf[d] # "str" /\ sock[d] \in Proxies /\ Verified(sock[d])
    BY <1>6, <1>16 DEF LockItCtxDone, LockIt, MiddlewareApproves,
       MiddlewareRejects, Connect, AskedFor, Popped
  <2>2. Valids' = Valids /\ lists' = lists
    BY <1>16 DEF LockItCtxDone, LockIt, MiddlewareApproves, MiddlewareRejects,
       Connect
  <2>3. sock'[d] = sock[d] \/ pc'[d] \in {"idle", "dial"}
    BY <1>2, <1>16 DEF LockItCtxDone, LockIt, MiddlewareApproves,
       MiddlewareRejects, Connect
  <2>. QED
    BY <1>4, <1>5, <2>1, <2>2, <2>3 DEF Popped
<1>17. CASE Return(d)
  BY <1>2, <1>4, <1>5, <1>17 DEF Return, Popped
<1>. QED
  BY <1>7, <1>8, <1>9, <1>10, <1>11, <1>12, <1>13, <1>14, <1>15, <1>16, <1>17
  DEF dispense, stillGood

LEMMA CarriedStep ==
  TypeOK /\ LockDiscipline /\ ListedVerified /\ CarriedVerified /\ AskedFor
    /\ [Next]_vars => ListedVerified' /\ CarriedVerified' /\ AskedFor'
<1>. SUFFICES ASSUME TypeOK, LockDiscipline, ListedVerified, CarriedVerified,
                     AskedFor, [Next]_vars
              PROVE  ListedVerified' /\ CarriedVerified' /\ AskedFor'
  OBVIOUS
<1>. USE DEF sharedVars, proxyVars, facts, threadVars
<1>1. ASSUME UNCHANGED <<protocol, timesValidated, Valids, lists>>,
             \A d \in Dispensers : pc'[d] = pc[d] /\ sock'[d] = sock[d],
             \A w \in Workers : pc'[w] = "tally" => pc[w] = "tally" /\ sock'[w] = sock[w]
      PROVE  ListedVerified' /\ CarriedVerified' /\ AskedFor'
  BY <1>1 DEF ListedVerified, CarriedVerified, AskedFor, Verified
<1>2. ASSUME NEW w \in Workers, NEW p \in Proxies, Submit(w, p)
      PROVE  ListedVerified' /\ CarriedVerified' /\ AskedFor'
  <2>1. w \notin Dispensers /\ pc \in [Threads -> WorkerPC \cup DispenserPC]
        /\ sock \in [Threads -> Proxies \cup {NoProxy}]
    BY PoolAssumption DEF PoolAssumption, TypeOK
  <2>. QED
    BY <1>1, <1>2, <2>1 DEF Submit, Goto, Threads
<1>3. CASE Close
  BY <1>1, <1>3 DEF Close
<1>4. ASSUME NEW p \in Proxies, BadExpires(Endpoint[p]) \/ GoesStale(p)
      PROVE  ListedVerified' /\ CarriedVerified' /\ AskedFor'
  BY <1>1, <1>4 DEF BadExpires, GoesStale
<1>5. CASE UNCHANGED vars
  BY <1>1, <1>5 DEF vars
<1>. QED
  BY <1>2, <1>3, <1>4, <1>5, CarriedWorker, CarriedConsumer DEF Next

(***************************************************************************)
(* The invariant of the pool.                                              *)
(***************************************************************************)
IInv ==
  TypeOK /\ LockDiscipline /\ ListedVerified /\ CarriedVerified /\ AskedFor

LEMMA IInvInvariant == Spec => []IInv
<1>1. Init => IInv
  BY TypeInit, LockInit, CarriedInit DEF IInv
<1>2. IInv /\ [Next]_vars => IInv'
  BY TypeStep, LockStep, CarriedStep DEF IInv
<1>. QED
  BY <1>1, <1>2, PTL DEF Spec

(***************************************************************************)
(* A proxy on the list of a protocol has been verified as that protocol.   *)
(***************************************************************************)
THEOREM ListsHoldVerified == Spec => []ListedVerified
  BY IInvInvariant, PTL DEF IInv

(***************************************************************************)
(* A proxy handed to a caller has been verified, as the protocol asked for.*)
(***************************************************************************)
THEOREM CallersGetVerified == Spec => []HandedVerified
<1>1. IInv => HandedVerified
  BY DEF IInv, HandedVerified, CarriedVerified, AskedFor, Verified
<1>. QED
  BY <1>1, IInvInvariant, PTL

-----------------------------------------------------------------------------
(***************************************************************************)
(* The pool implements VerifiedLedger: the copies of a proxy on the lists  *)
(* and in the hands of consumers are together the verifications of it that *)
(* have not been spent, whoever pops, puts back or drops.                  *)
(***************************************************************************)

(* How many places on the lists V hold a proxy.                            *)

Places(V, p) ==
  {x \in UNION {{q} \X (1..Len(V[q])) : q \in Protos} : V[x[1]][x[2]] = p}

Pushed(V, W, q, r) == W = [V EXCEPT ![q] = Append(@, r)]
Shifted(V, W, q) == W = [V EXCEPT ![q] = Tail(@)]

LEMMA PlacesAre ==
  ASSUME NEW V, NEW p, NEW x
  PROVE  x \in Places(V, p) <=>
           \E q \in Protos : \E i \in 1..Len(V[q]) : x = <<q, i>> /\ V[q][i] = p
  BY DEF Places

LEMMA PlacesPushed ==
  ASSUME NEW V \in [Protos -> Seq(Proxies)], NEW q \in Protos, NEW r \in Proxies,
         NEW W, Pushed(V, W, q, r),
         NEW p \in Proxies, IsFiniteSet(Places(V, p))
  PROVE  /\ IsFiniteSet(Places(W, p))
         /\ Cardinality(Places(W, p)) =
              Cardinality(Places(V, p)) + IF p = r THEN 1 ELSE 0
<1>. DEFINE last == <<q, Len(V[q]) + 1>>
<1>1. /\ V[q] \in Seq(Proxies) /\ Len(V[q]) \in Nat
      /\ Len(W[q]) = Len(V[q]) + 1 /\ W[q][Len(V[q]) + 1] = r
      /\ \A i \in 1..Len(V[q]) : W[q][i] = V[q][i]
      /\ \A o \in Protos \ {q} : W[o] = V[o]
  BY DEF Pushed
<1>2. ASSUME NEW x
      PROVE  x \in Places(W, p) <=> x \in Places(V, p) \/ (x = last /\ p = r)
  <2>1. ASSUME x \in Places(W, p)
        PROVE  x \in Places(V, p) \/ (x = last /\ p = r)
    <3>1a. PICK o \in Protos : \E i \in 1..Len(W[o]) : x = <<o, i>> /\ W[o][i] = p
      BY ONLY <2>1, PlacesAre
    <3>1. PICK i \in 1..Len(W[o]) : x = <<o, i>> /\ W[o][i] = p
      BY <3>1a
    <3>2. CASE o = q /\ i = Len(V[q]) + 1
      BY <1>1, <3>1, <3>2
    <3>3. CASE o # q \/ i # Len(V[q]) + 1
      <4>1. i \in 1..Len(V[o]) /\ V[o][i] = p
        BY <1>1, <3>1, <3>3
      <4>. QED
        BY <3>1, <4>1, PlacesAre
    <3>. QED
      BY <3>2, <3>3
  <2>2. ASSUME x \in Places(V, p)
        PROVE  x \in Places(W, p)
    <3>1a. PICK o \in Protos : \E i \in 1..Len(V[o]) : x = <<o, i>> /\ V[o][i] = p
      BY <2>2, PlacesAre
    <3>1. PICK i \in 1..Len(V[o]) : x = <<o, i>> /\ V[o][i] = p
      BY <3>1a
    <3>2. i \in 1..Len(W[o]) /\ W[o][i] = p
      BY <1>1, <3>1
    <3>. QED
      BY <3>1, <3>2, PlacesAre
  <2>3. ASSUME x = last, p = r
        PROVE  x \in Places(W, p)
    <3>1. Len(V[q]) + 1 \in 1..Len(W[q]) /\ W[q][Len(V[q]) + 1] = p
      BY <1>1, <2>3
    <3>. QED
      BY ONLY <2>3, <3>1, PlacesAre, q \in Protos
  <2>. QED
    BY <2>1, <2>2, <2>3
<1>3. last \notin Places(V, p)
  <2>. SUFFICES ASSUME last \in Places(V, p) PROVE FALSE
    OBVIOUS
  <2>1a. PICK o \in Protos : \E i \in 1..Len(V[o]) : last = <<o, i>>
    BY PlacesAre
  <2>1. PICK i \in 1..Len(V[o]) : last = <<o, i>>
    BY <2>1a
  <2>. QED
    BY <1>1, <2>1
<1>4. CASE p = r
  <2>1. Places(W, p) = Places(V, p) \cup {last}
    BY <1>2, <1>4
  <2>2. /\ IsFiniteSet(Places(V, p) \cup {last})
        /\ Cardinality(Places(V, p) \cup {last}) = Cardinality(Places(V, p)) + 1
    BY ONLY <1>3, IsFiniteSet(Places(V, p)), FS_AddElement
  <2>. HIDE DEF last
  <2>. QED
    BY <1>4, <2>1, <2>2
<1>5. CASE p # r
  <2>1. Places(W, p) = Places(V, p)
    BY <1>2, <1>5
  <2>2. Cardinality(Places(V, p)) \in Nat
    BY FS_CardinalityType
  <2>. QED
    BY <1>5, <2>1, <2>2
<1>. QED
  BY <1>4, <1>5

LEMMA PlacesPopped ==
  ASSUME NEW V \in [Protos -> Seq(Proxies)], NEW q \in Protos, V[q] # <<>>,
         NEW W, Shifted(V, W, q),
         NEW p \in Proxies, IsFiniteSet(Places(V, p))
  PROVE  /\ IsFiniteSet(Places(W, p))
         /\ Cardinality(Places(W, p)) =
              Cardinality(Places(V, p)) - IF p = Head(V[q]) THEN 1 ELSE 0
<1>. DEFINE S == Places(V, p) \ {<<q, 1>>}
            at(o, i) == IF o = q THEN i - 1 ELSE i
            shift == [x \in S |-> <<x[1], at(x[1], x[2])>>]
<1>1. /\ V[q] \in Seq(Proxies) /\ Len(V[q]) \in Nat \ {0} /\ Head(V[q]) = V[q][1]
      /\ Len(W[q]) = Len(V[q]) - 1
      /\ \A i \in 1..Len(W[q]) : W[q][i] = V[q][i + 1]
      /\ \A o \in Protos \ {q} : W[o] = V[o]
  BY DEF Shifted
<1>2. \A o \in Protos : Len(V[o]) \in Nat /\ Len(W[o]) \in Nat
  BY <1>1
<1>3. ASSUME NEW x \in S
      PROVE  \E o \in Protos : \E i \in 1..Len(V[o]) :
               /\ x = <<o, i>> /\ V[o][i] = p /\ x[1] = o /\ x[2] = i
               /\ at(o, i) \in 1..Len(W[o]) /\ W[o][at(o, i)] = p
  <2>1a. PICK o \in Protos : \E i \in 1..Len(V[o]) : x = <<o, i>> /\ V[o][i] = p
    BY <1>3, PlacesAre
  <2>1. PICK i \in 1..Len(V[o]) : x = <<o, i>> /\ V[o][i] = p
    BY <2>1a
  <2>2. ~(o = q /\ i = 1)
    BY <1>3, <2>1
  <2>3. at(o, i) \in 1..Len(W[o]) /\ W[o][at(o, i)] = p
    BY <1>1, <1>2, <2>1, <2>2
  <2>. QED
    BY <2>1, <2>3
<1>4. shift \in Bijection(S, Places(W, p))
  <2>1. shift \in [S -> Places(W, p)]
    <3>. SUFFICES ASSUME NEW x \in S
                  PROVE  <<x[1], at(x[1], x[2])>> \in Places(W, p)
      OBVIOUS
    <3>. HIDE DEF at, S
    <3>. QED
      BY <1>3, PlacesAre
  <2>2. ASSUME NEW x \in S, NEW y \in S, shift[x] = shift[y]
        PROVE  x = y
    <3>1a. PICK o \in Protos : \E i \in 1..Len(V[o]) : x = <<o, i>> /\ x[1] = o /\ x[2] = i
      BY <1>3
    <3>1. PICK i \in 1..Len(V[o]) : x = <<o, i>> /\ x[1] = o /\ x[2] = i
      BY <3>1a
    <3>2a. PICK u \in Protos : \E j \in 1..Len(V[u]) : y = <<u, j>> /\ y[1] = u /\ y[2] = j
      BY <1>3
    <3>2. PICK j \in 1..Len(V[u]) : y = <<u, j>> /\ y[1] = u /\ y[2] = j
      BY <3>2a
    <3>3. <<o, at(o, i)>> = <<u, at(u, j)>>
      BY <2>2, <3>1, <3>2
    <3>. QED
      BY <1>2, <3>1, <3>2, <3>3
  <2>3. ASSUME NEW z \in Places(W, p)
        PROVE  \E x \in S : shift[x] = z
    <3>1a. PICK o \in Protos : \E i \in 1..Len(W[o]) : z = <<o, i>> /\ W[o][i] = p
      BY ONLY <2>3, PlacesAre
    <3>1. PICK i \in 1..Len(W[o]) : z = <<o, i>> /\ W[o][i] = p
      BY <3>1a
    <3>. DEFINE j == IF o = q THEN i + 1 ELSE i
    <3>2. j \in 1..Len(V[o]) /\ V[o][j] = p /\ at(o, j) = i /\ <<o, j>> # <<q, 1>>
      BY <1>1, <1>2, <3>1
    <3>3. <<o, j>> \in S
      <4>. HIDE DEF j, at
      <4>. QED
        BY <3>2, PlacesAre
    <3>4. shift[<<o, j>>] = <<o, at(o, j)>>
      <4>. HIDE DEF j, at, S
      <4>. QED
        BY <3>3
    <3>. QED
      BY <3>1, <3>2, <3>3, <3>4
  <2>. HIDE DEF shift, S
  <2>. QED
    BY <2>1, <2>2, <2>3, Fun_IsBij
<1>5. <<q, 1>> \in Places(V, p) <=> p = Head(V[q])
  <2>1. ASSUME <<q, 1>> \in Places(V, p) PROVE p = Head(V[q])
    BY <1>1, <2>1, PlacesAre
  <2>2. ASSUME p = Head(V[q]) PROVE <<q, 1>> \in Places(V, p)
    BY <1>1, <2>2, PlacesAre
  <2>. QED
    BY <2>1, <2>2
<1>6. /\ IsFiniteSet(S)
      /\ Cardinality(S) = Cardinality(Places(V, p)) - IF p = Head(V[q]) THEN 1 ELSE 0
  <2>1. /\ IsFiniteSet(S)
        /\ Cardinality(S) = IF <<q, 1>> \in Places(V, p)
                            THEN Cardinality(Places(V, p)) - 1
                            ELSE Cardinality(Places(V, p))
    BY ONLY IsFiniteSet(Places(V, p)), FS_RemoveElement
  <2>2. Cardinality(Places(V, p)) \in Nat
    BY ONLY IsFiniteSet(Places(V, p)), FS_CardinalityType
  <2>. HIDE DEF S
  <2>. QED
    BY <1>5, <2>1, <2>2
<1>. HIDE DEF S, shift
<1>7. ExistsBijection(S, Places(W, p))
  BY <1>4, Fun_ExistsBij
<1>. QED
  BY <1>6, <1>7, FS_Bijection

-----------------------------------------------------------------------------
(* Verifications not spent yet.                                            *)

Counted ==
  \A p \in Proxies : IsFiniteSet(Listed(p)) /\ IsFiniteSet(InHand(p))

LEMMA CountInit == Init => Counted /\ Ledger!Init
<1>. SUFFICES ASSUME Init PROVE Counted /\ Ledger!Init
  OBVIOUS
<1>1. ASSUME NEW p \in Proxies PROVE Listed(p) = {} /\ InHand(p) = {}
  <2>1. Valids = [q \in Protos |-> <<>>]
    BY DEF Init
  <2>2. \A x : x \notin Places(Valids, p)
    BY <2>1, PlacesAre
  <2>3. InHand(p) = {}
    BY DEF Init, InHand, Popped, Threads
  <2>. QED
    BY <2>2, <2>3 DEF Listed, Places
<1>2. Counted /\ Credited = [p \in Proxies |-> 0]
  BY <1>1, FS_EmptySet DEF Counted, Credited
<1>3. /\ Earned = [w \in Workers |-> NoProxy]
      /\ Handed = [d \in Dispensers |-> NoProxy]
  BY DEF Init, Earned, Handed, Threads
<1>. QED
  BY <1>2, <1>3 DEF Ledger!Init

LEMMA CountType ==
  ASSUME Counted
  PROVE  Credited \in [Proxies -> Nat]
<1>1. ASSUME NEW p \in Proxies
      PROVE  Cardinality(Listed(p)) \in Nat /\ Cardinality(InHand(p)) \in Nat
  BY FS_CardinalityType DEF Counted
<1>. QED
  BY <1>1 DEF Credited

\* The lists and hands after a step.
LEMMA CountListKept ==
  ASSUME Valids' = Valids, NEW p
  PROVE  Listed(p)' = Listed(p)
  BY DEF Listed

LEMMA CountPush ==
  ASSUME TypeOK, Counted, NEW q \in Protos, NEW r \in Proxies, PushBack(q, r),
         NEW p \in Proxies
  PROVE  /\ IsFiniteSet(Listed(p)')
         /\ Cardinality(Listed(p)') =
              Cardinality(Listed(p)) + IF p = r THEN 1 ELSE 0
<1>1. /\ Valids \in [Protos -> Seq(Proxies)]
      /\ Pushed(Valids, Valids', q, r)
      /\ IsFiniteSet(Places(Valids, p))
  BY DEF TypeOK, PushBack, Pushed, Counted, Listed, Places
<1>2. /\ IsFiniteSet(Places(Valids', p))
      /\ Cardinality(Places(Valids', p)) =
           Cardinality(Places(Valids, p)) + IF p = r THEN 1 ELSE 0
  BY ONLY <1>1, q \in Protos, r \in Proxies, p \in Proxies, PlacesPushed
<1>. QED
  BY <1>2 DEF Listed, Places

LEMMA CountPop ==
  ASSUME TypeOK, Counted, NEW d, NEW q \in Protos, PopFront(d, q),
         NEW p \in Proxies
  PROVE  /\ IsFiniteSet(Listed(p)')
         /\ Cardinality(Listed(p)') =
              Cardinality(Listed(p)) - IF p = Head(Valids[q]) THEN 1 ELSE 0
<1>1. /\ Valids \in [Protos -> Seq(Proxies)] /\ Valids[q] # <<>>
      /\ Shifted(Valids, Valids', q)
      /\ IsFiniteSet(Places(Valids, p))
  BY DEF TypeOK, PopFront, Shifted, Counted, Listed, Places
<1>2. /\ IsFiniteSet(Places(Valids', p))
      /\ Cardinality(Places(Valids', p)) =
           Cardinality(Places(Valids, p)) - IF p = Head(Valids[q]) THEN 1 ELSE 0
  BY ONLY <1>1, q \in Protos, p \in Proxies, PlacesPopped
<1>. QED
  BY <1>2 DEF Listed, Places

\* What the other consumers have in hand stays there.
Others(d) == \A e \in Dispensers \ {d} : pc'[e] = pc[e] /\ sock'[e] = sock[e]

LEMMA HandTakes ==
  ASSUME Counted, NEW d \in Dispensers, Others(d), pc[d] \notin Popped,
         pc'[d] \in Popped, NEW p \in Proxies
  PROVE  /\ IsFiniteSet(InHand(p)')
         /\ Cardinality(InHand(p)') =
              Cardinality(InHand(p)) + IF p = sock'[d] THEN 1 ELSE 0
<1>1. InHand(p)' = IF p = sock'[d] THEN InHand(p) \cup {d} ELSE InHand(p)
  BY DEF InHand, Others
<1>2. d \notin InHand(p) /\ IsFiniteSet(InHand(p))
  BY DEF InHand, Counted
<1>3. /\ IsFiniteSet(InHand(p) \cup {d}) /\ Cardinality(InHand(p)) \in Nat
      /\ Cardinality(InHand(p) \cup {d}) = Cardinality(InHand(p)) + 1
  BY ONLY <1>2, FS_AddElement, FS_CardinalityType
<1>. QED
  BY <1>1, <1>2, <1>3

LEMMA HandGives ==
  ASSUME Counted, NEW d \in Dispensers, Others(d), pc[d] \in Popped,
         pc'[d] \notin Popped, NEW p \in Proxies
  PROVE  /\ IsFiniteSet(InHand(p)')
         /\ Cardinality(InHand(p)') =
              Cardinality(InHand(p)) - IF p = sock[d] THEN 1 ELSE 0
         /\ p = sock[d] => Cardinality(InHand(p)) > 0
<1>1. InHand(p)' = InHand(p) \ {d}
  BY DEF InHand, Others
<1>2. IsFiniteSet(InHand(p)) /\ (d \in InHand(p) <=> p = sock[d])
  BY DEF InHand, Counted
<1>3. /\ IsFiniteSet(InHand(p) \ {d}) /\ Cardinality(InHand(p)) \in Nat
      /\ Cardinality(InHand(p) \ {d}) =
           IF d \in InHand(p) THEN Cardinality(InHand(p)) - 1
                              ELSE Cardinality(InHand(p))
      /\ Cardinality(InHand(p)) = 0 <=> InHand(p) = {}
  BY ONLY <1>2, FS_RemoveElement, FS_CardinalityType, FS_EmptySet
<1>. QED
  BY <1>1, <1>2, <1>3

LEMMA HandKeeps ==
  ASSUME NEW d \in Dispensers, Others(d), pc[d] \in Popped <=> pc'[d] \in Popped,
         pc[d] \in Popped => sock'[d] = sock[d], NEW p
  PROVE  InHand(p)' = InHand(p)
  BY DEF InHand, Others

-----------------------------------------------------------------------------
(* What a step does to the verifications not spent.                        *)

\* Nobody's lists and hands change.
LEMMA CreditFrame ==
  ASSUME Counted, Valids' = Valids, \A p \in Proxies : InHand(p)' = InHand(p)
  PROVE  Counted' /\ Credited' = Credited
  BY CountListKept DEF Counted, Credited

\* tally lists what has been verified.
LEMMA CreditEarned ==
  ASSUME TypeOK, Counted, NEW q \in Protos, NEW r \in Proxies, PushBack(q, r),
         \A p \in Proxies : InHand(p)' = InHand(p)
  PROVE  Counted' /\ Credited' = [Credited EXCEPT ![r] = @ + 1]
<1>1. ASSUME NEW p \in Proxies
      PROVE  /\ IsFiniteSet(Listed(p)') /\ IsFiniteSet(InHand(p)')
             /\ Cardinality(Listed(p)) \in Nat /\ Cardinality(InHand(p)) \in Nat
             /\ Cardinality(Listed(p)') =
                  Cardinality(Listed(p)) + IF p = r THEN 1 ELSE 0
             /\ Cardinality(InHand(p)') = Cardinality(InHand(p))
  BY CountPush, FS_CardinalityType DEF Counted
<1>2. Counted'
  BY <1>1 DEF Counted
<1>. DEFINE more == [Credited EXCEPT ![r] = @ + 1]
<1>3. ASSUME NEW p \in Proxies
      PROVE  Cardinality(Listed(p)') + Cardinality(InHand(p)') = more[p]
  BY <1>1 DEF Credited
<1>4. more = [p \in Proxies |-> more[p]]
  BY DEF Credited
<1>5. Credited' = [p \in Proxies |->
                    Cardinality(Listed(p)') + Cardinality(InHand(p)')]
  BY DEF Credited
<1>. HIDE DEF more
<1>6. Credited' = more
  BY <1>3, <1>4, <1>5
<1>. QED
  BY <1>2, <1>6 DEF more

\* A pop moves a copy from a list to a hand.
LEMMA CreditPopped ==
  ASSUME TypeOK, Counted, NEW d \in Dispensers, NEW q \in Protos, PopFront(d, q),
         Others(d), pc[d] \notin Popped
  PROVE  Counted' /\ Credited' = Credited
<1>1. pc'[d] \in Popped /\ sock'[d] = Head(Valids[q])
  BY DEF TypeOK, PopFront, Goto, Popped, Threads
<1>2. ASSUME NEW p \in Proxies
      PROVE  /\ IsFiniteSet(Listed(p)') /\ IsFiniteSet(InHand(p)')
             /\ Cardinality(Listed(p)) \in Nat /\ Cardinality(InHand(p)) \in Nat
             /\ Cardinality(Listed(p)') =
                  Cardinality(Listed(p)) - IF p = sock'[d] THEN 1 ELSE 0
             /\ Cardinality(InHand(p)') =
                  Cardinality(InHand(p)) + IF p = sock'[d] THEN 1 ELSE 0
  BY <1>1, CountPop, HandTakes, FS_CardinalityType DEF Counted
<1>. QED
  BY <1>2 DEF Counted, Credited

\* A dialer that could not lock its proxy moves it back.
LEMMA CreditPutBack ==
  ASSUME TypeOK, Counted, NEW d \in Dispensers, NEW q \in Protos,
         sock[d] \in Proxies, PushBack(q, sock[d]), Others(d),
         pc[d] \in Popped, pc'[d] \notin Popped
  PROVE  Counted' /\ Credited' = Credited
<1>1. ASSUME NEW p \in Proxies
      PROVE  /\ IsFiniteSet(Listed(p)') /\ IsFiniteSet(InHand(p)')
             /\ Cardinality(Listed(p)) \in Nat /\ Cardinality(InHand(p)) \in Nat
             /\ Cardinality(Listed(p)') =
                  Cardinality(Listed(p)) + IF p = sock[d] THEN 1 ELSE 0
             /\ Cardinality(InHand(p)') =
                  Cardinality(InHand(p)) - IF p = sock[d] THEN 1 ELSE 0
  BY CountPush, HandGives, FS_CardinalityType DEF Counted
<1>. QED
  BY <1>1 DEF Counted, Credited

\* A proxy that leaves a hand is spent.
LEMMA CreditSpent ==
  ASSUME TypeOK, Counted, NEW d \in Dispensers, sock[d] \in Proxies,
         Valids' = Valids, Others(d), pc[d] \in Popped, pc'[d] \notin Popped
  PROVE  Counted' /\ Ledger!Spend(sock[d])
<1>1. ASSUME NEW p \in Proxies
      PROVE  /\ IsFiniteSet(Listed(p)') /\ IsFiniteSet(InHand(p)')
             /\ Cardinality(Listed(p)) \in Nat /\ Cardinality(InHand(p)) \in Nat
             /\ Cardinality(Listed(p)') = Cardinality(Listed(p))
             /\ Cardinality(InHand(p)') =
                  Cardinality(InHand(p)) - IF p = sock[d] THEN 1 ELSE 0
             /\ p = sock[d] => Cardinality(InHand(p)) > 0
  BY CountListKept, HandGives, FS_CardinalityType DEF Counted
<1>2. Credited[sock[d]] > 0
  BY <1>1 DEF Credited
<1>. QED
  BY <1>1, <1>2 DEF Counted, Credited, Ledger!Spend

-----------------------------------------------------------------------------
(* Every step of the pool is a step of the ledger or leaves it alone.      *)

LedgerStep == Counted' /\ (Ledger!Next \/ UNCHANGED Ledger!vars)

\* What has been verified and handed out, when no thread gets there or leaves.
LEMMA EarnedKept ==
  ASSUME \A w \in Workers : (pc[w] = "tally" <=> pc'[w] = "tally") /\
                            (pc[w] = "tally" => sock'[w] = sock[w])
  PROVE  Earned' = Earned
  BY DEF Earned

LEMMA HandedKept ==
  ASSUME \A d \in Dispensers : (pc[d] = "returned" <=> pc'[d] = "returned") /\
                               (pc[d] = "returned" => sock'[d] = sock[d])
  PROVE  Handed' = Handed
  BY DEF Handed

LEMMA LedgerStutters ==
  ASSUME Counted', Credited' = Credited, Earned' = Earned, Handed' = Handed
  PROVE  LedgerStep
  BY DEF LedgerStep, Ledger!vars

LEMMA LedgerWorker ==
  ASSUME IInv, Counted, NEW w \in Workers, validate(w) \/ singleProxyCheck(w)
  PROVE  LedgerStep
<1>1. /\ w \in Threads /\ w \notin Dispensers /\ Dispensers \subseteq Threads
      /\ Workers \subseteq Threads
      /\ pc \in [Threads -> WorkerPC \cup DispenserPC]
      /\ sock \in [Threads -> Proxies \cup {NoProxy}]
      /\ pc[w] \in Inside \cup Popped => sock[w] \in Proxies
  BY PoolAssumption DEF IInv, TypeOK, Threads, PoolAssumption
<1>. USE DEF Goto, sharedVars, proxyVars, facts
<1>2. \A t \in Threads \ {w} : pc'[t] = pc[t] /\ sock'[t] = sock[t]
  <2>1. CASE validate(w)
    BY <1>1, <2>1 DEF validate, ValidateBusy, ValidateLock, ValidateCtx,
       ValidateRefused, ValidateAdmitted, ProbeNext, VerdictBad, MarkBad,
       VerdictGood, Tally, ValidateDone, LeaveValidate
  <2>2. CASE singleProxyCheck(w)
    BY <1>1, <2>2 DEF singleProxyCheck, ProbePasses, ProbeFails, RecheckPasses,
       RecheckFails, MarkBad, LeaveValidate
  <2>. QED
    BY <2>1, <2>2
<1>3. \A p \in Proxies : InHand(p)' = InHand(p)
  BY <1>1, <1>2 DEF InHand
<1>4. Handed' = Handed
  BY <1>1, <1>2, HandedKept
<1>5. CASE VerdictGood(w)
  <2>1. sock[w] \in Proxies /\ pc[w] = "verdict" /\ pc'[w] = "tally"
        /\ sock' = sock /\ Valids' = Valids
    BY <1>1, <1>5 DEF VerdictGood, Inside
  <2>2. Counted' /\ Credited' = Credited
    BY <1>3, <2>1, CreditFrame
  <2>3. Earned[w] = NoProxy /\ Earned' = [Earned EXCEPT ![w] = sock[w]]
    BY <1>1, <1>2, <2>1 DEF Earned
  <2>4. Ledger!Verify(w, sock[w])
    BY <1>4, <2>2, <2>3 DEF Ledger!Verify
  <2>. QED
    BY <2>1, <2>2, <2>4 DEF LedgerStep, Ledger!Next
<1>6. CASE Tally(w)
  <2>1. /\ sock[w] \in Proxies /\ pc[w] = "tally" /\ pc'[w] # "tally"
        /\ protocol[sock[w]] \in Protos
        /\ PushBack(protocol[sock[w]], sock[w])
    BY <1>1, <1>6 DEF Tally, Inside, IInv, CarriedVerified, Verified, TypeOK
  <2>2. Counted' /\ Credited' = [Credited EXCEPT ![sock[w]] = @ + 1]
    BY <1>3, <2>1, CreditEarned DEF IInv
  <2>3. Earned[w] = sock[w] /\ Earned' = [Earned EXCEPT ![w] = NoProxy]
    BY <1>1, <1>2, <2>1 DEF Earned
  <2>4. Ledger!Credit(w, sock[w])
    BY <1>4, <2>2, <2>3 DEF Ledger!Credit
  <2>. QED
    BY <2>1, <2>2, <2>4 DEF LedgerStep, Ledger!Next
<1>7. CASE ~VerdictGood(w) /\ ~Tally(w)
  <2>1. Valids' = Valids /\ pc[w] # "tally" /\ pc'[w] # "tally"
    <3>1. CASE validate(w)
      BY <1>1, <1>7, <3>1 DEF validate, ValidateBusy, ValidateLock, ValidateCtx,
         ValidateRefused, ValidateAdmitted, ProbeNext, VerdictBad, MarkBad,
         ValidateDone, LeaveValidate
    <3>2. CASE singleProxyCheck(w)
      BY <1>1, <3>2 DEF singleProxyCheck, ProbePasses, ProbeFails,
         RecheckPasses, RecheckFails, MarkBad, LeaveValidate
    <3>. QED
      BY <3>1, <3>2
  <2>2. Earned' = Earned
    BY <1>1, <1>2, <2>1, EarnedKept
  <2>. QED
    BY <1>3, <1>4, <2>1, <2>2, CreditFrame, LedgerStutters
<1>. QED
  BY <1>5, <1>6, <1>7

LEMMA LedgerConsumer ==
  ASSUME IInv, Counted, NEW d \in Dispensers,
         dispense(d) \/ CallAny(d) \/ (\E q \in Protos : CallStr(d, q))
  PROVE  LedgerStep
<1>1. /\ d \in Threads /\ d \notin Workers /\ Dispensers \subseteq Threads
      /\ Workers \subseteq Threads /\ TypeOK
      /\ pc \in [Threads -> WorkerPC \cup DispenserPC]
      /\ sock \in [Threads -> Proxies \cup {NoProxy}]
      /\ pc[d] \in Popped \cup {"returned"} =>
           sock[d] \in Proxies /\ protocol[sock[d]] \in Protos
  BY PoolAssumption
  DEF IInv, TypeOK, CarriedVerified, Verified, Threads, PoolAssumption
<1>2. \A t \in Threads \ {d} : pc'[t] = pc[t] /\ sock'[t] = sock[t]
  BY <1>1, ConsumerFrame
<1>3. Others(d)
  BY <1>1, <1>2 DEF Others
<1>4. Earned' = Earned
  BY <1>1, <1>2, EarnedKept
<1>. USE DEF Goto, Drop, Unlock, Again, sharedVars, proxyVars, facts, consumerRest
\* What is left to show of a step of d, by what it does with its proxy.
<1>5. ASSUME pc[d] # "returned", pc'[d] # "returned", Counted', Credited' = Credited
      PROVE  LedgerStep
  <2>1. Handed' = Handed
    BY <1>1, <1>2, <1>5, HandedKept
  <2>. QED
    BY <1>4, <1>5, <2>1, LedgerStutters
<1>6. ASSUME pc[d] # "returned", pc'[d] # "returned", Valids' = Valids,
             pc[d] \in Popped <=> pc'[d] \in Popped,
             pc[d] \in Popped => sock'[d] = sock[d]
      PROVE  LedgerStep
  <2>1. \A p \in Proxies : InHand(p)' = InHand(p)
    BY <1>3, <1>6, HandKeeps
  <2>. QED
    BY <1>5, <1>6, <2>1, CreditFrame
<1>7. ASSUME pc[d] \in Popped, pc'[d] \notin Popped \cup {"returned"},
             Valids' = Valids
      PROVE  LedgerStep
  <2>1. pc[d] # "returned" /\ sock[d] \in Proxies
    BY <1>1, <1>7 DEF Popped
  <2>2. Counted' /\ Ledger!Spend(sock[d])
    BY <1>1, <1>3, <1>7, <2>1, CreditSpent
  <2>3. Handed' = Handed
    BY <1>1, <1>2, <1>7, <2>1, HandedKept
  <2>4. Ledger!Drop(sock[d])
    BY <1>4, <2>2, <2>3 DEF Ledger!Drop
  <2>. QED
    BY <2>1, <2>2, <2>4 DEF LedgerStep, Ledger!Next
<1>8. ASSUME pc[d] \in Popped, pc'[d] = "returned", sock'[d] = sock[d],
             Valids' = Valids
      PROVE  LedgerStep
  <2>1. pc[d] # "returned" /\ sock[d] \in Proxies /\ pc'[d] \notin Popped
    BY <1>1, <1>8 DEF Popped
  <2>2. Counted' /\ Ledger!Spend(sock[d])
    BY <1>1, <1>3, <1>8, <2>1, CreditSpent
  <2>3. Handed[d] = NoProxy /\ Handed' = [Handed EXCEPT ![d] = sock[d]]
    BY <1>1, <1>2, <1>8, <2>1 DEF Handed
  <2>4. Ledger!HandOut(d, sock[d])
    BY <1>4, <2>2, <2>3 DEF Ledger!HandOut
  <2>. QED
    BY <2>1, <2>2, <2>4 DEF LedgerStep, Ledger!Next
<1>9. ASSUME NEW q \in Protos, PopFront(d, q), pc[d] \in {"take", "visit"}
      PROVE  LedgerStep
  <2>1. pc[d] \notin Popped \cup {"returned"} /\ pc'[d] # "returned"
    BY <1>1, <1>9 DEF PopFront, Popped
  <2>. QED
    BY <1>1, <1>3, <1>5, <1>9, <2>1, CreditPopped
<1>10. ASSUME NEW q \in Protos, CallStr(d, q) \/ StrLen(d, q)
       PROVE  LedgerStep
  BY <1>1, <1>6, <1>10 DEF CallStr, StrLen, Popped
<1>11. ASSUME NEW q \in Protos, StrTake(d, q)
       PROVE  LedgerStep
  BY <1>1, <1>6, <1>9, <1>11 DEF StrTake, Popped
<1>12. ASSUME NEW q \in Protos, Visit(d, q)
       PROVE  LedgerStep
  BY <1>1, <1>6, <1>9, <1>12 DEF Visit, Popped
<1>13. CASE CallAny(d) \/ DialLoop(d) \/ PopSock(d) \/ NextRound(d)
  BY <1>1, <1>6, <1>13 DEF CallAny, DialLoop, PopSock, NextRound, Popped
<1>14. CASE StillGoodBusy(d) \/ StillGoodRemoves(d) \/ StillGoodRefuses(d)
            \/ LockItCtxDone(d) \/ MiddlewareRejects(d)
  BY <1>1, <1>7, <1>14 DEF StillGoodBusy, StillGoodRemoves, StillGoodRefuses,
     LockItCtxDone, MiddlewareRejects, Popped
<1>15. CASE StillGoodLock(d) \/ LockIt(d) \/ MiddlewareApproves(d)
  BY <1>1, <1>6, <1>15 DEF StillGoodLock, LockIt, MiddlewareApproves, Popped
<1>16. CASE StillGoodAccepts(d)
  <2>1. /\ Valids' = Valids /\ sock' = sock /\ pc[d] = "judge"
        /\ pc'[d] = IF KindOf[d] = "dial" THEN "lockIt" ELSE "returned"
    BY <1>1, <1>16 DEF StillGoodAccepts
  <2>. QED
    BY <1>6, <1>8, <2>1 DEF Popped
<1>17. CASE Connect(d)
  <2>1. CASE Goto(d, "returned") /\ UNCHANGED sock
    BY <1>1, <1>8, <1>17, <2>1 DEF Connect, Popped
  <2>2. CASE Drop(d, "dial")
    BY <1>1, <1>7, <1>17, <2>2 DEF Connect, Popped
  <2>. QED
    BY <1>17, <2>1, <2>2 DEF Connect
<1>18. CASE PutBack(d)
  <2>1. /\ pc[d] = "lockIt" /\ pc'[d] = "empty"
        /\ PushBack(protocol[sock[d]], sock[d])
        /\ sock[d] \in Proxies /\ protocol[sock[d]] \in Protos
    BY <1>1, <1>18 DEF PutBack, Popped
  <2>2. pc[d] \in Popped /\ pc'[d] \notin Popped
    BY <2>1 DEF Popped
  <2>3. Counted' /\ Credited' = Credited
    BY ONLY <1>1, <1>3, <2>1, <2>2, Counted, d \in Dispensers, CreditPutBack
  <2>. QED
    BY <1>5, <2>1, <2>3
<1>19. CASE Return(d)
  <2>1. /\ pc[d] = "returned" /\ pc'[d] = "idle" /\ Valids' = Valids
        /\ sock[d] \in Proxies
    BY <1>1, <1>19 DEF Return
  <2>2. \A p \in Proxies : InHand(p)' = InHand(p)
    BY <1>3, <2>1, HandKeeps DEF Popped
  <2>3. Counted' /\ Credited' = Credited
    BY <2>1, <2>2, CreditFrame
  <2>4. Handed[d] # NoProxy /\ Handed' = [Handed EXCEPT ![d] = NoProxy]
    BY <1>1, <1>2, <2>1, PoolAssumption DEF Handed, PoolAssumption
  <2>5. Ledger!Finish(d)
    BY <1>4, <2>3, <2>4 DEF Ledger!Finish
  <2>. QED
    BY <2>3, <2>5 DEF LedgerStep, Ledger!Next
<1>. QED
  BY <1>10, <1>11, <1>12, <1>13, <1>14, <1>15, <1>16, <1>17, <1>18, <1>19
  DEF dispense, stillGood

LEMMA LedgerNext == IInv /\ Counted /\ [Next]_vars => LedgerStep
<1>. SUFFICES ASSUME IInv, Counted, [Next]_vars PROVE LedgerStep
  OBVIOUS
<1>. USE DEF sharedVars, proxyVars, facts, threadVars
<1>1. ASSUME Valids' = Valids,
             \A d \in Dispensers : pc'[d] = pc[d] /\ sock'[d] = sock[d],
             \A w \in Workers : (pc[w] = "tally" <=> pc'[w] = "tally") /\
                                (pc[w] = "tally" => sock'[w] = sock[w])
      PROVE  LedgerStep
  <2>1. \A p \in Proxies : InHand(p)' = InHand(p)
    BY <1>1 DEF InHand
  <2>. QED
    BY <1>1, <2>1, CreditFrame, EarnedKept, HandedKept, LedgerStutters
<1>2. ASSUME NEW w \in Workers, NEW p \in Proxies, Submit(w, p)
      PROVE  LedgerStep
  <2>1. w \notin Dispensers /\ pc \in [Threads -> WorkerPC \cup DispenserPC]
        /\ sock \in [Threads -> Proxies \cup {NoProxy}]
    BY PoolAssumption DEF PoolAssumption, IInv, TypeOK
  <2>. QED
    BY <1>1, <1>2, <2>1 DEF Submit, Goto, Threads
<1>3. CASE Close
  BY <1>1, <1>3 DEF Close
<1>4. ASSUME NEW p \in Proxies, BadExpires(Endpoint[p]) \/ GoesStale(p)
      PROVE  LedgerStep
  BY <1>1, <1>4 DEF BadExpires, GoesStale
<1>5. CASE UNCHANGED vars
  BY <1>1, <1>5 DEF vars
<1>. QED
  BY <1>2, <1>3, <1>4, <1>5, LedgerWorker, LedgerConsumer DEF Next

(***************************************************************************)
(* The pool implements the ledger: a caller is given a proxy only against  *)
(* a verification some worker made and tally listed, and no verification   *)
(* is ever spent twice, whatever pops, put-backs and drops come between.   *)
(***************************************************************************)
THEOREM LedgerImplemented == Spec => ImplementsLedger
<1>1. Init => Counted /\ Ledger!Init
  BY CountInit
<1>2. IInv /\ Counted /\ [Next]_vars => Counted' /\ [Ledger!Next]_(Ledger!vars)
  BY LedgerNext DEF LedgerStep
<1>. QED
  BY <1>1, <1>2, IInvInvariant, PTL DEF Spec, ImplementsLedger, Ledger!Spec
=============================================================================

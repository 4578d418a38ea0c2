------------------------- MODULE MysteryDialer_proofs -------------------------
(***************************************************************************)
(* Proofs about MysteryDialer, for any number of calls, any bailout and    *)
(* any number of overlapping CloseAllConns.                                *)
(***************************************************************************)
EXTENDS MysteryDialer, TLAPS

\* The invariants, strengthened to be inductive.  Past the look at the bailout
\* a call has not used it up; a call that has dialled on a closed engine gets
\* no further than that look.
TriesInv ==
  \A d \in Dials :
    /\ count[d] <= Tries
    /\ pc[d] = "idle" => count[d] = 0
    /\ pc[d] = "gaveUp" => count[d] > Bailout
    /\ pc[d] \notin {"idle", "check", "gaveUp"} => count[d] <= Bailout

LateInv ==
  \A d \in Dials :
    /\ late[d] <= 1
    /\ pc[d] \in {"idle", "round", "visit", "sock"} => late[d] = 0
    /\ late[d] # 0 => closed

-----------------------------------------------------------------------------
(* Types.                                                                  *)

LEMMA TypeInit == Init => TypeOK
<1>. SUFFICES ASSUME Init PROVE TypeOK
  OBVIOUS
<1>1. /\ kind \in [Dials -> {"Dial", "DialContext", "DialTimeout"}]
      /\ pc = [d \in Dials |-> "idle"] /\ conn = [d \in Dials |-> "none"]
      /\ count = [d \in Dials |-> 0] /\ late = [d \in Dials |-> 0]
      /\ conKiller = 0 /\ kpc = [k \in Killers |-> "idle"]
  BY DEF Init
<1>2. ctxDone \in [Dials -> BOOLEAN] /\ closed \in BOOLEAN /\ stocked \in BOOLEAN
  BY Zenon DEF Init
<1>. QED
  BY <1>1, <1>2 DEF TypeOK, Returned

LEMMA TypeStep == TypeOK /\ [Next]_vars => TypeOK'
<1>. SUFFICES ASSUME TypeOK, [Next]_vars PROVE TypeOK'
  OBVIOUS
<1>. USE DEF TypeOK, Goto, Returned, callVars, engineVars, killVars
<1>1. ASSUME NEW d \in Dials, Call(d) PROVE TypeOK'
  BY <1>1 DEF Call
<1>2. ASSUME NEW d \in Dials, Check(d) PROVE TypeOK'
  <2>1. conKiller' \in 0..1
    BY <1>2 DEF Check, Take
  <2>. QED
    BY <1>2, <2>1 DEF Check
<1>3. ASSUME NEW d \in Dials, Round(d) PROVE TypeOK'
  BY <1>3 DEF Round
<1>4. ASSUME NEW d \in Dials, Visit(d) PROVE TypeOK'
  BY <1>4 DEF Visit
<1>5. ASSUME NEW d \in Dials, Sock(d) PROVE TypeOK'
  BY <1>5 DEF Sock
<1>6. ASSUME NEW d \in Dials, ConnectFails(d) PROVE TypeOK'
  BY <1>6 DEF ConnectFails
<1>7. ASSUME NEW d \in Dials, Connect(d) PROVE TypeOK'
  BY <1>7 DEF Connect
<1>8. ASSUME NEW d \in Dials, Return(d) PROVE TypeOK'
  BY <1>8 DEF Return
<1>9. ASSUME NEW d \in Dials, Watch(d) PROVE TypeOK'
  <2>1. conKiller' \in 0..1
    BY <1>9 DEF Watch, Take
  <2>. QED
    BY <1>9, <2>1 DEF Watch
<1>10. ASSUME NEW d \in Dials, CtxEnds(d) PROVE TypeOK'
  BY <1>10 DEF CtxEnds
<1>11. ASSUME NEW k \in Killers, CloseAllConns(k) PROVE TypeOK'
  BY <1>11 DEF CloseAllConns
<1>12. ASSUME NEW k \in Killers, KillOne(k) PROVE TypeOK'
  BY <1>12 DEF KillOne
<1>13. ASSUME NEW k \in Killers, KillEnough(k) PROVE TypeOK'
  BY <1>13 DEF KillEnough
<1>14. ASSUME NEW k \in Killers, KillLast(k) PROVE TypeOK'
  BY <1>14 DEF KillLast
<1>15. CASE Close
  BY <1>15 DEF Close
<1>16. ASSUME NEW b \in BOOLEAN, Stock(b) PROVE TypeOK'
  BY <1>16 DEF Stock
<1>17. CASE UNCHANGED vars
  BY <1>17 DEF vars
<1>. QED
  BY <1>1, <1>2, <1>3, <1>4, <1>5, <1>6, <1>7, <1>8, <1>9, <1>10, <1>11,
     <1>12, <1>13, <1>14, <1>15, <1>16, <1>17 DEF Next, mysteryDialer

\* Every variable keeps its type; a call has a connection exactly when it is
\* about to return one or has.
THEOREM TypeCorrect == Spec => []TypeOK
BY TypeInit, TypeStep, PTL DEF Spec

-----------------------------------------------------------------------------
(* Redials.                                                                *)

LEMMA TriesInit == Init => TriesInv
<1>. SUFFICES ASSUME Init, NEW d \in Dials
              PROVE  pc[d] = "idle" /\ count[d] = 0 /\ count[d] <= Tries
  BY DEF TriesInv
<1>1. pc[d] = "idle" /\ count[d] = 0
  BY DEF Init
<1>. QED
  BY <1>1, DialerAssumption DEF DialerAssumption, Tries

LEMMA TriesStep == TypeOK /\ TriesInv /\ [Next]_vars => TriesInv'
<1>. SUFFICES ASSUME TypeOK, TriesInv, [Next]_vars PROVE TriesInv'
  OBVIOUS
<1>. USE DialerAssumption
     DEF DialerAssumption, TypeOK, TriesInv, Tries, Goto, Returned, callVars
<1>1. ASSUME NEW d \in Dials, Call(d) \/ Connect(d) \/ Return(d) PROVE TriesInv'
  BY <1>1 DEF Call, Connect, Return
<1>2. ASSUME NEW d \in Dials, Check(d) PROVE TriesInv'
  BY <1>2 DEF Check, Bailed
<1>3. ASSUME NEW d \in Dials, Round(d) \/ Visit(d) PROVE TriesInv'
  BY <1>3 DEF Round, Visit
<1>4. ASSUME NEW d \in Dials, Sock(d) PROVE TriesInv'
  BY <1>4 DEF Sock
<1>5. ASSUME NEW d \in Dials, ConnectFails(d) PROVE TriesInv'
  BY <1>5 DEF ConnectFails
<1>6. ASSUME NEW d \in Dials, Watch(d) \/ CtxEnds(d) PROVE TriesInv'
  BY <1>6 DEF Watch, CtxEnds
<1>7. ASSUME NEW k \in Killers,
             CloseAllConns(k) \/ KillOne(k) \/ KillEnough(k) \/ KillLast(k)
      PROVE  TriesInv'
  BY <1>7 DEF CloseAllConns, KillOne, KillEnough, KillLast
<1>8. CASE Close \/ UNCHANGED vars \/ \E b \in BOOLEAN : Stock(b)
  BY <1>8 DEF Close, Stock, vars
<1>. QED
  BY <1>1, <1>2, <1>3, <1>4, <1>5, <1>6, <1>7, <1>8 DEF Next, mysteryDialer

\* A call gives up exactly when its first try and Bailout redials have failed,
\* whatever the proxies do and however Close and the contexts cut in.
THEOREM GivesUpWhenSpent == Spec => []GivesUpSpent
<1>1. TypeOK /\ TriesInv => GivesUpSpent
  <2>. SUFFICES ASSUME TypeOK, TriesInv, NEW d \in Dials, pc[d] \notin {"idle", "check"}
                PROVE  pc[d] = "gaveUp" <=> count[d] = Tries
    BY DEF GivesUpSpent, TriesInv
  <2>1. count[d] \in Nat /\ Bailout \in Int
    BY DialerAssumption DEF TypeOK, DialerAssumption
  <2>. QED
    BY <2>1 DEF TriesInv, Tries
<1>. QED
  BY <1>1, TypeInit, TypeStep, TriesInit, TriesStep, PTL DEF Spec

-----------------------------------------------------------------------------
(* After Close.                                                            *)

LEMMA LateInit == Init => LateInv
<1>. SUFFICES ASSUME Init, NEW d \in Dials
              PROVE  late[d] <= 1 /\ late[d] = 0
  BY DEF LateInv
<1>1. late[d] = 0
  BY DEF Init
<1>. QED
  BY <1>1

LEMMA LateStep == TypeOK /\ LateInv /\ [Next]_vars => LateInv'
<1>. SUFFICES ASSUME TypeOK, LateInv, [Next]_vars PROVE LateInv'
  OBVIOUS
<1>. USE DEF TypeOK, LateInv, Goto, Returned, callVars, engineVars
<1>1. ASSUME NEW d \in Dials, Call(d) \/ Connect(d) \/ ConnectFails(d) \/ Return(d)
      PROVE  LateInv'
  BY <1>1 DEF Call, Connect, ConnectFails, Return
<1>2. ASSUME NEW d \in Dials, Check(d) PROVE LateInv'
  BY <1>2 DEF Check
<1>3. ASSUME NEW d \in Dials, Round(d) \/ Visit(d) PROVE LateInv'
  BY <1>3 DEF Round, Visit
<1>4. ASSUME NEW d \in Dials, Sock(d) PROVE LateInv'
  BY <1>4 DEF Sock
<1>5. ASSUME NEW d \in Dials, Watch(d) \/ CtxEnds(d) PROVE LateInv'
  BY <1>5 DEF Watch, CtxEnds
<1>6. ASSUME NEW k \in Killers,
             CloseAllConns(k) \/ KillOne(k) \/ KillEnough(k) \/ KillLast(k)
      PROVE  LateInv'
  BY <1>6 DEF CloseAllConns, KillOne, KillEnough, KillLast
<1>7. CASE Close \/ UNCHANGED vars \/ \E b \in BOOLEAN : Stock(b)
  BY <1>7 DEF Close, Stock, vars
<1>. QED
  BY <1>1, <1>2, <1>3, <1>4, <1>5, <1>6, <1>7 DEF Next, mysteryDialer

\* A call that is under way when the engine is closed dials once more at most.
THEOREM OneDialAfterClose == Spec => []OneLateDial
<1>1. LateInv => OneLateDial
  BY DEF LateInv, OneLateDial
<1>. QED
  BY <1>1, TypeInit, TypeStep, LateInit, LateStep, PTL DEF Spec

-----------------------------------------------------------------------------
(* The outcomes of the calls.                                              *)

OutcomeStep == [Outcomes!Next]_(Outcomes!vars)

LEMMA OutcomeInit == Init => Outcomes!Init
<1>. SUFFICES ASSUME Init PROVE Outcomes!Init
  OBVIOUS
<1>1. Outcome = [d \in Dials |-> "none"]
  BY DEF Init, Outcome
<1>2. ~Killing /\ conKiller = 0
  BY DEF Init, Killing
<1>3. ctxDone = [d \in Dials |-> FALSE] /\ closed = FALSE
  BY Zenon DEF Init
<1>. QED
  BY <1>1, <1>2, <1>3 DEF Outcomes!Init, Spare

\* The outcome of a call is its own.
LEMMA OutcomeChanges ==
  ASSUME TypeOK, NEW d \in Dials, NEW o,
         \A e \in Dials \ {d} : pc'[e] = pc[e] /\ conn'[e] = conn[e],
         o = IF conn'[d] # "none" THEN conn'[d]
             ELSE IF pc'[d] \in {"err", "gaveUp"} THEN "err"
             ELSE IF pc'[d] = "killed" THEN "killed" ELSE "none"
  PROVE  Outcome' = [Outcome EXCEPT ![d] = o]
  BY DEF Outcome

LEMMA OutcomeKept ==
  ASSUME NEW d \in Dials,
         \A e \in Dials \ {d} : pc'[e] = pc[e],
         conn' = conn,
         pc[d] \notin {"err", "gaveUp", "killed"},
         pc'[d] \notin {"err", "gaveUp", "killed"}
  PROVE  Outcome' = Outcome
  BY DEF Outcome

\* A token is a kill, and a spare one if nobody is killing.
LEMMA TakeKills ==
  ASSUME TypeOK, Take, kpc' = kpc
  PROVE  Killing' = Killing /\ Outcomes!Kill
<1>1. Killing' = Killing
  BY DEF Killing
<1>2. conKiller = 1 /\ conKiller' = 0
  BY DEF Take, TypeOK
<1>. QED
  BY <1>1, <1>2 DEF Outcomes!Kill, Spare

LEMMA CallOutcome ==
  ASSUME TypeOK, NEW d \in Dials, mysteryDialer(d) \/ Call(d) \/ Watch(d)
  PROVE  OutcomeStep
<1>. DEFINE own == {e \in Dials : kind[e] # "Dial"}
            spare == Spare
<1>1. /\ pc \in [Dials -> {"idle", "check", "round", "visit", "sock", "connect",
                           "return", "ok", "err", "gaveUp", "killed"}]
      /\ conn \in [Dials -> {"none", "open", "closed"}]
      /\ conn[d] # "none" <=> pc[d] \in {"return", "ok"}
  BY DEF TypeOK, Returned
<1>2. kind' = kind /\ closed' = closed /\ kpc' = kpc
  BY DEF mysteryDialer, Call, Check, Round, Visit, Sock, ConnectFails, Connect,
     Return, Watch, callVars, engineVars, killVars
<1>3. own' = own /\ Killing' = Killing
  BY <1>2 DEF Killing
<1>4. conKiller' = conKiller => spare' = spare
  BY <1>3 DEF Spare
<1>. HIDE DEF own, spare
<1>. USE DEF Goto, callVars, engineVars, killVars
\* What is left to show of a step that leaves the outcomes alone.
<1>5. ASSUME Outcome' = Outcome, ctxDone' = ctxDone, conKiller' = conKiller
      PROVE  OutcomeStep
  BY <1>2, <1>3, <1>4, <1>5 DEF OutcomeStep, Outcomes!vars, own, spare
<1>6. ASSUME Outcome[d] = "none", ctxDone' = ctxDone,
             \/ /\ Outcome' = [Outcome EXCEPT ![d] = "open"]
                /\ conKiller' = conKiller
             \/ /\ Outcome' = [Outcome EXCEPT ![d] = "err"]
                /\ conKiller' = conKiller
             \/ /\ Outcome' = [Outcome EXCEPT ![d] = "killed"]
                /\ Take
      PROVE  OutcomeStep
  <2>1. Outcomes!Finish(d)
    BY <1>2, <1>3, <1>4, <1>6, TakeKills
    DEF Outcomes!Finish, Outcomes!Becomes, own, spare
  <2>. QED
    BY <2>1 DEF OutcomeStep, Outcomes!Next
<1>7. CASE Call(d) \/ Sock(d) \/ ConnectFails(d)
  <2>1. Outcome' = Outcome
    BY <1>1, <1>7, OutcomeKept DEF Call, Sock, ConnectFails
  <2>. QED
    BY <1>5, <1>7, <2>1 DEF Call, Sock, ConnectFails
<1>8. CASE Check(d)
  <2>1. /\ pc[d] = "check" /\ conn' = conn /\ ctxDone' = ctxDone
        /\ \A e \in Dials \ {d} : pc'[e] = pc[e]
        /\ \/ pc'[d] \in {"err", "gaveUp"} /\ conKiller' = conKiller
           \/ pc'[d] = "killed" /\ Take
           \/ pc'[d] = "round" /\ conKiller' = conKiller
    BY <1>1, <1>8 DEF Check
  <2>2. conn[d] = "none" /\ Outcome[d] = "none"
    BY <1>1, <2>1 DEF Outcome
  <2>3. CASE pc'[d] \in {"err", "gaveUp"}
    <3>1. Outcome' = [Outcome EXCEPT ![d] = "err"]
      BY <2>1, <2>2, <2>3, OutcomeChanges
    <3>. QED
      BY <1>6, <2>1, <2>2, <2>3, <3>1
  <2>4. CASE pc'[d] = "killed"
    <3>1. Outcome' = [Outcome EXCEPT ![d] = "killed"]
      BY <2>1, <2>2, <2>4, OutcomeChanges
    <3>. QED
      BY <1>6, <2>1, <2>2, <2>4, <3>1
  <2>5. CASE pc'[d] = "round"
    <3>1. Outcome' = Outcome
      BY <2>1, <2>5, OutcomeKept
    <3>. QED
      BY <1>5, <2>1, <2>5, <3>1
  <2>. QED
    BY <2>1, <2>3, <2>4, <2>5
<1>9. CASE Round(d) \/ Visit(d)
  <2>1. /\ pc[d] \in {"round", "visit"} /\ conn' = conn /\ ctxDone' = ctxDone
        /\ \A e \in Dials \ {d} : pc'[e] = pc[e]
        /\ pc'[d] \in {"round", "visit", "sock", "err"} /\ conKiller' = conKiller
    BY <1>1, <1>9 DEF Round, Visit
  <2>2. conn[d] = "none" /\ Outcome[d] = "none"
    BY <1>1, <2>1 DEF Outcome
  <2>3. CASE pc'[d] = "err"
    <3>1. Outcome' = [Outcome EXCEPT ![d] = "err"]
      BY <2>1, <2>2, <2>3, OutcomeChanges
    <3>. QED
      BY <1>6, <2>1, <2>2, <3>1
  <2>4. CASE pc'[d] # "err"
    <3>1. Outcome' = Outcome
      BY <2>1, <2>4, OutcomeKept
    <3>. QED
      BY <1>5, <2>1, <3>1
  <2>. QED
    BY <2>3, <2>4
<1>10. CASE Connect(d)
  <2>1. /\ pc[d] = "connect" /\ conn'[d] = "open" /\ ctxDone' = ctxDone
        /\ \A e \in Dials \ {d} : pc'[e] = pc[e] /\ conn'[e] = conn[e]
        /\ conKiller' = conKiller
    BY <1>1, <1>10 DEF Connect
  <2>2. Outcome[d] = "none"
    BY <1>1, <2>1 DEF Outcome
  <2>3. Outcome' = [Outcome EXCEPT ![d] = "open"]
    BY <2>1, OutcomeChanges
  <2>. QED
    BY <1>6, <2>1, <2>2, <2>3
<1>11. CASE Return(d)
  <2>1. /\ pc[d] = "return" /\ pc'[d] = "ok" /\ conn' = conn
        /\ \A e \in Dials \ {d} : pc'[e] = pc[e]
        /\ ctxDone' = [ctxDone EXCEPT ![d] = @ \/ kind[d] = "DialTimeout"]
        /\ conKiller' = conKiller /\ ctxDone \in [Dials -> BOOLEAN]
    BY <1>1, <1>11 DEF Return, TypeOK
  <2>2. Outcome' = Outcome
    BY <2>1, OutcomeKept
  <2>3. CASE kind[d] = "DialTimeout"
    <3>1. ctxDone' = [ctxDone EXCEPT ![d] = TRUE]
      BY <2>1, <2>3
    <3>2. d \in own
      BY <2>3 DEF own
    <3>3. Outcomes!End(d)
      BY <1>2, <1>3, <1>4, <2>1, <2>2, <3>1, <3>2 DEF Outcomes!End, own, spare
    <3>. QED
      BY <3>3 DEF OutcomeStep, Outcomes!Next
  <2>4. CASE kind[d] # "DialTimeout"
    <3>1. ctxDone' = ctxDone
      BY <2>1, <2>4
    <3>. QED
      BY <1>5, <2>1, <2>2, <3>1
  <2>. QED
    BY <2>3, <2>4
<1>12. CASE Watch(d)
  <2>1. /\ conn[d] = "open" /\ conn'[d] = "closed" /\ pc' = pc /\ ctxDone' = ctxDone
        /\ \A e \in Dials \ {d} : conn'[e] = conn[e]
        /\ \/ (ctxDone[d] \/ closed) /\ conKiller' = conKiller
           \/ Take
    BY <1>1, <1>12 DEF Watch
  <2>2. Outcome[d] = "open"
    BY <2>1 DEF Outcome
  <2>3. Outcome' = [Outcome EXCEPT ![d] = "closed"]
    BY <2>1, OutcomeChanges
  <2>4. Outcomes!CloseConn(d)
    BY <1>2, <1>3, <1>4, <2>1, <2>2, <2>3, TakeKills
    DEF Outcomes!CloseConn, Outcomes!Becomes, own, spare
  <2>. QED
    BY <2>4 DEF OutcomeStep, Outcomes!Next
<1>. QED
  BY <1>7, <1>8, <1>9, <1>10, <1>11, <1>12 DEF mysteryDialer

\* CloseAllConns runs from its first step to its last, which leaves a token; of
\* calls that overlap only the first to come and the last to go matter.
LEMMA KillerOutcome ==
  ASSUME TypeOK, NEW k \in Killers,
         CloseAllConns(k) \/ KillOne(k) \/ KillEnough(k) \/ KillLast(k)
  PROVE  OutcomeStep
<1>1. /\ kpc \in [Killers -> {"idle", "loop", "last", "done"}]
      /\ UNCHANGED <<kind, pc, conn, ctxDone, closed>>
  BY DEF TypeOK, CloseAllConns, KillOne, KillEnough, KillLast, callVars, engineVars
<1>2. Outcome' = Outcome /\ {d \in Dials : kind[d] # "Dial"}' = {d \in Dials : kind[d] # "Dial"}
  BY <1>1 DEF Outcome
<1>3. ASSUME Killing, Killing' PROVE OutcomeStep
  BY <1>1, <1>2, <1>3 DEF OutcomeStep, Outcomes!vars, Spare
<1>4. CASE CloseAllConns(k)
  <2>1. Killing'
    BY <1>1, <1>4 DEF CloseAllConns, Killing
  <2>2. ASSUME ~Killing PROVE OutcomeStep
    <3>1. Outcomes!CloseAllConns
      BY <1>1, <1>2, <2>1, <2>2 DEF Outcomes!CloseAllConns, Spare
    <3>. QED
      BY <3>1 DEF OutcomeStep, Outcomes!Next
  <2>. QED
    BY <1>3, <2>1, <2>2
<1>5. CASE KillOne(k) \/ KillEnough(k)
  <2>1. Killing /\ Killing'
    BY <1>1, <1>5 DEF KillOne, KillEnough, Killing
  <2>. QED
    BY <1>3, <2>1
<1>6. CASE KillLast(k)
  <2>1. Killing /\ conKiller' = 1
    BY <1>6 DEF KillLast, Killing
  <2>2. ASSUME ~Killing' PROVE OutcomeStep
    <3>1. Outcomes!CloseAllConnsReturns
      BY <1>1, <1>2, <2>1, <2>2 DEF Outcomes!CloseAllConnsReturns, Spare
    <3>. QED
      BY <3>1 DEF OutcomeStep, Outcomes!Next
  <2>. QED
    BY <1>3, <2>1, <2>2
<1>. QED
  BY <1>4, <1>5, <1>6

LEMMA OutcomeNext == TypeOK /\ [Next]_vars => OutcomeStep
<1>. SUFFICES ASSUME TypeOK, [Next]_vars PROVE OutcomeStep
  OBVIOUS
<1>. USE DEF callVars, engineVars, killVars
<1>1. ASSUME UNCHANGED <<kind, pc, conn, kpc, conKiller>>
      PROVE  /\ Outcome' = Outcome /\ Killing' = Killing
             /\ {d \in Dials : kind[d] # "Dial"}' = {d \in Dials : kind[d] # "Dial"}
  BY <1>1 DEF Outcome, Killing
<1>2. ASSUME NEW d \in Dials, CtxEnds(d) PROVE OutcomeStep
  <2>1. UNCHANGED <<kind, pc, conn, kpc, conKiller, closed>>
    BY <1>2 DEF CtxEnds
  <2>2. d \in {e \in Dials : kind[e] # "Dial"} /\ ctxDone' = [ctxDone EXCEPT ![d] = TRUE]
    BY <1>2 DEF CtxEnds
  <2>3. Outcomes!End(d)
    BY <1>1, <2>1, <2>2 DEF Outcomes!End, Spare
  <2>. QED
    BY <2>3 DEF OutcomeStep, Outcomes!Next
<1>3. CASE Close
  <2>1. UNCHANGED <<kind, pc, conn, kpc, conKiller, ctxDone>> /\ closed' = TRUE
    BY <1>3 DEF Close
  <2>2. Outcomes!Close
    BY <1>1, <2>1 DEF Outcomes!Close, Spare
  <2>. QED
    BY <2>2 DEF OutcomeStep, Outcomes!Next
<1>4. CASE UNCHANGED vars \/ \E b \in BOOLEAN : Stock(b)
  <2>1. UNCHANGED <<kind, pc, conn, kpc, conKiller, ctxDone, closed>>
    BY <1>4 DEF vars, Stock
  <2>. QED
    BY <1>1, <2>1 DEF OutcomeStep, Outcomes!vars, Spare
<1>. QED
  BY <1>2, <1>3, <1>4, CallOutcome, KillerOutcome DEF Next

(***************************************************************************)
(* The dialer implements DialOutcomes: whatever calls, watchers and        *)
(* overlapping CloseAllConns do, no call comes to two outcomes and no      *)
(* connection is closed without one of the three reasons.                  *)
(***************************************************************************)
THEOREM OutcomesImplemented == Spec => ImplementsOutcomes
<1>1. TypeOK /\ [Next]_vars => [Outcomes!Next]_(Outcomes!vars)
  BY OutcomeNext DEF OutcomeStep
<1>. QED
  BY <1>1, OutcomeInit, TypeInit, TypeStep, PTL
  DEF Spec, ImplementsOutcomes, Outcomes!Spec
=============================================================================

-------------------------- MODULE Conductor_proofs --------------------------
(***************************************************************************)
(* Proofs about Conductor, for any number of calls and spawners.           *)
(***************************************************************************)
EXTENDS Conductor, TLAPS

\* The invariants, strengthened to be inductive.  The pool that was open before
\* the first start is only left to itself while that start has stored nothing;
\* a spawner in its round after a pause has not submitted since.
PoolInv ==
  /\ poolOpen => \/ Live # {}
                 \/ Status = "new" /\ \A c \in Callers : pc[c] # "store"
  /\ \A c \in Callers : pc[c] = "pause" => Status # "new"

LateInv ==
  \A s \in Spawners :
    /\ late[s] \in {0, 1}
    /\ pc[s] \in {"round", "submit"} /\ ~IsRunning => late[s] = 0

IInv == TypeOK /\ PoolInv /\ LateInv

LEMMA InitInv == Init => IInv
<1>. SUFFICES ASSUME Init PROVE IInv
  OBVIOUS
<1>. USE ConductorAssumption DEF ConductorAssumption
<1>1. TypeOK
  <2>1. \A s \in Spawners : s \notin Callers
    OBVIOUS
  <2>2. /\ \A c \in Callers : pc[c] = "idle"
        /\ \A s \in Spawners : pc[s] = "none"
        /\ pc \in [Callers \cup Spawners -> {"idle", "none"}]
    BY <2>1 DEF Init
  <2>3. /\ busy \in 0..MaxWorkers
        /\ late \in [Spawners -> Nat]
    BY DEF Init
  <2>. QED
    BY <2>2, <2>3 DEF Init, TypeOK, CallerPC, SpawnerPC
<1>2. PoolInv /\ LateInv
  BY DEF Init, PoolInv, LateInv, Live
<1>. QED
  BY <1>1, <1>2 DEF IInv

LEMMA TypeStep == TypeOK /\ [Next]_vars => TypeOK'
<1>. SUFFICES ASSUME TypeOK, [Next]_vars PROVE TypeOK'
  OBVIOUS
<1>. USE ConductorAssumption
     DEF ConductorAssumption, TypeOK, CallerPC, SpawnerPC, Goto, Unlock
<1>1. ASSUME NEW c \in Callers, Start(c) PROVE TypeOK'
  BY <1>1 DEF Start
<1>2. ASSUME NEW c \in Callers, Resume(c) PROVE TypeOK'
  BY <1>2 DEF Resume
<1>3. ASSUME NEW c \in Callers, NEW s \in Spawners, Spawn(c, s) PROVE TypeOK'
  BY <1>3 DEF Spawn
<1>4. ASSUME NEW c \in Callers, StoreRunning(c) PROVE TypeOK'
  BY <1>4 DEF StoreRunning
<1>5. ASSUME NEW c \in Callers, Pause(c) PROVE TypeOK'
  BY <1>5 DEF Pause
<1>6. ASSUME NEW c \in Callers, StorePaused(c) PROVE TypeOK'
  BY <1>6 DEF StorePaused
<1>7. ASSUME NEW c \in Callers, Close(c) PROVE TypeOK'
  BY <1>7 DEF Close
<1>8. ASSUME NEW s \in Spawners, Reboot(s) PROVE TypeOK'
  BY <1>8 DEF Reboot
<1>9. ASSUME NEW s \in Spawners, Look(s) PROVE TypeOK'
  BY <1>9 DEF Look
<1>10. ASSUME NEW s \in Spawners, Submit(s) PROVE TypeOK'
  BY <1>10 DEF Submit
<1>11. ASSUME NEW s \in Spawners, SubmitRefused(s) PROVE TypeOK'
  BY <1>11 DEF SubmitRefused
<1>12. ASSUME NEW s \in Spawners, Release(s) PROVE TypeOK'
  BY <1>12 DEF Release
<1>13. CASE ValidateDone
  BY <1>13 DEF ValidateDone
<1>14. CASE UNCHANGED vars
  BY <1>14 DEF vars
<1>15. ASSUME NEW s \in Spawners, Take(s) \/ Continue(s) PROVE TypeOK'
  BY <1>15 DEF Take, Continue
<1>. QED
  BY <1>1, <1>2, <1>3, <1>4, <1>5, <1>6, <1>7, <1>8, <1>9, <1>10, <1>11,
     <1>12, <1>13, <1>14, <1>15 DEF Next, call, jobSpawner

LEMMA PoolStep == TypeOK /\ PoolInv /\ [Next]_vars => PoolInv'
<1>. SUFFICES ASSUME TypeOK, PoolInv, [Next]_vars PROVE PoolInv'
  OBVIOUS
<1>. USE ConductorAssumption
     DEF ConductorAssumption, TypeOK, PoolInv, Live, Goto, IsRunning
<1>1. ASSUME NEW c \in Callers, Start(c) \/ Resume(c) PROVE PoolInv'
  BY <1>1 DEF Start, Resume
<1>2. ASSUME NEW c \in Callers, NEW s \in Spawners, Spawn(c, s) PROVE PoolInv'
  BY <1>2 DEF Spawn
<1>3. ASSUME NEW c \in Callers, StoreRunning(c) PROVE PoolInv'
  BY <1>3 DEF StoreRunning
<1>4. ASSUME NEW c \in Callers, Pause(c) PROVE PoolInv'
  BY <1>4 DEF Pause
<1>5. ASSUME NEW c \in Callers, StorePaused(c) PROVE PoolInv'
  BY <1>5 DEF StorePaused
<1>6. ASSUME NEW c \in Callers, Close(c) PROVE PoolInv'
  BY <1>6 DEF Close
<1>7. ASSUME NEW s \in Spawners, Reboot(s) PROVE PoolInv'
  BY <1>7 DEF Reboot
<1>8. ASSUME NEW s \in Spawners, Look(s) \/ Take(s) \/ Continue(s) PROVE PoolInv'
  BY <1>8 DEF Look, Take, Continue
<1>9. ASSUME NEW s \in Spawners, Submit(s) \/ SubmitRefused(s) PROVE PoolInv'
  BY <1>9 DEF Submit, SubmitRefused
<1>10. ASSUME NEW s \in Spawners, Release(s) PROVE PoolInv'
  BY <1>10 DEF Release
<1>11. CASE ValidateDone \/ UNCHANGED vars
  BY <1>11 DEF ValidateDone, vars
<1>. QED
  BY <1>1, <1>2, <1>3, <1>4, <1>5, <1>6, <1>7, <1>8, <1>9, <1>10, <1>11
  DEF Next, call, jobSpawner

LEMMA LateStep == TypeOK /\ LateInv /\ [Next]_vars => LateInv'
<1>. SUFFICES ASSUME TypeOK, LateInv, [Next]_vars PROVE LateInv'
  OBVIOUS
<1>. USE ConductorAssumption
     DEF ConductorAssumption, TypeOK, LateInv, Goto, IsRunning
<1>1. ASSUME NEW c \in Callers, Start(c) \/ Resume(c) PROVE LateInv'
  BY <1>1 DEF Start, Resume
<1>2. ASSUME NEW c \in Callers, NEW s \in Spawners, Spawn(c, s) PROVE LateInv'
  BY <1>2 DEF Spawn
<1>3. ASSUME NEW c \in Callers, StoreRunning(c) \/ StorePaused(c) PROVE LateInv'
  BY <1>3 DEF StoreRunning, StorePaused
<1>4. ASSUME NEW c \in Callers, Pause(c) \/ Close(c) PROVE LateInv'
  BY <1>4 DEF Pause, Close
<1>5. ASSUME NEW s \in Spawners,
             Reboot(s) \/ Look(s) \/ Take(s) \/ Continue(s) \/ Release(s)
      PROVE  LateInv'
  BY <1>5 DEF Reboot, Look, Take, Continue, Release
<1>6. ASSUME NEW s \in Spawners, Submit(s) PROVE LateInv'
  BY <1>6 DEF Submit
<1>7. ASSUME NEW s \in Spawners, SubmitRefused(s) PROVE LateInv'
  BY <1>7 DEF SubmitRefused
<1>8. CASE ValidateDone \/ UNCHANGED vars
  BY <1>8 DEF ValidateDone, vars
<1>. QED
  BY <1>1, <1>2, <1>3, <1>4, <1>5, <1>6, <1>7, <1>8 DEF Next, call, jobSpawner

LEMMA Inductive == Spec => []IInv
<1>1. IInv /\ [Next]_vars => IInv'
  BY TypeStep, PoolStep, LateStep DEF IInv
<1>. QED
  BY <1>1, InitInv, PTL DEF Spec

\* Every variable keeps its type; p5.mu is held by a call that is in Close.
THEOREM TypeCorrect == Spec => []TypeOK
<1>1. IInv => TypeOK
  BY DEF IInv
<1>. QED
  BY <1>1, Inductive, PTL

(***************************************************************************)
(* An open pool has a spawner to feed and release it, however the calls of *)
(* Start, Resume, Pause and Close overlap.                                 *)
(***************************************************************************)
THEOREM PoolIsOwned == Spec => []PoolOwned
<1>1. IInv => PoolOwned
  BY DEF IInv, PoolInv, PoolOwned
<1>. QED
  BY <1>1, Inductive, PTL

(***************************************************************************)
(* After a pause each spawner submits one more proxy at most.              *)
(***************************************************************************)
THEOREM PauseIsPrompt == Spec => []OneLate
<1>1. IInv => OneLate
  BY DEF IInv, LateInv, OneLate
<1>. QED
  BY <1>1, Inductive, PTL
=============================================================================

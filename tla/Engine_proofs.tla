---------------------------- MODULE Engine_proofs ----------------------------
(***************************************************************************)
(* Proofs about Engine: what Conductor and Intake each promise also holds  *)
(* of the two together, and what a spawner leaves behind.                  *)
(***************************************************************************)
EXTENDS Engine, FiniteSetTheorems, FunctionTheorems, TLAPS

-----------------------------------------------------------------------------
(* Every step is one of each component's, or leaves the component alone.   *)

LEMMA ConductorStep == [Next]_vars => [Conductor!Next]_(Conductor!vars)
<1>. SUFFICES ASSUME [Next]_vars PROVE Conductor!Next \/ UNCHANGED Conductor!vars
  OBVIOUS
<1>. USE DEF conductorVars, Conductor!vars
<1>1. ASSUME NEW c \in Callers, Api(c) PROVE Conductor!Next
  BY <1>1 DEF Api, Conductor!Next
<1>2. ASSUME NEW s \in Spawners, Outer(s) \/ Take(s) \/ Refused(s) \/ Accepted(s)
      PROVE  Conductor!Next
  BY <1>2 DEF Outer, Take, Refused, Accepted, Conductor!Next, Conductor!jobSpawner
<1>3. ASSUME NEW s \in Spawners, Seek(s)
      PROVE  Conductor!Next \/ UNCHANGED Conductor!vars
  BY <1>3 DEF Seek, EmptyRound, Conductor!Next, Conductor!jobSpawner
<1>4. ASSUME NEW p \in Proxies \cup {NoProxy}, ValidateDone(p) PROVE Conductor!Next
  BY <1>4 DEF ValidateDone, Conductor!Next
<1>5. ASSUME \/ \E l \in Loaders : load(l)
             \/ Users \/ recycleTimer \/ UNCHANGED vars
      PROVE  UNCHANGED Conductor!vars
  BY <1>5 DEF load, Users, recycleTimer, vars
<1>. QED
  BY <1>1, <1>2, <1>3, <1>4, <1>5 DEF Next, jobSpawner

LEMMA IntakeStep == [Next]_vars => [Intake!Next]_(Intake!vars)
<1>. SUFFICES ASSUME [Next]_vars PROVE Intake!Next \/ UNCHANGED Intake!vars
  OBVIOUS
<1>. USE DEF intakeVars, Intake!vars, Intake!mapVars, Intake!recycleVars
<1>1. ASSUME NEW l \in Loaders, load(l) PROVE Intake!Next
  BY <1>1 DEF load, Intake!Next
<1>2. CASE Users \/ recycleTimer
  BY <1>2 DEF Users, recycleTimer, Intake!Next
<1>3. ASSUME NEW s \in Spawners, Seek(s) \/ Take(s) \/ Refused(s) \/ Accepted(s)
      PROVE  Intake!Next
  BY <1>3 DEF Seek, Take, Refused, Accepted, Intake!Next, Intake!jobSpawner
<1>4. ASSUME \/ \E c \in Callers : Api(c)
             \/ \E s \in Spawners : Outer(s)
             \/ \E p \in Proxies \cup {NoProxy} : ValidateDone(p)
             \/ UNCHANGED vars
      PROVE  UNCHANGED Intake!vars
  BY <1>4 DEF Api, Outer, ValidateDone, vars
<1>. QED
  BY <1>1, <1>2, <1>3, <1>4 DEF Next, jobSpawner

(***************************************************************************)
(* Whatever is fed to it, the conductor of the engine is a Conductor: that *)
(* an open pool has a spawner and that a pause is prompt holds of the two  *)
(* together.                                                               *)
(***************************************************************************)
THEOREM EngineConducts == Spec => Conductor!Spec
<1>1. Init => Conductor!Init
  BY DEF Init
<1>. QED
  BY <1>1, ConductorStep, PTL DEF Spec, Conductor!Spec

(***************************************************************************)
(* Whoever starts and pauses it, the intake of the engine is an Intake:    *)
(* that a mapped proxy is queued and that a spawner finds the front it has *)
(* seen holds with spawners that come and go.                              *)
(***************************************************************************)
THEOREM EngineTakesIn == Spec => Intake!Spec
<1>1. Init => Intake!Init
  BY DEF Init
<1>. QED
  BY <1>1, IntakeStep, PTL DEF Spec, Intake!Spec

-----------------------------------------------------------------------------
(* What a spawner has in hand.                                             *)

Threads == Loaders \cup Spawners
Recycling == {"check", "collect", "add"}

\* Where a spawner is in its round tells what it has.
Shape ==
  /\ DOMAIN at = Callers \cup Spawners
  /\ DOMAIN pc = Threads
  /\ DOMAIN sock = Loaders \cup Spawners

RoundInv ==
  \A s \in Spawners :
    /\ at[s] \notin {"round", "submit"} => pc[s] = "look"
    /\ at[s] = "submit" <=> pc[s] = "submit"
    /\ sock[s] # NoProxy => pc[s] = "submit"
    /\ recycleMu = s => pc[s] \in Recycling

IInv == Shape /\ RoundInv

LEMMA RoundInit == Init => IInv
<1>. SUFFICES ASSUME Init PROVE IInv
  OBVIOUS
<1>. USE DEF Init, Conductor!Init, Intake!Init
<1>1. Shape
  BY DEF Shape, Threads, Intake!Threads, Intake!Recyclers
<1>2. ASSUME NEW s \in Spawners
      PROVE  at[s] = "none" /\ pc[s] = "look" /\ sock[s] = NoProxy /\ recycleMu # s
  BY EngineAssumption DEF EngineAssumption, Intake!Threads, Intake!Recyclers
<1>. QED
  BY <1>1, <1>2 DEF IInv, RoundInv

\* A step that leaves the spawners where they are.
LEMMA RoundKept ==
  ASSUME IInv, Shape',
         \A s \in Spawners :
           at'[s] = at[s] /\ pc'[s] = pc[s] /\ sock'[s] = sock[s],
         \A s \in Spawners : recycleMu' = s => recycleMu = s
  PROVE  IInv'
  BY DEF IInv, RoundInv, Recycling

LEMMA RoundSpawner ==
  ASSUME IInv, NEW s \in Spawners, jobSpawner(s)
  PROVE  IInv'
<1>. USE EngineAssumption
     DEF EngineAssumption, IInv, Shape, Threads, Recycling, conductorVars,
         intakeVars, Conductor!Goto, Intake!Goto, Intake!mapVars,
         Intake!recycleVars
<1>1. CASE Outer(s)
  BY <1>1 DEF RoundInv, Outer, Conductor!Reboot, Conductor!Look, Conductor!Release
<1>2. CASE Seek(s)
  <2>. USE <1>2 DEF Seek, EmptyRound, Conductor!Continue, RoundInv
  <2>1. CASE Intake!Look(s)
    BY <2>1 DEF Intake!Look
  <2>2. CASE Intake!RecycleTry(s)
    BY <2>2 DEF Intake!RecycleTry, Intake!Back
  <2>3. CASE Intake!RecycleCheck(s)
    BY <2>3 DEF Intake!RecycleCheck, Intake!Leave, Intake!Back
  <2>4. CASE Intake!RecycleCollect(s) \/ Intake!RecycleAdd(s)
    BY <2>4 DEF Intake!RecycleCollect, Intake!RecycleAdd
  <2>5. CASE Intake!RecycleDone(s)
    BY <2>5 DEF Intake!RecycleDone, Intake!Leave, Intake!Back
  <2>. QED
    BY <2>1, <2>2, <2>3, <2>4, <2>5 DEF Intake!recycling
<1>3. CASE Take(s)
  BY <1>3 DEF RoundInv, Take, Conductor!Take, Intake!Take
<1>4. CASE Refused(s)
  BY <1>4 DEF RoundInv, Refused, Conductor!SubmitRefused, Intake!Submit
<1>5. CASE Accepted(s)
  BY <1>5 DEF RoundInv, Accepted, Conductor!Submit, Intake!Submit
<1>. QED
  BY <1>1, <1>2, <1>3, <1>4, <1>5 DEF jobSpawner

LEMMA RoundCalls ==
  ASSUME IInv, NEW c \in Callers, Api(c)
  PROVE  IInv'
<1>. USE EngineAssumption
     DEF EngineAssumption, IInv, Shape, Api, intakeVars, Conductor!Goto,
         Conductor!call
<1>1. ASSUME NEW s \in Spawners, Conductor!Spawn(c, s) PROVE IInv'
  BY <1>1 DEF Conductor!Spawn, RoundInv
<1>2. CASE Conductor!Start(c) \/ Conductor!Resume(c) \/ Conductor!Pause(c)
           \/ Conductor!Close(c) \/ Conductor!StoreRunning(c)
           \/ Conductor!StorePaused(c)
  <2>1. Shape' /\ \A s \in Spawners : at'[s] = at[s]
    BY <1>2 DEF Conductor!Start, Conductor!Resume, Conductor!Pause,
       Conductor!Close, Conductor!StoreRunning, Conductor!StorePaused
  <2>. QED
    BY <2>1, RoundKept
<1>. QED
  BY <1>1, <1>2

LEMMA RoundUsers ==
  ASSUME IInv,
         \/ \E l \in Loaders : load(l)
         \/ Users \/ recycleTimer
  PROVE  IInv'
<1>. USE EngineAssumption
     DEF EngineAssumption, IInv, Shape, Threads, conductorVars, Intake!Goto,
         Intake!mapVars, Intake!recycleVars
<1>1. ASSUME NEW l \in Loaders, load(l) PROVE IInv'
  BY <1>1, RoundKept DEF load, Intake!loadSingleProxy, Intake!LoadGet,
     Intake!LoadQueue
<1>2. CASE Users
  <2>1. ASSUME NEW l \in Loaders, NEW e \in Endpoints, Intake!LoadSet(l, e)
        PROVE  IInv'
    BY <1>2, <2>1, RoundKept DEF Users, Intake!LoadSet
  <2>2. CASE (\E p \in Proxies : Intake!Delete(p)) \/ Intake!ClearSOCKSList
             \/ \E b \in BOOLEAN : Intake!SetRecycling(b)
    BY <1>2, <2>2, RoundKept DEF Users, Intake!Delete, Intake!ClearSOCKSList,
       Intake!SetRecycling
  <2>. QED
    BY <1>2, <2>1, <2>2 DEF Users
<1>3. CASE recycleTimer
  BY <1>3, RoundKept DEF recycleTimer, Intake!Tick
<1>. QED
  BY <1>1, <1>2, <1>3

(***************************************************************************)
(* A spawner that a pause ends leaves nothing behind: no proxy in hand and *)
(* no recycleMu locked, however its round and the calls overlap.           *)
(***************************************************************************)
THEOREM SpawnersEndClean == Spec => []EndsEmptyHanded
<1>1. IInv /\ [Next]_vars => IInv'
  <2>. SUFFICES ASSUME IInv, [Next]_vars PROVE IInv'
    OBVIOUS
  <2>1. ASSUME (\E p \in Proxies \cup {NoProxy} : ValidateDone(p)) \/ UNCHANGED vars
        PROVE  IInv'
    BY <2>1 DEF ValidateDone, Conductor!ValidateDone, vars, conductorVars,
       intakeVars, IInv, Shape, RoundInv
  <2>. QED
    BY <2>1, RoundSpawner, RoundCalls, RoundUsers DEF Next
<1>2. IInv => EndsEmptyHanded
  BY DEF IInv, RoundInv, EndsEmptyHanded, Recycling
<1>. QED
  BY <1>1, <1>2, RoundInit, PTL DEF Spec

-----------------------------------------------------------------------------
(* What is proved of the components, with the engine's variables for theirs. *)

ConductorProofs == INSTANCE Conductor_proofs WITH pc <- at
IntakeProofs == INSTANCE Intake_proofs WITH Consumers <- {}

LEMMA ConductorConstants == ConductorProofs!ConductorAssumption
  BY EngineAssumption DEF EngineAssumption, ConductorProofs!ConductorAssumption

LEMMA IntakeConstants == IntakeProofs!IntakeAssumption
  BY EngineAssumption DEF EngineAssumption, IntakeProofs!IntakeAssumption

\* A definition there and here says the same.
LEMMA SameConductor ==
  /\ Conductor!Init => ConductorProofs!Init
  /\ [Conductor!Next]_(Conductor!vars) => [ConductorProofs!Next]_(ConductorProofs!vars)
  /\ ConductorProofs!TypeOK => Conductor!TypeOK
  /\ ConductorProofs!PoolOwned => Conductor!PoolOwned
  /\ ConductorProofs!OneLate => Conductor!OneLate
<1>1. Conductor!Init => ConductorProofs!Init
  BY DEF Conductor!Init, ConductorProofs!Init
<1>2. ConductorProofs!Next = Conductor!Next
  BY DEF Conductor!Next, Conductor!Start, Conductor!Resume, Conductor!Pause,
     Conductor!Close, Conductor!call, Conductor!Spawn, Conductor!StoreRunning,
     Conductor!StorePaused, Conductor!Unlock, Conductor!jobSpawner,
     Conductor!Reboot, Conductor!Look, Conductor!Take, Conductor!Continue,
     Conductor!Submit, Conductor!SubmitRefused, Conductor!Release,
     Conductor!ValidateDone, Conductor!Goto, Conductor!IsRunning,
     ConductorProofs!Next, ConductorProofs!Start, ConductorProofs!Resume,
     ConductorProofs!Pause, ConductorProofs!Close, ConductorProofs!call,
     ConductorProofs!Spawn, ConductorProofs!StoreRunning,
     ConductorProofs!StorePaused, ConductorProofs!Unlock,
     ConductorProofs!jobSpawner, ConductorProofs!Reboot, ConductorProofs!Look,
     ConductorProofs!Take, ConductorProofs!Continue, ConductorProofs!Submit,
     ConductorProofs!SubmitRefused, ConductorProofs!Release,
     ConductorProofs!ValidateDone, ConductorProofs!Goto, ConductorProofs!IsRunning
<1>3. ConductorProofs!vars = Conductor!vars /\ ConductorProofs!vars' = Conductor!vars'
  BY DEF ConductorProofs!vars, Conductor!vars
<1>4. ConductorProofs!TypeOK => Conductor!TypeOK
  BY DEF ConductorProofs!TypeOK, ConductorProofs!CallerPC, ConductorProofs!SpawnerPC,
     Conductor!TypeOK, Conductor!CallerPC, Conductor!SpawnerPC
<1>5. /\ ConductorProofs!PoolOwned => Conductor!PoolOwned
      /\ ConductorProofs!OneLate => Conductor!OneLate
  BY DEF ConductorProofs!PoolOwned, ConductorProofs!Live, ConductorProofs!OneLate,
     Conductor!PoolOwned, Conductor!Live, Conductor!OneLate
<1>. QED
  BY <1>1, <1>2, <1>3, <1>4, <1>5

LEMMA SameIntake ==
  /\ Intake!Init => IntakeProofs!Init
  /\ [Intake!Next]_(Intake!vars) => [IntakeProofs!Next]_(IntakeProofs!vars)
  /\ IntakeProofs!TypeOK => Intake!TypeOK
  /\ IntakeProofs!FrontThere => Intake!FrontThere
  /\ IntakeProofs!MappedQueued => Intake!MappedQueued
<1>1. Intake!Init => IntakeProofs!Init
  BY DEF Intake!Init, Intake!Threads, Intake!Recyclers,
     IntakeProofs!Init, IntakeProofs!Threads, IntakeProofs!Recyclers
<1>2. IntakeProofs!Next = Intake!Next
  BY DEF Intake!Next, Intake!loadSingleProxy, Intake!LoadSet, Intake!LoadGet,
     Intake!LoadQueue, Intake!Delete, Intake!ClearSOCKSList, Intake!Tick,
     Intake!SetRecycling, Intake!RecycleTry, Intake!recycling, Intake!RecycleCheck,
     Intake!RecycleCollect, Intake!RecycleAdd, Intake!RecycleDone, Intake!Back,
     Intake!Leave, Intake!jobSpawner, Intake!Look, Intake!Take, Intake!Submit,
     Intake!Goto, Intake!Made, Intake!Mapped, Intake!Queued, Intake!mapVars,
     Intake!recycleVars, Intake!ToSet,
     IntakeProofs!Next, IntakeProofs!loadSingleProxy, IntakeProofs!LoadSet,
     IntakeProofs!LoadGet, IntakeProofs!LoadQueue, IntakeProofs!Delete,
     IntakeProofs!ClearSOCKSList, IntakeProofs!Tick, IntakeProofs!SetRecycling,
     IntakeProofs!RecycleTry, IntakeProofs!recycling, IntakeProofs!RecycleCheck,
     IntakeProofs!RecycleCollect, IntakeProofs!RecycleAdd, IntakeProofs!RecycleDone,
     IntakeProofs!Back, IntakeProofs!Leave, IntakeProofs!jobSpawner,
     IntakeProofs!Look, IntakeProofs!Take, IntakeProofs!Submit, IntakeProofs!Goto,
     IntakeProofs!Made, IntakeProofs!Mapped, IntakeProofs!Queued,
     IntakeProofs!mapVars, IntakeProofs!recycleVars, IntakeProofs!ToSet
<1>3. IntakeProofs!vars = Intake!vars /\ IntakeProofs!vars' = Intake!vars'
  BY DEF IntakeProofs!vars, IntakeProofs!mapVars, IntakeProofs!recycleVars,
     Intake!vars, Intake!mapVars, Intake!recycleVars
<1>4. IntakeProofs!TypeOK => Intake!TypeOK
  BY DEF IntakeProofs!TypeOK, IntakeProofs!Queued, IntakeProofs!Made,
     IntakeProofs!Threads, IntakeProofs!Recyclers,
     Intake!TypeOK, Intake!Queued, Intake!Made, Intake!Threads, Intake!Recyclers,
     IntakeProofs!ToSet, Intake!ToSet
<1>5. /\ IntakeProofs!FrontThere => Intake!FrontThere
      /\ IntakeProofs!MappedQueued => Intake!MappedQueued
  BY DEF IntakeProofs!FrontThere, IntakeProofs!MappedQueued, IntakeProofs!Mapped,
     IntakeProofs!Queued, Intake!FrontThere, Intake!MappedQueued, Intake!Mapped,
     Intake!Queued, IntakeProofs!ToSet, Intake!ToSet
<1>. QED
  BY <1>1, <1>2, <1>3, <1>4, <1>5

(***************************************************************************)
(* The pool of the engine has a spawner to feed it, however Pending lets   *)
(* the spawner's rounds go, and a spawner submits one proxy at most after  *)
(* a pause (conductor.go).                                                 *)
(***************************************************************************)
THEOREM PoolIsFed ==
  Spec => [](Conductor!TypeOK /\ Conductor!PoolOwned /\ Conductor!OneLate)
<1>1. Spec => ConductorProofs!Spec
  BY EngineConducts, SameConductor, PTL DEF Conductor!Spec, ConductorProofs!Spec
<1>. QED
  BY <1>1, SameConductor, ConductorConstants, ConductorProofs!TypeCorrect,
     ConductorProofs!PoolIsOwned, ConductorProofs!PauseIsPrompt, PTL

(***************************************************************************)
(* Spawners that starts and pauses make and end still find the front they  *)
(* have seen, and what is mapped is queued (list_management.go).           *)
(***************************************************************************)
THEOREM NothingIsForgotten ==
  Spec => [](Intake!TypeOK /\ Intake!FrontThere /\ Intake!MappedQueued)
<1>1. Spec => IntakeProofs!Spec
  BY EngineTakesIn, SameIntake, PTL DEF Intake!Spec, IntakeProofs!Spec
<1>. QED
  BY <1>1, SameIntake, IntakeConstants, IntakeProofs!TypeCorrect,
     IntakeProofs!FrontIsThere, IntakeProofs!MappedAreQueued, PTL

-----------------------------------------------------------------------------
(* The workers that are at some proxy are the busy ones.                   *)

\* One for each worker that is at p.
Jobs(v) == {j \in (Proxies \cup {NoProxy}) \X (Nat \ {0}) : j[2] <= v[j[1]]}

JobsInv ==
  /\ validating \in [Proxies \cup {NoProxy} -> Nat]
  /\ IsFiniteSet(Jobs(validating))
  /\ Cardinality(Jobs(validating)) = busy

LEMMA JobsInit == Init => JobsInv
<1>. SUFFICES ASSUME Init PROVE JobsInv
  OBVIOUS
<1>1. validating \in [Proxies \cup {NoProxy} -> Nat]
      /\ \A p \in Proxies \cup {NoProxy} : validating[p] = 0
  BY DEF Init
<1>2. Jobs(validating) = {}
  BY <1>1 DEF Jobs
<1>3. busy = 0
  BY DEF Init, Conductor!Init
<1>. QED
  BY <1>1, <1>2, <1>3, FS_EmptySet DEF JobsInv

\* A worker begins with p.
LEMMA JobBegins ==
  ASSUME JobsInv, NEW p \in Proxies \cup {NoProxy},
         validating' = [validating EXCEPT ![p] = @ + 1], busy' = busy + 1
  PROVE  JobsInv'
<1>. DEFINE j == <<p, validating[p] + 1>>
<1>1. validating[p] \in Nat /\ validating' \in [Proxies \cup {NoProxy} -> Nat]
  BY DEF JobsInv
<1>2. Jobs(validating') = Jobs(validating) \cup {j}
  <2>1. ASSUME NEW i \in (Proxies \cup {NoProxy}) \X (Nat \ {0})
        PROVE  i[2] <= validating'[i[1]] <=> i[2] <= validating[i[1]] \/ i = j
    <3>1. PICK q \in Proxies \cup {NoProxy}, n \in Nat \ {0} : i = <<q, n>>
      BY <2>1
    <3>2. i[1] = q /\ i[2] = n /\ (i = j <=> q = p /\ n = validating[p] + 1)
      BY <3>1
    <3>3. CASE q = p
      <4>1. validating'[q] = validating[q] + 1
        BY <3>3 DEF JobsInv
      <4>. QED
        BY <1>1, <3>2, <3>3, <4>1
    <3>4. CASE q # p
      <4>1. validating'[q] = validating[q]
        BY <3>4 DEF JobsInv
      <4>. QED
        BY <3>2, <3>4, <4>1
    <3>. QED
      BY <3>3, <3>4
  <2>2. j \in (Proxies \cup {NoProxy}) \X (Nat \ {0})
    BY <1>1
  <2>. QED
    BY <2>1, <2>2 DEF Jobs
<1>3. j \notin Jobs(validating)
  BY <1>1 DEF Jobs
<1>. HIDE DEF j
<1>4. IsFiniteSet(Jobs(validating)) /\ Cardinality(Jobs(validating)) = busy
  BY DEF JobsInv
<1>5. IsFiniteSet(Jobs(validating')) /\ Cardinality(Jobs(validating')) = busy + 1
  <2>1. /\ IsFiniteSet(Jobs(validating) \cup {j})
        /\ Cardinality(Jobs(validating) \cup {j}) = Cardinality(Jobs(validating)) + 1
    BY <1>3, <1>4, FS_AddElement
  <2>. QED
    BY <1>2, <1>4, <2>1
<1>. QED
  BY <1>1, <1>5 DEF JobsInv

\* A worker is done with p.
LEMMA JobEnds ==
  ASSUME JobsInv, NEW p \in Proxies \cup {NoProxy}, validating[p] > 0,
         validating' = [validating EXCEPT ![p] = @ - 1], busy' = busy - 1
  PROVE  JobsInv'
<1>. DEFINE j == <<p, validating[p]>>
<1>1. validating[p] \in Nat \ {0} /\ validating' \in [Proxies \cup {NoProxy} -> Nat]
  BY DEF JobsInv
<1>2. Jobs(validating') = Jobs(validating) \ {j}
  <2>1. ASSUME NEW i \in (Proxies \cup {NoProxy}) \X (Nat \ {0})
        PROVE  i[2] <= validating'[i[1]] <=> i[2] <= validating[i[1]] /\ i # j
    <3>1. PICK q \in Proxies \cup {NoProxy}, n \in Nat \ {0} : i = <<q, n>>
      BY <2>1
    <3>2. i[1] = q /\ i[2] = n /\ (i = j <=> q = p /\ n = validating[p])
      BY <3>1
    <3>3. CASE q = p
      <4>1. validating'[q] = validating[q] - 1
        BY <3>3 DEF JobsInv
      <4>. QED
        BY <1>1, <3>2, <3>3, <4>1
    <3>4. CASE q # p
      <4>1. validating'[q] = validating[q]
        BY <3>4 DEF JobsInv
      <4>. QED
        BY <3>2, <3>4, <4>1
    <3>. QED
      BY <3>3, <3>4
  <2>. QED
    BY <2>1 DEF Jobs
<1>3. j \in Jobs(validating)
  BY <1>1 DEF Jobs
<1>. HIDE DEF j
<1>4. IsFiniteSet(Jobs(validating)) /\ Cardinality(Jobs(validating)) = busy
  BY DEF JobsInv
<1>5. IsFiniteSet(Jobs(validating')) /\ Cardinality(Jobs(validating')) = busy - 1
  BY <1>2, <1>3, <1>4, FS_RemoveElement
<1>. QED
  BY <1>1, <1>5 DEF JobsInv

LEMMA JobsStep == Intake!TypeOK /\ JobsInv /\ [Next]_vars => JobsInv'
<1>. SUFFICES ASSUME Intake!TypeOK, JobsInv, [Next]_vars PROVE JobsInv'
  OBVIOUS
<1>1. ASSUME UNCHANGED <<busy, validating>> PROVE JobsInv'
  BY <1>1 DEF JobsInv
<1>2. ASSUME NEW c \in Callers, Api(c) PROVE JobsInv'
  <2>1. UNCHANGED <<busy, validating>>
    BY <1>2 DEF Api, Conductor!Start, Conductor!Resume, Conductor!Pause, Conductor!Close,
       Conductor!call, Conductor!Spawn, Conductor!StoreRunning, Conductor!StorePaused
  <2>. QED
    BY <1>1, <2>1
<1>3. ASSUME (\E l \in Loaders : load(l)) \/ Users \/ recycleTimer \/ UNCHANGED vars
      PROVE  JobsInv'
  BY <1>1, <1>3 DEF load, Users, recycleTimer, vars, conductorVars
<1>4. ASSUME NEW s \in Spawners, Outer(s) \/ Seek(s) \/ Take(s) \/ Refused(s)
      PROVE  JobsInv'
  <2>1. UNCHANGED <<busy, validating>>
    BY <1>4 DEF Outer, Seek, EmptyRound, Take, Refused, conductorVars,
       Conductor!Reboot, Conductor!Look, Conductor!Release, Conductor!Continue,
       Conductor!Take, Conductor!SubmitRefused
  <2>. QED
    BY <1>1, <2>1
<1>5. ASSUME NEW s \in Spawners, Accepted(s) PROVE JobsInv'
  <2>1. sock[s] \in Proxies \cup {NoProxy}
    BY DEF Intake!TypeOK, Intake!Made
  <2>2. validating' = [validating EXCEPT ![sock[s]] = @ + 1] /\ busy' = busy + 1
    BY <1>5 DEF Accepted, Conductor!Submit
  <2>. QED
    BY <2>1, <2>2, JobBegins
<1>6. ASSUME NEW p \in Proxies \cup {NoProxy}, ValidateDone(p) PROVE JobsInv'
  <2>1. /\ validating[p] > 0 /\ busy' = busy - 1
        /\ validating' = [validating EXCEPT ![p] = @ - 1]
    BY <1>6 DEF ValidateDone, Conductor!ValidateDone
  <2>. QED
    BY <2>1, JobEnds
<1>. QED
  BY <1>2, <1>3, <1>4, <1>5, <1>6 DEF Next, jobSpawner

\* So that no proxy has more workers than the pool.
LEMMA JobsBound ==
  ASSUME Conductor!TypeOK, JobsInv, NEW p \in Proxies \cup {NoProxy}
  PROVE  validating[p] \in 0..MaxWorkers
<1>. DEFINE n == validating[p]
            f == [i \in 1..n |-> <<p, i>>]
<1>1. n \in Nat /\ busy \in 0..MaxWorkers /\ MaxWorkers \in Nat
  BY EngineAssumption DEF EngineAssumption, JobsInv, Conductor!TypeOK
<1>2. f \in Injection(1..n, Jobs(validating))
  <2>1. \A i \in 1..n : <<p, i>> \in Jobs(validating)
    BY <1>1 DEF Jobs
  <2>2. \A i, k \in 1..n : <<p, i>> = <<p, k>> => i = k
    OBVIOUS
  <2>. QED
    BY <2>1, <2>2 DEF Injection, IsInjective
<1>. HIDE DEF f, n
<1>3. Cardinality(1..n) <= busy
  BY <1>2, FS_Injection DEF JobsInv
<1>4. Cardinality(1..n) = n
  BY <1>1, FS_Interval
<1>. QED
  BY <1>1, <1>3, <1>4 DEF n

(***************************************************************************)
(* The variables of the engine keep their types: the pool has no more      *)
(* workers at a proxy than it has, whatever was submitted and refused.     *)
(***************************************************************************)
THEOREM TypeCorrect == Spec => []TypeOK
<1>1. Spec => []JobsInv
  BY JobsInit, JobsStep, NothingIsForgotten, PTL DEF Spec
<1>2. Conductor!TypeOK /\ Intake!TypeOK /\ JobsInv => TypeOK
  <2>. SUFFICES ASSUME Conductor!TypeOK, Intake!TypeOK, JobsInv PROVE TypeOK
    OBVIOUS
  <2>1. \A p \in Proxies \cup {NoProxy} : validating[p] \in 0..MaxWorkers
    BY JobsBound
  <2>. QED
    BY <2>1 DEF TypeOK, JobsInv
<1>. QED
  BY <1>1, <1>2, PoolIsFed, NothingIsForgotten, PTL
=============================================================================

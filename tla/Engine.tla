-------------------------------- MODULE Engine --------------------------------
(***************************************************************************)
(* Conductor and Intake together: Start, Pause, Resume and Close, the      *)
(* spawners they make, and the map and Pending that these feed from while  *)
(* proxies are loaded, removed and recycled.  A round of jobSpawner's loop *)
(* is one of Conductor and one of Intake; what it submits keeps one of the *)
(* workers of the pool busy until its validation is done.  The consumers,   *)
(* which recycle beside the spawners, are left to Intake.                  *)
(*                                                                         *)
(* at is Conductor's pc, pc is Intake's.                                   *)
(***************************************************************************)
EXTENDS Naturals, FiniteSets

CONSTANTS
  Callers, NoCaller, MaxWorkers,
  Endpoints, Proxies, NoProxy, Loaders, NoHolder, PendingBound,
  Spawners

ASSUME EngineAssumption ==
  /\ Callers \cap Spawners = {} /\ NoCaller \notin Callers
  /\ MaxWorkers \in Nat \ {0}
  /\ NoProxy \notin Proxies
  /\ NoHolder \notin Spawners
  /\ Loaders \cap Spawners = {}
  /\ PendingBound \in Nat

VARIABLES
  Status, ctxDone, mu, at, poolOpen, busy, late,
  plot, endpoint, Pending, recycle, tick, recycleMu, pc, sock, todo,
  validating  \* validating[p]: the workers that are at p

Conductor == INSTANCE Conductor WITH pc <- at
Intake == INSTANCE Intake WITH Consumers <- {}

conductorVars == <<Status, ctxDone, mu, at, poolOpen, busy, late>>
intakeVars == <<plot, endpoint, Pending, recycle, tick, recycleMu, pc, sock, todo>>
vars == <<conductorVars, intakeVars, validating>>

TypeOK ==
  /\ Conductor!TypeOK /\ Intake!TypeOK
  /\ validating \in [Proxies \cup {NoProxy} -> 0..MaxWorkers]

Init ==
  /\ Conductor!Init /\ Intake!Init
  /\ validating = [p \in Proxies \cup {NoProxy} |-> 0]

-----------------------------------------------------------------------------

\* The calls of the API, and what the engine goes on with of them.
Api(c) ==
  /\ \/ Conductor!Start(c) \/ Conductor!Resume(c) \/ Conductor!Pause(c)
     \/ Conductor!Close(c) \/ Conductor!call(c)
  /\ UNCHANGED <<intakeVars, validating>>

call(c) == Conductor!call(c) /\ UNCHANGED <<intakeVars, validating>>

\* Loading goes on in a paused engine.
load(l) ==
  Intake!loadSingleProxy(l) /\ UNCHANGED <<conductorVars, validating>>
recycleTimer == Intake!Tick /\ UNCHANGED <<conductorVars, validating>>

Users ==
  /\ \/ \E l \in Loaders, e \in Endpoints : Intake!LoadSet(l, e)
     \/ \E p \in Proxies : Intake!Delete(p)
     \/ Intake!ClearSOCKSList
     \/ \E b \in BOOLEAN : Intake!SetRecycling(b)
  /\ UNCHANGED <<conductorVars, validating>>

-----------------------------------------------------------------------------
(* jobSpawner.                                                             *)

\* Outside of the rounds: its start, the look at Status, its end.
Outer(s) ==
  /\ Conductor!Reboot(s) \/ Conductor!Look(s) \/ Conductor!Release(s)
  /\ UNCHANGED <<intakeVars, validating>>

\* Mutants: a round after which the goroutine returns, and one that is made
\* again without a look at Status.
ReturnAfter(s) ==
  /\ at[s] = "round" /\ at' = [at EXCEPT ![s] = "none"]
  /\ UNCHANGED <<Status, ctxDone, mu, poolOpen, busy, late>>
StayAfter(s) == at[s] = "round" /\ UNCHANGED conductorVars

\* With nothing on Pending the round ends when recycling does.
EmptyRound(s) == Conductor!Continue(s)

\* Pending, and recycling when it is empty.
Seek(s) ==
  /\ at[s] = "round"
  /\ Intake!Look(s) \/ Intake!RecycleTry(s) \/ Intake!recycling(s)
  /\ IF pc'[s] = "look" THEN EmptyRound(s) ELSE UNCHANGED conductorVars
  /\ UNCHANGED validating

Take(s) ==
  /\ Intake!Take(s) /\ Conductor!Take(s)
  /\ UNCHANGED validating

\* Mutant: what is refused is kept to be submitted again.
KeepRefused(s) == Conductor!SubmitRefused(s) /\ UNCHANGED <<intakeVars, validating>>

\* The pool is released, and the proxy is left to its next turn on Pending.
Refused(s) ==
  Conductor!SubmitRefused(s) /\ Intake!Submit(s) /\ UNCHANGED validating

Accepted(s) ==
  /\ Conductor!Submit(s) /\ Intake!Submit(s)
  /\ validating' = [validating EXCEPT ![sock[s]] = @ + 1]

jobSpawner(s) == Outer(s) \/ Seek(s) \/ Take(s) \/ Refused(s) \/ Accepted(s)

\* Mutant: done for another proxy than the one it was begun for.
DoneForAny(p) ==
  /\ Conductor!ValidateDone
  /\ validating' = [validating EXCEPT ![p] = @ - 1]
  /\ UNCHANGED intakeVars

\* Of no proxy, with recycling off, validate returns at once.
ValidateDone(p) ==
  /\ validating[p] > 0
  /\ Conductor!ValidateDone
  /\ validating' = [validating EXCEPT ![p] = @ - 1]
  /\ UNCHANGED intakeVars

Next ==
  \/ \E c \in Callers : Api(c)
  \/ \E l \in Loaders : load(l)
  \/ Users \/ recycleTimer
  \/ \E s \in Spawners : jobSpawner(s)
  \/ \E p \in Proxies \cup {NoProxy} : ValidateDone(p)

Spec == Init /\ [][Next]_vars

(***************************************************************************)
(* As in the two: goroutines and calls that have begun go on, ticks keep   *)
(* coming, and validations end.  Nobody has to call or to load.            *)
(***************************************************************************)
Fairness ==
  /\ \A c \in Callers : WF_vars(call(c))
  /\ \A s \in Spawners : WF_vars(jobSpawner(s))
  /\ \A l \in Loaders : WF_vars(load(l))
  /\ \A p \in Proxies \cup {NoProxy} : WF_vars(ValidateDone(p))
  /\ WF_vars(recycleTimer)

FairSpec == Spec /\ Fairness

-----------------------------------------------------------------------------
(* What the two promise together.                                          *)

\* A spawner that a pause ends has nothing in hand, neither a proxy nor
\* recycleMu, so that the next one and the callers that dispense find recycling free.
EndsEmptyHanded ==
  \A s \in Spawners : at[s] \notin {"round", "submit"} =>
    pc[s] = "look" /\ sock[s] = NoProxy /\ recycleMu # s

\* What is queued is validated as long as the engine runs with recycling on and
\* its pool open: pauses, several spawners and refused submissions may delay
\* it, and a proxy that was loaded while the engine was paused has its turn too.
QueuedValidated ==
  \A p \in Proxies :
    p \in Intake!Queued
      ~> validating[p] > 0 \/ ~(Conductor!IsRunning /\ recycle /\ poolOpen)

\* "Pause will cease the creation of any new proxy validation operations": until
\* the next start, if any, all validations end and no spawner is left, although
\* one may have been recycling, or waiting for a worker, with more being loaded.
PausedQuiet ==
  Status = "paused" ~>
    \/ Conductor!IsRunning
    \/ Conductor!Live = {} /\ \A p \in Proxies \cup {NoProxy} : validating[p] = 0
=============================================================================

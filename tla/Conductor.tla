------------------------------ MODULE Conductor ------------------------------
(***************************************************************************)
(* Start, Pause, Resume and Close (conductor.go) and the jobSpawner        *)
(* goroutine each start makes (daemons.go).  The API calls first look at   *)
(* Status and then store it, the spawner looks at it in its loop, and      *)
(* every spawner reboots the one worker pool when it begins and releases   *)
(* it when it ends.                                                        *)
(*                                                                         *)
(* jobSpawner is two goroutines, but the outer one only waits for the      *)
(* feeding one between Reboot and Release: they are one thread here.       *)
(* Of a round of its loop matters here whether it ends in a submission or, *)
(* when Pending is empty, in a recycling or a sleep.                       *)
(***************************************************************************)
EXTENDS Naturals, FiniteSets

CONSTANTS
  Callers,    \* goroutines that use the API
  Spawners,   \* jobSpawner goroutines, the ended ones to be used again
  NoCaller,   \* p5.mu is free
  MaxWorkers  \* capacity of the pool

ASSUME ConductorAssumption ==
  /\ Callers \cap Spawners = {}
  /\ NoCaller \notin Callers
  /\ MaxWorkers \in Nat \ {0}

VARIABLES
  Status,    \* "new", "running", "paused"
  ctxDone,   \* Close has called quit
  mu,        \* the call of Close that holds p5.mu, or NoCaller
  pc,        \* where each call and each spawner is
  poolOpen,  \* the pool is not released
  busy,      \* its workers that are validating
  late       \* late[s]: what the live s has submitted in the pause that goes on

vars == <<Status, ctxDone, mu, pc, poolOpen, busy, late>>

CallerPC == {"idle", "resume", "spawn", "store", "check", "pause"}
SpawnerPC == {"none", "reboot", "loop", "round", "submit", "release"}

IsRunning == Status = "running"
Goto(t, l) == pc' = [pc EXCEPT ![t] = l]
Live == {s \in Spawners : pc[s] # "none"}

TypeOK ==
  /\ Status \in {"new", "running", "paused"}
  /\ ctxDone \in BOOLEAN
  /\ mu \in Callers \cup {NoCaller}
  /\ pc \in [Callers \cup Spawners -> CallerPC \cup SpawnerPC]
  /\ \A c \in Callers : pc[c] \in CallerPC
  /\ \A s \in Spawners : pc[s] \in SpawnerPC
  /\ mu \in Callers => pc[mu] \in {"check", "pause"}
  /\ poolOpen \in BOOLEAN
  /\ busy \in 0..MaxWorkers
  /\ late \in [Spawners -> Nat]

\* NewProxyEngine: a pool that is open, and nobody to feed it.
Init ==
  /\ Status = "new"
  /\ ctxDone = FALSE
  /\ mu = NoCaller
  /\ pc = [t \in Callers \cup Spawners |-> IF t \in Callers THEN "idle" ELSE "none"]
  /\ poolOpen = TRUE
  /\ busy = 0
  /\ late = [s \in Spawners |-> 0]

-----------------------------------------------------------------------------
(* The calls.                                                              *)

\* Start of an engine that was started before is Resume.
Start(c) ==
  /\ pc[c] = "idle"
  /\ Goto(c, IF Status = "new" THEN "spawn" ELSE "resume")
  /\ UNCHANGED <<Status, ctxDone, mu, poolOpen, busy, late>>

Resume(c) ==
  /\ pc[c] \in {"idle", "resume"}
  /\ Goto(c, IF IsRunning THEN "idle" ELSE "spawn")
  /\ UNCHANGED <<Status, ctxDone, mu, poolOpen, busy, late>>

\* startDaemons: the goroutine first, Status after it.
Spawn(c, s) ==
  /\ pc[c] = "spawn" /\ pc[s] = "none"
  /\ pc' = [pc EXCEPT ![c] = "store", ![s] = "reboot"]
  /\ UNCHANGED <<Status, ctxDone, mu, poolOpen, busy, late>>

StoreRunning(c) ==
  /\ pc[c] = "store"
  /\ Status' = "running"
  /\ late' = [s \in Spawners |-> 0]
  /\ Goto(c, "idle")
  /\ UNCHANGED <<ctxDone, mu, poolOpen, busy>>

\* Mutant: Close returns with p5.mu locked.
KeepLocked(c) == mu' = mu

\* Pause of its own, or the end of Close, which gives up p5.mu on return.
Unlock(c) == mu' = IF mu = c THEN NoCaller ELSE mu

Pause(c) ==
  /\ pc[c] \in {"idle", "check"}
  /\ \/ IsRunning /\ Goto(c, "pause") /\ UNCHANGED mu
     \/ ~IsRunning /\ Goto(c, "idle") /\ Unlock(c)
  /\ UNCHANGED <<Status, ctxDone, poolOpen, busy, late>>

StorePaused(c) ==
  /\ pc[c] = "pause"
  /\ Status' = "paused"
  /\ late' = [s \in Spawners |-> 0]
  /\ Goto(c, "idle")
  /\ Unlock(c)
  /\ UNCHANGED <<ctxDone, poolOpen, busy>>

\* Close holds p5.mu from here to the end of its Pause.
Close(c) ==
  /\ pc[c] = "idle" /\ mu = NoCaller
  /\ mu' = c
  /\ ctxDone' = TRUE
  /\ Goto(c, "check")
  /\ UNCHANGED <<Status, poolOpen, busy, late>>

call(c) ==
  \/ \E s \in Spawners : Spawn(c, s)
  \/ StoreRunning(c) \/ StorePaused(c)
  \/ pc[c] = "resume" /\ Resume(c)
  \/ pc[c] = "check" /\ Pause(c)

-----------------------------------------------------------------------------
(* jobSpawner.                                                             *)

Reboot(s) ==
  /\ pc[s] = "reboot"
  /\ poolOpen' = TRUE
  /\ Goto(s, "loop")
  /\ UNCHANGED <<Status, ctxDone, mu, busy, late>>

Look(s) ==
  /\ pc[s] = "loop"
  /\ Goto(s, IF IsRunning THEN "round" ELSE "release")
  /\ UNCHANGED <<Status, ctxDone, mu, poolOpen, busy, late>>

\* Pending has a front to submit, or nothing.
Take(s) ==
  /\ pc[s] = "round"
  /\ Goto(s, "submit")
  /\ UNCHANGED <<Status, ctxDone, mu, poolOpen, busy, late>>

Continue(s) ==
  /\ pc[s] = "round"
  /\ Goto(s, "loop")
  /\ UNCHANGED <<Status, ctxDone, mu, poolOpen, busy, late>>

\* Mutant: a batch of submissions for one look at Status.
SubmitMore(s) ==
  /\ pc[s] = "submit"
  /\ poolOpen /\ busy < MaxWorkers
  /\ busy' = busy + 1
  /\ late' = [late EXCEPT ![s] = @ + 1]
  /\ UNCHANGED <<Status, ctxDone, mu, pc, poolOpen>>

\* A proxy goes to a free worker; with none the call blocks.
Submit(s) ==
  /\ pc[s] = "submit"
  /\ poolOpen /\ busy < MaxWorkers
  /\ busy' = busy + 1
  /\ late' = [late EXCEPT ![s] = IF IsRunning THEN 0 ELSE @ + 1]
  /\ Goto(s, "loop")
  /\ UNCHANGED <<Status, ctxDone, mu, poolOpen>>

\* Mutant: a refused proxy is submitted again, without a look at Status.
SubmitAgain(s) ==
  /\ pc[s] = "submit"
  /\ ~poolOpen
  /\ UNCHANGED vars

\* A released pool refuses, the blocked calls included.
SubmitRefused(s) ==
  /\ pc[s] = "submit"
  /\ ~poolOpen
  /\ Goto(s, "loop")
  /\ UNCHANGED <<Status, ctxDone, mu, poolOpen, busy, late>>

\* Mutant: the spawner ends without the release.
EndOnly(s) ==
  /\ pc[s] = "release"
  /\ Goto(s, "none")
  /\ UNCHANGED <<Status, ctxDone, mu, poolOpen, busy, late>>

Release(s) ==
  /\ pc[s] = "release"
  /\ poolOpen' = FALSE
  /\ late' = [late EXCEPT ![s] = 0]
  /\ Goto(s, "none")
  /\ UNCHANGED <<Status, ctxDone, mu, busy>>

jobSpawner(s) ==
  \/ Reboot(s) \/ Look(s) \/ Take(s) \/ Continue(s)
  \/ Submit(s) \/ SubmitRefused(s) \/ Release(s)

\* A validation ends, in a released pool as well.
ValidateDone ==
  /\ busy > 0
  /\ busy' = busy - 1
  /\ UNCHANGED <<Status, ctxDone, mu, pc, poolOpen, late>>

Next ==
  \/ \E c \in Callers : Start(c) \/ Resume(c) \/ Pause(c) \/ Close(c) \/ call(c)
  \/ \E s \in Spawners : jobSpawner(s)
  \/ ValidateDone

Spec == Init /\ [][Next]_vars

(***************************************************************************)
(* Goroutines keep running and a call, once made, goes on; nobody has to   *)
(* call anything.  ValidateDone is fair where checks are answered.         *)
(***************************************************************************)
Fairness ==
  /\ \A c \in Callers : WF_vars(call(c))
  /\ \A s \in Spawners : WF_vars(jobSpawner(s))
  /\ WF_vars(ValidateDone)

FairSpec == Spec /\ Fairness

-----------------------------------------------------------------------------
(* What the conductor promises.                                            *)

NoCall == \A c \in Callers : pc[c] = "idle"

\* The pool is open only while a spawner is there to feed it and to release it
\* in the end, however starts and pauses overlap.
PoolOwned == poolOpen => Status = "new" \/ Live # {}

\* "Pause will cease the creation of any new proxy validation operations": a
\* spawner that has not seen the pause yet submits one more proxy at most.
OneLate == \A s \in Spawners : late[s] <= 1

\* A pause that is not followed by a start gives the workers back and ends all
\* spawners, of however many starts they have piled up, and although some may
\* have been waiting for a free worker when it came.
PauseReleases == Status = "paused" ~> IsRunning \/ (Live = {} /\ ~poolOpen)

\* "You will be able to start the proxy pool again with ProxyEngine.Resume()":
\* once the calls are over and the spawners feed, there is a pool to feed.
ResumedPoolOpen ==
  NoCall /\ IsRunning /\ Live # {}
    /\ (\A s \in Live : pc[s] \in {"loop", "round", "submit"}) => poolOpen
=============================================================================

------------------------------- MODULE Intake -------------------------------
(***************************************************************************)
(* How proxies get to the validation workers: loading (list_management.go) *)
(* puts them in proxyMap and on Pending, the job spawner (daemons.go) goes *)
(* round Pending, and recycling puts the whole map on it once more, called *)
(* by the spawner and by consumers that find no good proxy.                *)
(*                                                                         *)
(* The map and the list have locks of their own and no step takes both.    *)
(* The map is read and written by the endpoint, while Pending holds the    *)
(* proxies themselves: an endpoint that is loaded after it was removed is  *)
(* another proxy.  The spawner's Status, its scaling and what becomes of   *)
(* a submission are in Conductor, AutoScaler and ProxyPool.                *)
(***************************************************************************)
EXTENDS Naturals, Sequences, FiniteSets, SequencesExt

CONSTANTS
  Endpoints,
  Proxies,       \* bound: the proxies made for them, one for each new entry
  NoProxy,
  Loaders,       \* goroutines that load
  Spawners,      \* jobSpawner goroutines
  Consumers,     \* goroutines that dispense, and recycle on the way
  NoHolder,      \* recycleMu is free
  PendingBound   \* bound: on a longer Pending nothing is loaded or recycled

ASSUME IntakeAssumption ==
  /\ NoProxy \notin Proxies
  /\ NoHolder \notin Spawners \cup Consumers
  /\ Loaders \cap Spawners = {} /\ Loaders \cap Consumers = {}
  /\ Spawners \cap Consumers = {}
  /\ PendingBound \in Nat

VARIABLES
  plot,       \* plot[e]: the proxy of proxyMap under e, or NoProxy
  endpoint,   \* endpoint[p], for the proxies made so far
  Pending,
  recycle,    \* opt.recycle
  tick,       \* recycleTimer.C holds a tick
  recycleMu,
  pc,
  sock,       \* sock[t]: the proxy a loader or a spawner has in hand
  todo        \* todo[t]: the snapshot of the map still to be put on Pending

mapVars == <<plot, endpoint>>
recycleVars == <<recycleMu, tick, todo>>
vars == <<mapVars, recycleVars, Pending, recycle, pc, sock>>

Recyclers == Spawners \cup Consumers
Threads == Loaders \cup Recyclers
Made == {p \in Proxies : endpoint[p] \in Endpoints}
Mapped == {plot[e] : e \in Endpoints} \ {NoProxy}
Queued == ToSet(Pending)

Goto(t, l) == pc' = [pc EXCEPT ![t] = l]

TypeOK ==
  /\ plot \in [Endpoints -> Proxies \cup {NoProxy}]
  /\ endpoint \in [Proxies -> Endpoints \cup {"none"}]
  /\ \A e \in Endpoints : plot[e] # NoProxy => endpoint[plot[e]] = e
  /\ Pending \in Seq(Proxies) /\ Queued \subseteq Made
  /\ recycle \in BOOLEAN /\ tick \in BOOLEAN
  /\ recycleMu \in Recyclers \cup {NoHolder}
  /\ pc \in [Threads -> {"idle", "get", "queue", "look", "take", "submit",
                         "recycle", "check", "collect", "add"}]
  /\ \A t \in Recyclers : pc[t] \in {"check", "collect", "add"} <=> recycleMu = t
  /\ sock \in [Loaders \cup Spawners -> Made \cup {NoProxy}]
  /\ todo \in [Recyclers -> SUBSET Made]

Init ==
  /\ plot = [e \in Endpoints |-> NoProxy]
  /\ endpoint = [p \in Proxies |-> "none"]
  /\ Pending = <<>>
  /\ recycle = TRUE /\ tick = FALSE
  /\ recycleMu = NoHolder
  /\ pc = [t \in Threads |-> IF t \in Spawners THEN "look" ELSE "idle"]
  /\ sock = [t \in Loaders \cup Spawners |-> NoProxy]
  /\ todo = [t \in Recyclers |-> {}]

-----------------------------------------------------------------------------
(* Loading.                                                                *)

\* SetIfAbsent: a new proxy goes into the map unless e has one.
LoadSet(l, e) ==
  /\ pc[l] = "idle" /\ Len(Pending) < PendingBound
  /\ \/ /\ plot[e] = NoProxy
        /\ \E p \in Proxies \ Made :
             /\ plot' = [plot EXCEPT ![e] = p]
             /\ endpoint' = [endpoint EXCEPT ![p] = e]
             /\ sock' = [sock EXCEPT ![l] = p]
     \/ /\ plot[e] # NoProxy
        /\ sock' = [sock EXCEPT ![l] = plot[e]]
        /\ UNCHANGED <<plot, endpoint>>
  /\ Goto(l, "get")
  /\ UNCHANGED <<recycleVars, Pending, recycle>>

\* Get: whatever is in the map by now, and an error if there is nothing.
LoadGet(l) ==
  /\ pc[l] = "get"
  /\ LET p == plot[endpoint[sock[l]]]
     IN  /\ sock' = [sock EXCEPT ![l] = p]
         /\ Goto(l, IF p = NoProxy THEN "idle" ELSE "queue")
  /\ UNCHANGED <<mapVars, recycleVars, Pending, recycle>>

LoadQueue(l) ==
  /\ pc[l] = "queue"
  /\ Pending' = Append(Pending, sock[l])
  /\ sock' = [sock EXCEPT ![l] = NoProxy]
  /\ Goto(l, "idle")
  /\ UNCHANGED <<mapVars, recycleVars, recycle>>

loadSingleProxy(l) == LoadGet(l) \/ LoadQueue(l)

-----------------------------------------------------------------------------
(* Removal.                                                                *)

\* stillGood of a proxy that is marked bad too often, one that has been on
\* Pending: whatever is under its endpoint leaves the map.
Delete(p) ==
  /\ p \in Queued /\ recycle
  /\ plot' = [plot EXCEPT ![endpoint[p]] = NoProxy]
  /\ UNCHANGED <<endpoint, recycleVars, Pending, recycle, pc, sock>>

\* Mutant: Pending is cleared too.
ClearBoth ==
  /\ plot' = [e \in Endpoints |-> NoProxy]
  /\ Pending' = <<>>
  /\ UNCHANGED <<endpoint, recycleVars, recycle, pc, sock>>

\* The map is cleared one endpoint after the other, of those it had at first;
\* here it is one step.
ClearSOCKSList ==
  /\ plot' = [e \in Endpoints |-> NoProxy]
  /\ UNCHANGED <<endpoint, recycleVars, Pending, recycle, pc, sock>>

SetRecycling(b) ==
  /\ recycle' = b
  /\ UNCHANGED <<mapVars, recycleVars, Pending, pc, sock>>

-----------------------------------------------------------------------------
(* Recycling.  A spawner then goes back to look, a consumer to its caller. *)

Back(t) == IF t \in Spawners THEN "look" ELSE "idle"

\* Mutant: it leaves with recycleMu locked.
LeaveKeeping(t) == Goto(t, Back(t)) /\ UNCHANGED recycleMu

Leave(t) == Goto(t, Back(t)) /\ recycleMu' = NoHolder

Tick ==
  /\ ~tick /\ Len(Pending) < PendingBound
  /\ tick' = TRUE
  /\ UNCHANGED <<mapVars, recycleMu, todo, Pending, recycle, pc, sock>>

\* TryLock: a second caller leaves.
RecycleTry(t) ==
  /\ pc[t] = IF t \in Spawners THEN "recycle" ELSE "idle"
  /\ \/ recycleMu = NoHolder /\ recycleMu' = t /\ Goto(t, "check")
     \/ recycleMu # NoHolder /\ Goto(t, Back(t)) /\ UNCHANGED recycleMu
  /\ UNCHANGED <<mapVars, tick, todo, Pending, recycle, sock>>

\* Switched on, something in the map, and a tick to be had.
RecycleCheck(t) ==
  /\ pc[t] = "check"
  /\ \/ /\ recycle /\ Mapped # {} /\ tick
        /\ tick' = FALSE
        /\ Goto(t, "collect")
        /\ UNCHANGED recycleMu
     \/ /\ ~(recycle /\ Mapped # {} /\ tick)
        /\ Leave(t)
        /\ UNCHANGED tick
  /\ UNCHANGED <<mapVars, todo, Pending, recycle, sock>>

\* IterBuffered takes its snapshot before anything is put on Pending, and
\* gives it in no particular order, shuffled or not.
RecycleCollect(t) ==
  /\ pc[t] = "collect"
  /\ todo' = [todo EXCEPT ![t] = Mapped]
  /\ Goto(t, "add")
  /\ UNCHANGED <<mapVars, recycleMu, tick, Pending, recycle, sock>>

RecycleAdd(t) ==
  /\ pc[t] = "add"
  /\ \E p \in todo[t] :
       /\ Pending' = Append(Pending, p)
       /\ todo' = [todo EXCEPT ![t] = @ \ {p}]
  /\ UNCHANGED <<mapVars, recycleMu, tick, recycle, pc, sock>>

RecycleDone(t) ==
  /\ pc[t] = "add" /\ todo[t] = {}
  /\ Leave(t)
  /\ UNCHANGED <<mapVars, tick, todo, Pending, recycle, sock>>

recycling(t) ==
  RecycleCheck(t) \/ RecycleCollect(t) \/ RecycleAdd(t) \/ RecycleDone(t)

-----------------------------------------------------------------------------
(* jobSpawner.                                                             *)

\* The length is read under the read lock, the front taken under the other.
Look(s) ==
  /\ pc[s] = "look"
  /\ Goto(s, IF Pending = <<>> THEN "recycle" ELSE "take")
  /\ UNCHANGED <<mapVars, recycleVars, Pending, recycle, sock>>

\* Mutants: the front is taken off the list; the front stays where it is.
TakeOff(s) ==
  /\ pc[s] = "take"
  /\ IF recycle
     THEN /\ Pending' = Tail(Pending)
          /\ sock' = [sock EXCEPT ![s] = Head(Pending)]
     ELSE UNCHANGED <<Pending, sock>>
  /\ Goto(s, "submit")
  /\ UNCHANGED <<mapVars, recycleVars, recycle>>
TakeStay(s) ==
  /\ pc[s] = "take"
  /\ IF recycle THEN sock' = [sock EXCEPT ![s] = Head(Pending)] ELSE UNCHANGED sock
  /\ Goto(s, "submit")
  /\ UNCHANGED <<mapVars, recycleVars, Pending, recycle>>

\* MoveToBack, and with recycling off no proxy at all.
Take(s) ==
  /\ pc[s] = "take"
  /\ IF recycle
     THEN /\ Pending' = Append(Tail(Pending), Head(Pending))
          /\ sock' = [sock EXCEPT ![s] = Head(Pending)]
     ELSE UNCHANGED <<Pending, sock>>
  /\ Goto(s, "submit")
  /\ UNCHANGED <<mapVars, recycleVars, recycle>>

\* Accepted, refused, or nothing to validate: the loop goes on.
Submit(s) ==
  /\ pc[s] = "submit"
  /\ sock' = [sock EXCEPT ![s] = NoProxy]
  /\ Goto(s, "look")
  /\ UNCHANGED <<mapVars, recycleVars, Pending, recycle>>

jobSpawner(s) == Look(s) \/ Take(s) \/ Submit(s) \/ RecycleTry(s) \/ recycling(s)

Next ==
  \/ \E l \in Loaders : loadSingleProxy(l) \/ \E e \in Endpoints : LoadSet(l, e)
  \/ \E p \in Proxies : Delete(p)
  \/ ClearSOCKSList \/ Tick \/ \E b \in BOOLEAN : SetRecycling(b)
  \/ \E t \in Consumers : RecycleTry(t) \/ recycling(t)
  \/ \E s \in Spawners : jobSpawner(s)

Spec == Init /\ [][Next]_vars

(***************************************************************************)
(* The engine runs and its pool takes work: spawners loop, and a load or a *)
(* recycling that has begun goes on.  Nobody has to load or to dispense.   *)
(***************************************************************************)
Fairness ==
  /\ \A s \in Spawners : WF_vars(jobSpawner(s))
  /\ \A l \in Loaders : WF_vars(loadSingleProxy(l))
  /\ \A t \in Consumers : WF_vars(recycling(t))
  /\ WF_vars(Tick)

FairSpec == Spec /\ Fairness

-----------------------------------------------------------------------------
(* What the intake promises.                                               *)

\* Between the two locks Pending may change in every way but become empty:
\* there is a front for the spawner that has seen one.
FrontThere == \A s \in Spawners : pc[s] = "take" => Pending # <<>>

\* A proxy in the map is on Pending, or a loader is about to put it there, for
\* the map alone is only looked at again by chance.
MappedQueued ==
  \A p \in Mapped : p \in Queued \/ \E l \in Loaders : sock[l] = p

\* Why: a loader has what it has put or found in the map in hand until it is
\* queued.
LoaderInv ==
  \A l \in Loaders :
    /\ pc[l] \in {"idle", "get", "queue"}
    /\ pc[l] = "idle" <=> sock[l] = NoProxy

\* However much is loaded and recycled behind it, the spawners come round to
\* every proxy on Pending while recycling stays on.
QueuedTaken ==
  \A p \in Proxies :
    p \in Queued ~> ~recycle \/ \E s \in Spawners : sock[s] = p
=============================================================================

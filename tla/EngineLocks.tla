----------------------------- MODULE EngineLocks -----------------------------
(***************************************************************************)
(* The locks of the engine: p5.mu, the lock of the options (opt), the      *)
(* package's debugHardLock, the lock of Pending and recycleMu, in the      *)
(* order the setters, the getters, the debug output, Close and the job     *)
(* spawner take them (setters.go, getters.go, debug.go, conductor.go,      *)
(* daemons.go).  A call is the sequence of steps it takes on them, and a   *)
(* goroutine is what is left of its call.                                  *)
(*                                                                         *)
(* The locks are Go's: an RWMutex whose writer has announced itself lets   *)
(* no reader in, and leaving it lets in the readers that came meanwhile    *)
(* before the next writer.  Of the options only who reads and who writes   *)
(* them matters, those that are always treated alike being one.            *)
(***************************************************************************)
EXTENDS Naturals, Sequences, FiniteSets

CONSTANTS
  Threads,    \* goroutines that use the engine or belong to it
  NoThread,
  CallsOf,    \* CallsOf[t]: the calls t may make
  NewLoggers, \* what SetLogger may be given: "custom", "asking"
  ChanCap     \* capacity of the debug channel

ASSUME LocksAssumption ==
  /\ NoThread \notin Threads
  /\ NewLoggers \subseteq {"custom", "asking"}
  /\ ChanCap \in Nat \ {0}

VARIABLES
  todo,     \* todo[t]: the steps left of the call t is in
  closing,  \* who is in Close
  readers,  \* readers[l]: who has read-locked l
  waiting,  \* waiting[l]: who came to read it after a writer
  writer,   \* writer[l]: the announced writer, or NoThread
  inside,   \* inside[l]: it has the lock
  debugOn,  \* debugStatus = debugEnabled
  logger,   \* DebugLogger: the default one, silent or with a channel, or another
  backlog   \* messages in the debug channel

lockVars == <<readers, waiting, writer, inside>>
debugVars == <<debugOn, logger, backlog>>
vars == <<todo, closing, lockVars, debugVars>>

Locks == {"mu", "opt", "debug", "pending", "recycle"}
Options == {"agents", "timeouts", "stale", "policies", "switches", "recycle",
            "middleware", "logger"}

-----------------------------------------------------------------------------
(* The steps of a call.                                                    *)

RLock(l) == [do |-> "RLock", on |-> l]
RUnlock(l) == [do |-> "RUnlock", on |-> l]
Lock(l) == [do |-> "Lock", on |-> l]
Unlock(l) == [do |-> "Unlock", on |-> l]
TryLock(l) == [do |-> "TryLock", on |-> l]
Read(o) == [do |-> "Read", on |-> o]
Write(o) == [do |-> "Write", on |-> o]
Debug(b) == [do |-> "Debug", on |-> b]
IfDebug(n) == [do |-> "IfDebug", on |-> n]
Printf == [do |-> "Printf", on |-> "logger"]

Steps ==
  [do : {"RLock", "RUnlock", "Lock", "Unlock", "TryLock"}, on : Locks]
    \cup [do : {"Read", "Write", "Printf"}, on : Options]
    \cup [do : {"Debug"}, on : BOOLEAN] \cup [do : {"IfDebug"}, on : Nat]

Locked(l, s) == <<Lock(l)>> \o s \o <<Unlock(l)>>
RLocked(l, s) == <<RLock(l)>> \o s \o <<RUnlock(l)>>

(***************************************************************************)
(* The debug output.  debugStatus is stored without the lock it is loaded  *)
(* under, so that it might as well be loaded after it.                     *)
(***************************************************************************)
DebugEnabled == RLocked("debug", <<>>)
dbgPrint == DebugEnabled \o <<IfDebug(1), Printf>>
GetDebugRedactStatus == RLocked("mu", <<Read("switches")>>)
Unannounced(s) == DebugEnabled \o <<IfDebug(Len(s))>> \o s

\* The msg functions look at the switch, at the redaction and print.
msgUsingProxy == Unannounced(GetDebugRedactStatus \o dbgPrint)
announceDial == <<Read("switches")>> \o dbgPrint
msgUnableToReach == Unannounced(announceDial)

EnableDebug == <<Debug(TRUE)>> \o dbgPrint
DisableDebug == <<Debug(FALSE)>>

SetLogger == Locked("debug", Locked("mu", <<Write("logger")>>)) \o <<Printf>>
SetAndEnableDebugLogger == SetLogger \o EnableDebug

\* Mutants: the list of user agents under the lock of the options; a setter
\* that logs before it unlocks; a getter that returns without unlocking.
SetAgentsUnderOpt == Locked("opt", <<Write("agents")>>) \o <<Printf>>
SetMiddlewareLogging == Locked("mu", <<Write("middleware"), Printf>>)
GetAgentsLocked == <<RLock("mu"), Read("agents")>>

(***************************************************************************)
(* The setters and getters.                                                *)
(***************************************************************************)
GetStatistics == RLocked("mu", <<>>)
SetAgents == Locked("mu", <<Write("agents")>>) \o <<Printf>>
SetMiddleware == Locked("mu", <<Write("middleware")>>) \o <<Printf>>
SetStaleTime == Locked("opt", <<Write("stale")>>) \o <<Printf>>
SetTimeouts == Locked("opt", <<Write("timeouts")>>) \o <<Printf>>
SetRecycling == Locked("opt", <<Write("recycle")>>) \o <<Printf>>
SetPolicies == Locked("opt", <<Write("policies")>>) \o <<Printf>>
SetSwitches == Locked("opt", <<Write("switches")>>) \o <<Printf>>
SetMaxWorkers == {GetStatistics, GetStatistics \o <<Printf>>}
SetScaler == <<Printf>>

GetAgents == RLocked("mu", <<Read("agents")>>)
GetTimeouts == RLocked("opt", <<Read("timeouts")>>)
GetStaleTime == RLocked("opt", <<Read("stale")>>)
GetRecyclingStatus == RLocked("opt", <<Read("recycle")>>)
GetRemoveAfter == RLocked("mu", <<Read("recycle"), Read("policies")>>)
GetDialerBailout == RLocked("mu", <<Read("policies")>>)
GetDispenseMiddleware == RLocked("mu", <<Read("middleware")>>)
GetSwitches == RLocked("mu", <<Read("switches")>>)

-----------------------------------------------------------------------------
(* The calls that hold one lock and wait for another.                      *)

\* Close holds p5.mu to the end of its Pause, which says so if the engine runs.
Pause == {dbgPrint, <<>>}
Close == {Locked("mu", s) : s \in Pause}

\* Mutant: the status is read inside the section that queues the map.
RecycleInside ==
  <<TryLock("recycle")>> \o RLocked("opt", <<Read("recycle")>> \o Locked("pending", <<>>))
    \o <<Unlock("recycle")>>

\* recycling that is off, or has no tick, and one that puts the map on Pending.
recycleNone == <<TryLock("recycle")>> \o GetRecyclingStatus \o <<Unlock("recycle")>>
recycling ==
  <<TryLock("recycle")>> \o GetRecyclingStatus \o GetSwitches \o Locked("pending", <<>>)
    \o <<Unlock("recycle")>>

\* A round of jobSpawner, with nothing on Pending or with something, whose
\* status of recycling it asks for while it holds Pending.
jobSpawner ==
  {RLocked("pending", <<>>) \o s :
     s \in {recycleNone, recycling \o dbgPrint,
            Locked("pending", GetRecyclingStatus) \o GetStatistics \o dbgPrint}}

\* Recycling off or on, and a proxy that is stale.
stillGood ==
  {GetRemoveAfter \o s : s \in {<<Read("stale")>>,
                               GetRemoveAfter \o <<Read("stale")>> \o dbgPrint}}

\* A dial that succeeds at once.
mysteryDialer ==
  announceDial \o GetStatistics \o GetTimeouts \o GetDialerBailout
    \o GetRemoveAfter \o <<Read("stale"), Read("middleware")>> \o msgUsingProxy

\* What each call may do.
Script ==
  [EnableDebug |-> {EnableDebug}, DisableDebug |-> {DisableDebug},
   SetLogger |-> {SetLogger, SetAndEnableDebugLogger},
   SetUnderMu |-> {SetAgents, SetMiddleware},
   SetUnderOpt |-> {SetStaleTime, SetTimeouts, SetRecycling, SetPolicies, SetSwitches},
   SetMaxWorkers |-> SetMaxWorkers, SetScaler |-> {SetScaler},
   Get |-> {GetAgents, GetTimeouts, GetStaleTime, GetRecyclingStatus,
            GetDispenseMiddleware},
   Message |-> {msgUnableToReach},
   Close |-> Close, Pause |-> Pause,
   Recycle |-> {recycleNone, recycling}, Spawn |-> jobSpawner,
   Dispense |-> stillGood, Dial |-> {mysteryDialer}]

ASSUME CallsAssumption == CallsOf \in [Threads -> SUBSET DOMAIN Script]

-----------------------------------------------------------------------------

Now(t) == Head(todo[t])
At(t, kind) == todo[t] # <<>> /\ Now(t).do = kind
Done(t) == todo' = [todo EXCEPT ![t] = Tail(@)]

TypeOK ==
  /\ todo \in [Threads -> Seq(Steps)]
  /\ closing \in SUBSET {t \in Threads : todo[t] # <<>>}
  /\ readers \in [Locks -> SUBSET Threads]
  /\ waiting \in [Locks -> SUBSET Threads]
  /\ writer \in [Locks -> Threads \cup {NoThread}]
  /\ inside \in [Locks -> BOOLEAN]
  /\ \A l \in Locks : inside[l] => writer[l] # NoThread
  /\ debugOn \in BOOLEAN
  /\ logger \in {"silent", "channel"} \cup NewLoggers
  /\ backlog \in 0..ChanCap

\* An engine whose user may have asked for the DebugChannel.
Init ==
  /\ todo = [t \in Threads |-> <<>>] /\ closing = {}
  /\ readers = [l \in Locks |-> {}] /\ waiting = [l \in Locks |-> {}]
  /\ writer = [l \in Locks |-> NoThread] /\ inside = [l \in Locks |-> FALSE]
  /\ debugOn = FALSE
  /\ logger \in {"silent", "channel"}
  /\ backlog = 0

Call(t) ==
  /\ todo[t] = <<>>
  /\ \E c \in CallsOf[t] : \E s \in Script[c] \ {<<>>} :
       /\ todo' = [todo EXCEPT ![t] = s]
       /\ closing' = IF c = "Close" THEN closing \cup {t} ELSE closing
  /\ UNCHANGED <<lockVars, debugVars>>

ReadLock(t) ==
  /\ At(t, "RLock")
  /\ LET l == Now(t).on
     IN  \/ /\ writer[l] = NoThread
            /\ readers' = [readers EXCEPT ![l] = @ \cup {t}]
            /\ Done(t)
            /\ UNCHANGED waiting
         \/ /\ writer[l] # NoThread /\ t \notin waiting[l]
            /\ waiting' = [waiting EXCEPT ![l] = @ \cup {t}]
            /\ UNCHANGED <<readers, todo>>
  /\ UNCHANGED <<writer, inside, debugVars>>

ReadUnlock(t) ==
  /\ At(t, "RUnlock")
  /\ readers' = [readers EXCEPT ![Now(t).on] = @ \ {t}]
  /\ Done(t)
  /\ UNCHANGED <<waiting, writer, inside, debugVars>>

\* No other writer: from here on readers have to wait.
Announce(t) ==
  /\ At(t, "Lock") /\ writer[Now(t).on] = NoThread
  /\ writer' = [writer EXCEPT ![Now(t).on] = t]
  /\ UNCHANGED <<todo, readers, waiting, inside, debugVars>>

WriteLock(t) ==
  /\ At(t, "Lock")
  /\ LET l == Now(t).on
     IN  /\ writer[l] = t /\ readers[l] = {}
         /\ inside' = [inside EXCEPT ![l] = TRUE]
  /\ Done(t)
  /\ UNCHANGED <<readers, waiting, writer, debugVars>>

\* A second caller of recycling leaves.
Try(t) ==
  /\ At(t, "TryLock")
  /\ LET l == Now(t).on
     IN  IF writer[l] = NoThread
         THEN /\ writer' = [writer EXCEPT ![l] = t]
              /\ inside' = [inside EXCEPT ![l] = TRUE]
              /\ Done(t)
         ELSE /\ todo' = [todo EXCEPT ![t] = <<>>]
              /\ UNCHANGED <<writer, inside>>
  /\ UNCHANGED <<readers, waiting, debugVars>>

\* The readers that have come since get in.
WriteUnlock(t) ==
  /\ At(t, "Unlock")
  /\ LET l == Now(t).on
     IN  /\ writer' = [writer EXCEPT ![l] = NoThread]
         /\ inside' = [inside EXCEPT ![l] = FALSE]
         /\ readers' = [readers EXCEPT ![l] = waiting[l]]
         /\ waiting' = [waiting EXCEPT ![l] = {}]
         /\ todo' = [u \in Threads |->
                       IF u \in waiting[l] \cup {t} THEN Tail(todo[u]) ELSE todo[u]]
  /\ UNCHANGED <<debugVars>>

\* An option is read or written; what matters is who may do so at once.
Access(t) ==
  /\ At(t, "Read") \/ At(t, "Write")
  /\ Done(t)
  /\ IF At(t, "Write") /\ Now(t).on = "logger"
     THEN logger' \in NewLoggers ELSE UNCHANGED logger
  /\ UNCHANGED <<lockVars, debugOn, backlog>>

Switch(t) ==
  /\ At(t, "Debug")
  /\ debugOn' = Now(t).on
  /\ Done(t)
  /\ UNCHANGED <<lockVars, logger, backlog>>

Look(t) ==
  /\ At(t, "IfDebug")
  /\ LET n == IF debugOn THEN 1 ELSE Now(t).on + 1
     IN  todo' = [todo EXCEPT ![t] = SubSeq(@, n + 1, Len(@))]
  /\ UNCHANGED <<lockVars, debugVars>>

\* Mutant: a message more than the channel has room for.
EmitOver(t) ==
  /\ At(t, "Printf")
  /\ Done(t)
  /\ backlog' = IF logger = "channel" THEN backlog + 1 ELSE backlog
  /\ UNCHANGED <<lockVars, debugOn, logger>>

\* The default logger sends to the channel of DebugChannel if there is one, and
\* waits for room; a logger like the example's asks for the statistics.
Emit(t) ==
  /\ At(t, "Printf")
  /\ CASE logger = "channel" -> /\ backlog < ChanCap
                                /\ backlog' = backlog + 1
                                /\ Done(t)
       [] logger = "asking"  -> /\ todo' = [todo EXCEPT ![t] = GetStatistics \o Tail(@)]
                                /\ UNCHANGED backlog
       [] OTHER              -> Done(t) /\ UNCHANGED backlog
  /\ UNCHANGED <<lockVars, debugOn, logger>>

\* A goroutine with no step left has returned.
Returns == closing' = {t \in closing : todo'[t] # <<>>}

step(t) ==
  /\ \/ ReadLock(t) \/ ReadUnlock(t) \/ Announce(t) \/ WriteLock(t) \/ Try(t)
     \/ WriteUnlock(t) \/ Access(t) \/ Switch(t) \/ Look(t) \/ Emit(t)
  /\ Returns

\* The user of the DebugChannel takes a message.
Receive ==
  /\ backlog > 0
  /\ backlog' = backlog - 1
  /\ UNCHANGED <<todo, closing, lockVars, debugOn, logger>>

Next == \/ \E t \in Threads : Call(t) \/ step(t)
        \/ Receive

Spec == Init /\ [][Next]_vars

(***************************************************************************)
(* Goroutines run.  A step that is disabled now and then is one that waits *)
(* for a mutex or for room in a channel, and Go serves both in the order   *)
(* of waiting (sync.Mutex's starvation mode, the channel's queue), hence   *)
(* strong fairness.  The messages are pulled, as the doc of DebugChannel   *)
(* asks.  Nobody has to call.                                              *)
(***************************************************************************)
FairSpec == Spec /\ WF_vars(Receive) /\ \A t \in Threads : SF_vars(step(t))

-----------------------------------------------------------------------------
(* What the locks are for.                                                 *)

Holds(t, l) == t \in readers[l] \/ (writer[l] = t /\ inside[l])

\* Where two goroutines are at one option at once and one of them writes it.
Races(o) ==
  \E t, u \in Threads :
    /\ t # u /\ At(t, "Write") /\ Now(t).on = o
    /\ (At(u, "Write") \/ At(u, "Read")) /\ Now(u).on = o

WriteRaces(o) ==
  \E t, u \in Threads :
    /\ t # u /\ At(t, "Write") /\ At(u, "Write")
    /\ Now(t).on = o /\ Now(u).on = o

\* "modified and accessed later through concurrent safe getters and setters":
\* no two setters of an option are ever in it together, and no getter is with a
\* setter for the options that both guard by the same lock.
GuardedOptions ==
  /\ \A o \in Options : ~WriteRaces(o)
  /\ ~Races("agents") /\ ~Races("timeouts")

\* The order in which locks are taken, and logging before all of them.
Rank == [none |-> 0, recycle |-> 1, pending |-> 2, opt |-> 3, debug |-> 3, mu |-> 4]
WaitsFor(t) ==
  CASE At(t, "Lock") \/ At(t, "RLock") -> Now(t).on
    [] At(t, "Printf") -> "none"

\* A goroutine with a lock only waits for later ones, and never logs, which may
\* wait for a reader of the channel or for p5.mu.  Close alone does otherwise:
\* it logs with p5.mu, and for that takes the lock of the debug output.
LockOrder ==
  \A t \in Threads, l \in Locks :
    /\ Holds(t, l)
    /\ At(t, "Lock") \/ At(t, "RLock") \/ At(t, "Printf")
    => \/ Rank[l] < Rank[WaitsFor(t)]
       \/ t \in closing /\ l = "mu"

\* The two ways that leads to a standstill: a SetLogger that has the lock of
\* the debug output and waits for p5.mu, and a logger that asks Close for it.
Crossed ==
  \E t, u \in Threads :
    /\ t \in closing /\ Holds(t, "mu") /\ At(t, "RLock") /\ Now(t).on = "debug"
    /\ Holds(u, "debug") /\ At(u, "Lock") /\ Now(u).on = "mu"
Reentered ==
  \E t \in closing : Holds(t, "mu") /\ At(t, "RLock") /\ Now(t).on = "mu"

\* What keeps t from the lock it has come for: its writer, announced or inside,
\* or, for the announced writer, a reader.
BlockedBy(t, u) ==
  \/ At(t, "RLock") /\ t \in waiting[Now(t).on] /\ writer[Now(t).on] = u
  \/ At(t, "Lock") /\ writer[Now(t).on] = u /\ u # t
  \/ At(t, "Lock") /\ writer[Now(t).on] = t /\ u \in readers[Now(t).on]

\* No goroutines ever wait for one another in a circle, unless by one of the two.
OnlyTwoKnots ==
  \A T \in (SUBSET Threads) \ {{}} :
    (\A t \in T : \E u \in T : BlockedBy(t, u)) => Crossed \/ Reentered

\* Every call returns, unless one of the two has happened.
CallsReturn ==
  \A t \in Threads : todo[t] # <<>> ~> todo[t] = <<>> \/ Crossed \/ Reentered
=============================================================================

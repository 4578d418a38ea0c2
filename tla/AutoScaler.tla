----------------------------- MODULE AutoScaler -----------------------------
(***************************************************************************)
(* The auto scaler (internal/scaler/scaler.go): goroutines that find a     *)
(* tick of scaleTimer in scale (scale_util.go) call ScaleAnts, which       *)
(* raises and lowers the capacity of the worker pool and counts in mod how *)
(* far it is above the baseline.  Every field is an atomic of its own, so  *)
(* two calls, and the setters, interleave between the reads and writes.    *)
(*                                                                         *)
(* The totals a call is given matter by how their difference compares with *)
(* the threshold; what they are at a call is up to the rest of the engine  *)
(* and to SetThreshold.  Loads with no write of the call between them are  *)
(* one step.                                                               *)
(***************************************************************************)
EXTENDS Integers, Sequences, FiniteSets

CONSTANTS
  Scalers,    \* goroutines that call scale: job spawner, dialers
  Baseline0,  \* maxWorkers at NewAutoScaler, the capacity of the new pool
  Max0,       \* how far it scales up
  NewCaps,    \* what SetMaxWorkers may be called with
  NewMaxes,   \* what SetAutoScalerMaxScale may be called with
  MaxLimit,   \* the highest of Max0 and NewMaxes
  CapBound    \* bound: a call waits before it raises a capacity this high

ASSUME ScalerAssumption ==
  /\ IsFiniteSet(Scalers) /\ Scalers # {}
  /\ Baseline0 \in Nat \ {0} /\ Max0 \in Nat
  /\ NewCaps \subseteq Int /\ NewMaxes \subseteq Nat
  /\ MaxLimit \in {Max0} \cup NewMaxes
  /\ \A m \in {Max0} \cup NewMaxes : m <= MaxLimit
  /\ CapBound \in Nat

VARIABLES
  state,     \* "disabled", "idle", "up", "down"
  mod, Max, baseline,
  cap,       \* pool.Cap()
  pc,        \* where each call of ScaleAnts is
  step,      \* step[g]: what the call adds to mod
  try,       \* try[g]: which of its compare-and-swaps is next
  seen,      \* seen[g]: the capacity the call has read
  tuned,     \* SetMaxWorkers has tuned the pool and not yet set the baseline
  newCap,    \* to this
  asked,     \* the last size asked for, not by a call, that ants has taken
  serial     \* no call has overlapped another, or a new size of the pool

locals == <<step, try, seen>>
scalerVars == <<state, mod, Max, baseline>>
setting == <<tuned, newCap, asked>>
vars == <<scalerVars, cap, pc, locals, setting, serial>>

PC == {"out", "off", "offRead", "offTune", "offMod", "on", "setIdle", "claim",
       "mod", "read", "tune", "panicked"}

Goto(g, l) == pc' = [pc EXCEPT ![g] = l]

TypeOK ==
  /\ state \in {"disabled", "idle", "up", "down"}
  /\ mod \in Int /\ Max \in Nat /\ baseline \in Int /\ cap \in Nat \ {0}
  /\ pc \in [Scalers -> PC]
  /\ step \in [Scalers -> {-1, 1}]
  /\ try \in [Scalers -> 1..3]
  /\ seen \in [Scalers -> Nat]
  /\ tuned \in BOOLEAN /\ newCap \in Int /\ asked \in Nat \ {0}
  /\ serial \in BOOLEAN

Init ==
  /\ state = "disabled"
  /\ mod = 0 /\ Max = Max0 /\ baseline = Baseline0 /\ cap = Baseline0
  /\ pc = [g \in Scalers |-> "out"]
  /\ step = [g \in Scalers |-> 1] /\ try = [g \in Scalers |-> 1]
  /\ seen = [g \in Scalers |-> 0]
  /\ tuned = FALSE /\ newCap = 0 /\ asked = Baseline0 /\ serial = TRUE

-----------------------------------------------------------------------------
(* ScaleAnts.                                                              *)

\* Mutant: any size is taken.
TuneAny(n) == cap' = n

\* ants: a size that is not positive changes nothing.
Tune(n) == cap' = IF n > 0 THEN n ELSE cap

NoCall == \A g \in Scalers : pc[g] = "out"

\* scale got a tick; a negative mod panics.
Enter(g) ==
  /\ pc[g] = "out"
  /\ Goto(g, IF mod < 0 THEN "panicked"
             ELSE IF state = "disabled" THEN "off" ELSE "on")
  /\ serial' = (serial /\ NoCall)
  /\ UNCHANGED <<scalerVars, cap, locals, setting>>

\* Off: back towards the baseline, one worker a call.
OffLook(g) ==
  /\ pc[g] = "off"
  /\ Goto(g, IF mod > 0 /\ cap > baseline THEN "offRead" ELSE "out")
  /\ UNCHANGED <<scalerVars, cap, locals, setting, serial>>

ReadCap(g) ==
  /\ pc[g] \in {"offRead", "read"}
  /\ pc[g] = "read" /\ step[g] = 1 => cap < CapBound
  /\ seen' = [seen EXCEPT ![g] = cap]
  /\ Goto(g, IF pc[g] = "read" THEN "tune" ELSE "offTune")
  /\ UNCHANGED <<scalerVars, cap, step, try, setting, serial>>

OffTune(g) ==
  /\ pc[g] = "offTune"
  /\ Tune(seen[g] - 1)
  /\ seen' = [seen EXCEPT ![g] = 0]
  /\ Goto(g, "offMod")
  /\ UNCHANGED <<scalerVars, step, try, setting, serial>>

\* Mutant: the worker taken off the pool is not taken off mod.
OffModKept(g) ==
  /\ pc[g] = "offMod"
  /\ Goto(g, "out")
  /\ UNCHANGED <<scalerVars, cap, locals, setting, serial>>

OffMod(g) ==
  /\ pc[g] = "offMod"
  /\ mod' = mod - 1
  /\ Goto(g, "out")
  /\ UNCHANGED <<state, Max, baseline, cap, locals, setting, serial>>

\* Mutant: up to and including Max.
NeedUpMutant(d) == d = "low" /\ mod <= Max

\* On: d is how validated - dispensed compares with the threshold, few says
\* that validated alone is below it.
NeedUp(d) == d = "low" /\ mod < Max

NeedDown(d) == d = "high" /\ mod > 0

Noop(d, few) ==
  /\ mod = 0
  /\ few \/ (state = "idle" /\ ~NeedUp(d) /\ ~NeedDown(d))

Decide(g) ==
  /\ pc[g] = "on"
  /\ \E d \in {"low", "even", "high"}, few \in BOOLEAN :
       /\ few => d = "low"
       /\ LET need == NeedUp(d) \/ NeedDown(d)
          IN  Goto(g, IF Noop(d, few) THEN "out"
                      ELSE IF state # "idle" /\ (~need \/ mod = 0) THEN "setIdle"
                      ELSE IF need THEN "claim" ELSE "out")
       /\ step' = [step EXCEPT ![g] = IF NeedUp(d) THEN 1 ELSE -1]
  /\ UNCHANGED <<scalerVars, cap, try, seen, setting, serial>>

SetIdle(g) ==
  /\ pc[g] = "setIdle"
  /\ state' = "idle"
  /\ Goto(g, "out")
  /\ UNCHANGED <<mod, Max, baseline, cap, locals, setting, serial>>

\* The states a call of the direction claims from, in the order it tries.
ClaimFrom(g) ==
  IF step[g] = 1 THEN <<"idle", "up", "down">> ELSE <<"up", "idle", "down">>

Claim(g) ==
  /\ pc[g] = "claim"
  /\ IF state = ClaimFrom(g)[try[g]]
     THEN /\ state' = IF step[g] = 1 THEN "up" ELSE "down"
          /\ try' = [try EXCEPT ![g] = 1]
          /\ Goto(g, "mod")
     ELSE /\ try' = [try EXCEPT ![g] = (@ % 3) + 1]
          /\ Goto(g, IF try[g] = 3 THEN "out" ELSE "claim")
          /\ UNCHANGED state
  /\ UNCHANGED <<mod, Max, baseline, cap, step, seen, setting, serial>>

AddMod(g) ==
  /\ pc[g] = "mod"
  /\ mod' = mod + step[g]
  /\ Goto(g, "read")
  /\ UNCHANGED <<state, Max, baseline, cap, locals, setting, serial>>

\* Mutant: the pool is tuned the other way.
TuneBack(g) ==
  /\ pc[g] = "tune"
  /\ Tune(seen[g] - step[g])
  /\ seen' = [seen EXCEPT ![g] = 0]
  /\ Goto(g, "out")
  /\ UNCHANGED <<scalerVars, step, try, setting, serial>>

TunePool(g) ==
  /\ pc[g] = "tune"
  /\ Tune(seen[g] + step[g])
  /\ seen' = [seen EXCEPT ![g] = 0]
  /\ Goto(g, "out")
  /\ UNCHANGED <<scalerVars, step, try, setting, serial>>

ScaleAnts(g) ==
  \/ OffLook(g) \/ ReadCap(g) \/ OffTune(g) \/ OffMod(g)
  \/ Decide(g) \/ SetIdle(g) \/ Claim(g) \/ AddMod(g) \/ TunePool(g)

-----------------------------------------------------------------------------
(* The setters.                                                            *)

Enable ==
  /\ state' = "idle"
  /\ UNCHANGED <<mod, Max, baseline, cap, pc, locals, setting, serial>>

Disable ==
  /\ state' = "disabled"
  /\ UNCHANGED <<mod, Max, baseline, cap, pc, locals, setting, serial>>

SetMax(m) ==
  /\ Max' = m
  /\ UNCHANGED <<state, mod, baseline, cap, pc, locals, setting, serial>>

\* SetMaxWorkers tunes the pool and then sets the baseline; mod stays.  Without
\* validated proxies there are two workers at least; with some, any size is set as
\* the baseline, one that ants does not take too.  Whether there are some is up to
\* the rest of the engine.  One SetMaxWorkers runs at a time.
SetMaxWorkers(n) ==
  /\ ~tuned
  /\ \E empty \in BOOLEAN :
       LET num == IF empty /\ n < 2 THEN 2 ELSE n
       IN  /\ Tune(num)
           /\ tuned' = TRUE /\ newCap' = num
           /\ asked' = IF num > 0 THEN num ELSE asked
           /\ serial' = (serial /\ (num > 0 => NoCall /\ mod = 0))
  /\ UNCHANGED <<scalerVars, pc, locals>>

SetBaseline ==
  /\ tuned
  /\ baseline' = newCap
  /\ tuned' = FALSE /\ newCap' = 0
  /\ UNCHANGED <<state, mod, Max, cap, pc, locals, asked, serial>>

Panicked == \E g \in Scalers : pc[g] = "panicked"

Next ==
  \/ \E g \in Scalers : ~Panicked /\ (Enter(g) \/ ScaleAnts(g))
  \/ ~Panicked /\ (Enable \/ Disable \/ SetBaseline)
  \/ \E m \in NewMaxes : ~Panicked /\ SetMax(m)
  \/ \E n \in NewCaps : ~Panicked /\ SetMaxWorkers(n)

Spec == Init /\ [][Next]_vars

(***************************************************************************)
(* The ticks keep coming, and with the engine running the job spawner      *)
(* calls scale over and over; a call that has begun goes on, and so does   *)
(* SetMaxWorkers.                                                          *)
(***************************************************************************)
FairSpec ==
  /\ Spec
  /\ \A g \in Scalers : WF_vars(~Panicked /\ (Enter(g) \/ ScaleAnts(g)))
  /\ WF_vars(~Panicked /\ SetBaseline)

-----------------------------------------------------------------------------
(* What the scaler promises.                                               *)

Quiet == ~tuned /\ NoCall

\* As long as one call runs at a time, and the pool is only given a new size
\* between calls and while no worker is added, it is mod workers above that size.
\* The baseline is that size, unless it is none that a pool can have.
CapTracksMod ==
  serial /\ Quiet => cap = asked + mod /\ (baseline > 0 => baseline = asked)

\* Calls that overlap each act on a mod they have read before, so each of them
\* may overshoot either limit by one, and no more than that, whatever the
\* setters do in between.
OvershootBounded ==
  /\ mod <= MaxLimit + Cardinality(Scalers) - 1
  /\ mod >= 1 - Cardinality(Scalers)

\* Why: a call that has decided to add or to take a worker, and not yet done
\* so, counts as if it had.
Ups == {g \in Scalers : step[g] = 1 /\ pc[g] \in {"claim", "mod"}}
Downs == {g \in Scalers : \/ step[g] = -1 /\ pc[g] \in {"claim", "mod"}
                          \/ pc[g] \in {"offRead", "offTune", "offMod"}}

Decided ==
  /\ Max <= MaxLimit
  /\ mod + Cardinality(Ups) <= MaxLimit + Cardinality(Scalers) - 1
  /\ mod - Cardinality(Downs) >= 1 - Cardinality(Scalers)

\* A scaler that stays disabled gives back every worker it has added, whatever
\* the baseline; after overlapping calls, or a new size while workers are added, it
\* may stop short.
DisabledReturns ==
  state = "disabled"
    ~> (mod = 0 /\ cap = asked) \/ state # "disabled" \/ ~serial
=============================================================================

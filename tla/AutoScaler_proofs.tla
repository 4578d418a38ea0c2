-------------------------- MODULE AutoScaler_proofs --------------------------
(***************************************************************************)
(* Proofs about AutoScaler, for any number of overlapping calls and any    *)
(* settings, with one SetMaxWorkers at a time: how far mod can leave its   *)
(* range, and, when calls do not overlap, what the pool has to do with it. *)
(***************************************************************************)
EXTENDS AutoScaler, FiniteSetTheorems, TLAPS

\* Any set of calls is finite and no larger than that of all of them.
LEMMA CallsCounted ==
  ASSUME NEW S \in SUBSET Scalers
  PROVE  /\ IsFiniteSet(S) /\ Cardinality(S) \in Nat
         /\ Cardinality(Scalers) \in Nat
         /\ Cardinality(S) <= Cardinality(Scalers)
<1>1. IsFiniteSet(Scalers)
  BY ScalerAssumption DEF ScalerAssumption
<1>2. IsFiniteSet(S) /\ Cardinality(S) <= Cardinality(Scalers)
  BY <1>1, FS_Subset
<1>. QED
  BY <1>1, <1>2, FS_CardinalityType

\* There is at least one goroutine that calls.
LEMMA SomeCall == Cardinality(Scalers) \in Nat \ {0}
<1>1. IsFiniteSet(Scalers) /\ Scalers # {}
  BY ScalerAssumption DEF ScalerAssumption
<1>. QED
  BY <1>1, FS_EmptySet, FS_CardinalityType

-----------------------------------------------------------------------------
(* Types.                                                                  *)

LEMMA TypeInit == Init => TypeOK
<1>. SUFFICES ASSUME Init PROVE TypeOK
  OBVIOUS
<1>1. /\ pc \in [Scalers -> PC] /\ step \in [Scalers -> {-1, 1}]
      /\ try \in [Scalers -> 1..3] /\ seen \in [Scalers -> Nat]
  BY DEF Init, PC
<1>2. Baseline0 \in Nat \ {0} /\ Max0 \in Nat
  BY ScalerAssumption DEF ScalerAssumption
<1>3. mod \in Int /\ Max \in Nat /\ baseline \in Int /\ cap \in Nat \ {0}
      /\ asked \in Nat \ {0}
  BY <1>2 DEF Init
<1>4. state = "disabled" /\ newCap = 0
  BY DEF Init
<1>5. serial \in BOOLEAN /\ tuned \in BOOLEAN
  BY Zenon DEF Init
<1>. QED
  BY <1>1, <1>3, <1>4, <1>5 DEF TypeOK

LEMMA TypeStep == TypeOK /\ [Next]_vars => TypeOK'
<1>. SUFFICES ASSUME TypeOK, [Next]_vars PROVE TypeOK'
  OBVIOUS
<1>. USE ScalerAssumption
     DEF ScalerAssumption, TypeOK, PC, Goto, Tune, scalerVars, locals, setting
<1>1. ASSUME NEW g \in Scalers, Enter(g) PROVE TypeOK'
  BY <1>1 DEF Enter
<1>2. ASSUME NEW g \in Scalers, OffLook(g) PROVE TypeOK'
  BY <1>2 DEF OffLook
<1>3. ASSUME NEW g \in Scalers, ReadCap(g) PROVE TypeOK'
  BY <1>3 DEF ReadCap
<1>4. ASSUME NEW g \in Scalers, OffTune(g) PROVE TypeOK'
  <2>1. seen[g] \in Nat /\ seen' = [seen EXCEPT ![g] = 0]
    BY <1>4 DEF OffTune
  <2>2. cap' \in Nat \ {0}
    BY <1>4, <2>1 DEF OffTune
  <2>. QED
    BY <1>4, <2>1, <2>2 DEF OffTune
<1>5. ASSUME NEW g \in Scalers, OffMod(g) PROVE TypeOK'
  BY <1>5 DEF OffMod
<1>6. ASSUME NEW g \in Scalers, Decide(g) PROVE TypeOK'
  <2>1. /\ pc' \in [Scalers -> PC] /\ step' \in [Scalers -> {-1, 1}]
    BY <1>6 DEF Decide
  <2>. QED
    BY <1>6, <2>1 DEF Decide
<1>7. ASSUME NEW g \in Scalers, SetIdle(g) PROVE TypeOK'
  BY <1>7 DEF SetIdle
<1>8. ASSUME NEW g \in Scalers, Claim(g) PROVE TypeOK'
  <2>1. try' \in [Scalers -> 1..3]
    BY <1>8 DEF Claim
  <2>2. state' \in {"disabled", "idle", "up", "down"} /\ pc' \in [Scalers -> PC]
    BY <1>8 DEF Claim
  <2>. QED
    BY <1>8, <2>1, <2>2 DEF Claim
<1>9. ASSUME NEW g \in Scalers, AddMod(g) PROVE TypeOK'
  BY <1>9 DEF AddMod
<1>10. ASSUME NEW g \in Scalers, TunePool(g) PROVE TypeOK'
  <2>1. seen[g] \in Nat /\ step[g] \in {-1, 1} /\ seen' = [seen EXCEPT ![g] = 0]
    BY <1>10 DEF TunePool
  <2>2. cap' \in Nat \ {0}
    BY <1>10, <2>1 DEF TunePool
  <2>. QED
    BY <1>10, <2>1, <2>2 DEF TunePool
<1>11. CASE Enable
  BY <1>11 DEF Enable
<1>12. CASE Disable
  BY <1>12 DEF Disable
<1>13. CASE SetBaseline
  <2>1. tuned' \in BOOLEAN
    BY <1>13, Zenon DEF SetBaseline
  <2>. QED
    BY <1>13, <2>1 DEF SetBaseline
<1>14. ASSUME NEW m \in NewMaxes, SetMax(m) PROVE TypeOK'
  BY <1>14 DEF SetMax
<1>15. ASSUME NEW n \in NewCaps, SetMaxWorkers(n) PROVE TypeOK'
  <2>1. PICK num \in Int :
          /\ cap' = (IF num > 0 THEN num ELSE cap) /\ newCap' = num
          /\ asked' = (IF num > 0 THEN num ELSE asked)
    BY <1>15 DEF SetMaxWorkers
  <2>2. cap' \in Nat \ {0} /\ asked' \in Nat \ {0} /\ newCap' \in Int
    BY <2>1
  <2>3. serial' \in BOOLEAN
    BY <1>15, Zenon DEF SetMaxWorkers
  <2>. QED
    BY <1>15, <2>2, <2>3 DEF SetMaxWorkers
<1>16. CASE UNCHANGED vars
  BY <1>16 DEF vars
<1>. QED
  BY <1>1, <1>2, <1>3, <1>4, <1>5, <1>6, <1>7, <1>8, <1>9, <1>10, <1>11,
     <1>12, <1>13, <1>14, <1>15, <1>16 DEF Next, ScaleAnts

\* Every variable of the scaler keeps its type; the pool never has a capacity
\* of zero or less, for ants ignores such a size.
THEOREM TypeCorrect == Spec => []TypeOK
BY TypeInit, TypeStep, PTL DEF Spec

-----------------------------------------------------------------------------
(* The limits.                                                             *)

LEMMA DecidedInit == Init => Decided
<1>. SUFFICES ASSUME Init PROVE Decided
  OBVIOUS
<1>1. Ups = {} /\ Downs = {}
  BY DEF Init, Ups, Downs
<1>2. Cardinality({}) = 0
  BY FS_EmptySet
<1>3. MaxLimit \in Nat /\ Max0 <= MaxLimit
  BY ScalerAssumption DEF ScalerAssumption
<1>. QED
  BY <1>1, <1>2, <1>3, SomeCall DEF Init, Decided

\* A step that leaves mod alone and makes nobody else a call that has decided
\* keeps the limits.
LEMMA FewerDecided ==
  ASSUME TypeOK, Decided, TypeOK', Max' <= MaxLimit, mod' = mod,
         Ups' \subseteq Ups, Downs' \subseteq Downs
  PROVE  Decided'
<1>1. /\ Ups \in SUBSET Scalers /\ Downs \in SUBSET Scalers
      /\ Ups' \in SUBSET Ups /\ Downs' \in SUBSET Downs
  BY DEF Ups, Downs
<1>2. /\ Cardinality(Ups) \in Nat /\ Cardinality(Downs) \in Nat
      /\ IsFiniteSet(Ups) /\ IsFiniteSet(Downs) /\ Cardinality(Scalers) \in Nat
  BY <1>1, CallsCounted
<1>3. /\ Cardinality(Ups') <= Cardinality(Ups) /\ Cardinality(Ups') \in Nat
      /\ Cardinality(Downs') <= Cardinality(Downs) /\ Cardinality(Downs') \in Nat
  BY <1>1, <1>2, FS_Subset, FS_CardinalityType
<1>4. MaxLimit \in Nat /\ mod \in Int
  BY ScalerAssumption DEF ScalerAssumption, TypeOK
<1>. QED
  BY <1>2, <1>3, <1>4 DEF Decided

\* What the claim of a call decides on: mod was below Max, or above 0.
LEMMA DecideStep ==
  ASSUME TypeOK, Decided, TypeOK', NEW g \in Scalers, Decide(g)
  PROVE  Decided'
<1>. USE DEF TypeOK, Goto
<1>1. Max' = Max /\ mod' = mod /\ mod \in Int /\ Max \in Nat /\ MaxLimit \in Nat
  BY ScalerAssumption DEF ScalerAssumption, Decide, scalerVars
<1>2. /\ Ups \in SUBSET Scalers /\ Downs \in SUBSET Scalers
      /\ Ups' \in SUBSET Scalers /\ Downs' \in SUBSET Scalers
  BY DEF Ups, Downs
<1>3. PICK d \in {"low", "even", "high"} :
        /\ step' = [step EXCEPT ![g] = IF NeedUp(d) THEN 1 ELSE -1]
        /\ \/ NeedUp(d) \/ NeedDown(d)
           \/ pc' = [pc EXCEPT ![g] = "out"] \/ pc' = [pc EXCEPT ![g] = "setIdle"]
  BY DEF Decide
<1>4. pc[g] = "on" /\ \E l \in {"out", "setIdle", "claim"} : pc' = [pc EXCEPT ![g] = l]
  BY DEF Decide
<1>5. g \notin Ups /\ g \notin Downs
  BY <1>4 DEF Ups, Downs
<1>6. \A h \in Scalers \ {g} : (h \in Ups' <=> h \in Ups) /\ (h \in Downs' <=> h \in Downs)
  BY <1>3, <1>4 DEF Ups, Downs
<1>7. CASE g \notin Ups' /\ g \notin Downs'
  <2>1. Ups' \subseteq Ups /\ Downs' \subseteq Downs
    BY <1>2, <1>6, <1>7
  <2>. QED
    BY <1>1, <2>1, FewerDecided DEF Decided
<1>8. CASE g \in Ups'
  <2>1. step'[g] = 1 /\ pc'[g] \in {"claim", "mod"}
    BY <1>8 DEF Ups
  <2>2. NeedUp(d) /\ mod < Max
    BY <2>1, <1>3 DEF NeedUp
  <2>3. g \notin Downs'
    BY <2>1 DEF Downs
  <2>4. \A h \in Scalers : h \in Downs' <=> h \in Downs
    BY <1>5, <1>6, <2>3
  <2>5. Downs' = Downs
    BY <1>2, <2>4
  <2>6. /\ Cardinality(Ups') <= Cardinality(Scalers)
        /\ Cardinality(Ups') \in Nat /\ Cardinality(Scalers) \in Nat
    BY <1>2, CallsCounted
  <2>. QED
    BY <1>1, <2>2, <2>5, <2>6 DEF Decided
<1>9. CASE g \in Downs'
  <2>1. step'[g] = -1 /\ pc'[g] = "claim"
    BY <1>4, <1>9 DEF Downs
  <2>2. ~NeedUp(d) /\ NeedDown(d) /\ mod > 0
    BY <2>1, <1>3, <1>4 DEF NeedDown
  <2>3. g \notin Ups'
    BY <2>1 DEF Ups
  <2>4. \A h \in Scalers : h \in Ups' <=> h \in Ups
    BY <1>5, <1>6, <2>3
  <2>5. Ups' = Ups
    BY <1>2, <2>4
  <2>6. /\ Cardinality(Downs') <= Cardinality(Scalers)
        /\ Cardinality(Downs') \in Nat /\ Cardinality(Scalers) \in Nat
    BY <1>2, CallsCounted
  <2>. QED
    BY <1>1, <2>2, <2>5, <2>6 DEF Decided
<1>. QED
  BY <1>7, <1>8, <1>9

\* Off, mod > 0 is what the call has read before it decides to lower it.
LEMMA OffLookStep ==
  ASSUME TypeOK, Decided, TypeOK', NEW g \in Scalers, OffLook(g)
  PROVE  Decided'
<1>. USE DEF TypeOK, Goto
<1>1. /\ Max' = Max /\ mod' = mod /\ mod \in Int /\ Max \in Nat
      /\ step' = step /\ MaxLimit \in Nat
  BY ScalerAssumption DEF ScalerAssumption, OffLook, scalerVars, locals
<1>2. Downs' \in SUBSET Scalers /\ Ups' = Ups
  BY <1>1 DEF Ups, Downs, OffLook
<1>3. CASE mod > 0
  <2>1. /\ Cardinality(Downs') <= Cardinality(Scalers)
        /\ Cardinality(Downs') \in Nat /\ Cardinality(Scalers) \in Nat
    BY <1>2, CallsCounted
  <2>. QED
    BY <1>1, <1>2, <1>3, <2>1 DEF Decided
<1>4. CASE ~(mod > 0)
  <2>1. Downs' \subseteq Downs
    BY <1>1, <1>4 DEF Downs, OffLook
  <2>. QED
    BY <1>1, <1>2, <2>1, FewerDecided DEF Decided
<1>. QED
  BY <1>3, <1>4

\* A call that carries its decision out is one fewer, and mod one further.
LEMMA AddModStep ==
  ASSUME TypeOK, Decided, TypeOK', NEW g \in Scalers, AddMod(g) \/ OffMod(g)
  PROVE  Decided'
<1>. USE DEF TypeOK, Goto
<1>1. /\ Max' = Max /\ mod \in Int /\ mod' \in Int /\ MaxLimit \in Nat
      /\ step' = step /\ step[g] \in {-1, 1}
  BY ScalerAssumption DEF ScalerAssumption, AddMod, OffMod, locals
<1>2. /\ Ups \in SUBSET Scalers /\ Downs \in SUBSET Scalers
  BY DEF Ups, Downs
<1>3. /\ Cardinality(Ups) \in Nat /\ Cardinality(Downs) \in Nat
      /\ IsFiniteSet(Ups) /\ IsFiniteSet(Downs) /\ Cardinality(Scalers) \in Nat
  BY <1>2, CallsCounted
<1>4. CASE AddMod(g) /\ step[g] = 1
  <2>1. g \in Ups /\ Ups' = Ups \ {g} /\ Downs' = Downs /\ mod' = mod + 1
    BY <1>1, <1>4 DEF AddMod, Ups, Downs
  <2>2. Cardinality(Ups') = Cardinality(Ups) - 1
    BY <1>3, <2>1, FS_RemoveElement
  <2>. QED
    BY <1>1, <1>3, <2>1, <2>2 DEF Decided
<1>5. CASE OffMod(g) \/ (AddMod(g) /\ step[g] = -1)
  <2>1. g \in Downs /\ Downs' = Downs \ {g} /\ Ups' = Ups /\ mod' = mod - 1
    BY <1>1, <1>5 DEF AddMod, OffMod, Ups, Downs
  <2>2. Cardinality(Downs') = Cardinality(Downs) - 1
    BY <1>3, <2>1, FS_RemoveElement
  <2>. QED
    BY <1>1, <1>3, <2>1, <2>2 DEF Decided
<1>. QED
  BY <1>1, <1>4, <1>5

LEMMA DecidedStep == TypeOK /\ Decided /\ [Next]_vars => Decided'
<1>. SUFFICES ASSUME TypeOK, Decided, [Next]_vars PROVE Decided'
  OBVIOUS
<1>0. TypeOK'
  BY TypeStep
<1>1. ASSUME NEW g \in Scalers,
             Enter(g) \/ ReadCap(g) \/ OffTune(g) \/ SetIdle(g) \/ Claim(g) \/ TunePool(g)
      PROVE  Decided'
  <2>1. Max' = Max /\ mod' = mod /\ step' = step
    BY <1>1 DEF Enter, ReadCap, OffTune, SetIdle, Claim, TunePool, scalerVars, locals
  <2>2. CASE Enter(g) \/ SetIdle(g) \/ TunePool(g)
    <3>. QED
      BY <2>1, <2>2, <1>0, FewerDecided
      DEF Decided, Ups, Downs, Enter, SetIdle, TunePool, Goto, TypeOK
  <2>3. CASE ReadCap(g) \/ OffTune(g)
    <3>. QED
      BY <2>1, <2>3, <1>0, FewerDecided
      DEF Decided, Ups, Downs, ReadCap, OffTune, Goto, TypeOK
  <2>4. CASE Claim(g)
    <3>. QED
      BY <2>1, <2>4, <1>0, FewerDecided DEF Decided, Ups, Downs, Claim, Goto, TypeOK
  <2>. QED
    BY <1>1, <2>2, <2>3, <2>4
<1>2. ASSUME NEW g \in Scalers, OffLook(g) PROVE Decided'
  BY <1>0, <1>2, OffLookStep
<1>3. ASSUME NEW g \in Scalers, Decide(g) PROVE Decided'
  BY <1>0, <1>3, DecideStep
<1>4. ASSUME NEW g \in Scalers, AddMod(g) \/ OffMod(g) PROVE Decided'
  BY <1>0, <1>4, AddModStep
<1>5. CASE Enable \/ Disable \/ SetBaseline \/ UNCHANGED vars
  BY <1>0, <1>5, FewerDecided
  DEF Decided, Ups, Downs, Enable, Disable, SetBaseline, vars, scalerVars, locals
<1>6. ASSUME NEW m \in NewMaxes, SetMax(m) PROVE Decided'
  <2>1. m <= MaxLimit
    BY ScalerAssumption DEF ScalerAssumption
  <2>. QED
    BY <1>0, <1>6, <2>1, FewerDecided DEF Ups, Downs, SetMax, locals
<1>7. ASSUME NEW n \in NewCaps, SetMaxWorkers(n) PROVE Decided'
  BY <1>0, <1>7, FewerDecided DEF Decided, Ups, Downs, SetMaxWorkers, scalerVars, locals
<1>. QED
  BY <1>1, <1>2, <1>3, <1>4, <1>5, <1>6, <1>7 DEF Next, ScaleAnts

\* However many calls of ScaleAnts overlap, and whatever the setters do, mod
\* leaves 0..MaxLimit by less than the number of calls, on either side.
THEOREM ModStaysClose == Spec => []OvershootBounded
<1>1. TypeOK /\ Decided => OvershootBounded
  <2>. SUFFICES ASSUME TypeOK, Decided PROVE OvershootBounded
    OBVIOUS
  <2>1. Ups \in SUBSET Scalers /\ Downs \in SUBSET Scalers
    BY DEF Ups, Downs
  <2>2. /\ Cardinality(Ups) \in Nat /\ Cardinality(Downs) \in Nat
        /\ Cardinality(Scalers) \in Nat
    BY <2>1, CallsCounted
  <2>3. mod \in Int /\ MaxLimit \in Nat
    BY ScalerAssumption DEF ScalerAssumption, TypeOK
  <2>. QED
    BY <2>2, <2>3 DEF Decided, OvershootBounded
<1>. QED
  BY <1>1, TypeInit, TypeStep, DecidedInit, DecidedStep, PTL DEF Spec
-----------------------------------------------------------------------------
(* One call at a time.                                                     *)

\* What the pool lacks of asked + mod while a call is between the two.
Due(g) == CASE pc[g] = "offMod" -> -1
            [] pc[g] \in {"read", "tune"} -> -step[g]
            [] OTHER -> 0

\* Only g may be in a call.
Sole(g) ==
  /\ \A h \in Scalers \ {g} : pc[h] = "out"
  /\ cap = asked + mod + Due(g)
  /\ pc[g] \in {"offTune", "tune"} => seen[g] = cap
  /\ mod >= 0
  /\ pc[g] \in {"offRead", "offTune", "offMod"} => mod >= 1
  /\ pc[g] \in {"claim", "mod"} /\ step[g] = -1 => mod >= 1

\* The size asked for last is the baseline, or becomes it; one that no pool can
\* have is the baseline without having been asked of the pool.
AskedInv ==
  IF tuned THEN newCap > 0 => newCap = asked ELSE baseline > 0 => baseline = asked

SerialInv == AskedInv /\ (serial => \E g \in Scalers : Sole(g))

LEMMA AskedHolds == AskedInv /\ [Next]_vars => AskedInv'
<1>. SUFFICES ASSUME AskedInv, [Next]_vars PROVE AskedInv'
  OBVIOUS
<1>1. ASSUME NEW n \in NewCaps, SetMaxWorkers(n) PROVE AskedInv'
  BY <1>1 DEF SetMaxWorkers, AskedInv
<1>2. CASE SetBaseline
  BY <1>2 DEF SetBaseline, AskedInv
<1>3. CASE UNCHANGED <<tuned, newCap, asked, baseline>>
  BY <1>3 DEF AskedInv
<1>4. ASSUME NEW g \in Scalers, Enter(g) \/ ScaleAnts(g)
      PROVE  UNCHANGED <<tuned, newCap, asked, baseline>>
  BY <1>4 DEF Enter, ScaleAnts, OffLook, ReadCap, OffTune, OffMod, Decide, SetIdle,
              Claim, AddMod, TunePool, scalerVars, setting
<1>5. ASSUME Enable \/ Disable \/ UNCHANGED vars \/ \E m \in NewMaxes : SetMax(m)
      PROVE  UNCHANGED <<tuned, newCap, asked, baseline>>
  BY <1>5 DEF Enable, Disable, SetMax, vars, scalerVars, setting
<1>. QED
  BY <1>1, <1>2, <1>3, <1>4, <1>5 DEF Next

LEMMA SerialInit == Init => SerialInv
<1>. SUFFICES ASSUME Init PROVE SerialInv
  OBVIOUS
<1>1. PICK g \in Scalers : TRUE
  BY ScalerAssumption DEF ScalerAssumption
<1>2. /\ \A h \in Scalers : pc[h] = "out"
      /\ mod = 0 /\ ~tuned /\ cap = asked /\ asked = Baseline0 /\ baseline = asked
  BY DEF Init
<1>3. Sole(g)
  BY <1>1, <1>2, ScalerAssumption DEF ScalerAssumption, Sole, Due
<1>. QED
  BY <1>2, <1>3 DEF SerialInv, AskedInv

\* A call that enters when no other is under way is the only one.
LEMMA EnterStep ==
  ASSUME TypeOK, TypeOK', NEW g \in Scalers, Sole(g), NoCall,
         NEW h \in Scalers, Enter(h)
  PROVE  Sole(h)'
<1>1. /\ cap' = cap /\ mod' = mod /\ asked' = asked
      /\ \E l \in {"panicked", "off", "on"} : pc' = [pc EXCEPT ![h] = l]
  BY DEF Enter, scalerVars, setting, Goto
<1>2. cap = asked + mod /\ mod >= 0
  BY DEF TypeOK, Sole, NoCall, Due
<1>3. \A k \in Scalers \ {h} : pc'[k] = "out"
  BY <1>1 DEF NoCall, TypeOK
<1>4. pc'[h] \in {"panicked", "off", "on"}
  BY <1>1 DEF TypeOK
<1>5. Due(h)' = 0
  BY <1>4 DEF Due
<1>. QED
  BY <1>1, <1>2, <1>3, <1>4, <1>5 DEF Sole, TypeOK

\* The only call goes on.
LEMMA SoleStep ==
  ASSUME TypeOK, TypeOK', NEW g \in Scalers, Sole(g), ScaleAnts(g)
  PROVE  Sole(g)'
<1>. USE DEF TypeOK, PC
<1>1. asked' = asked /\ asked \in Nat \ {0}
  BY DEF ScaleAnts, OffLook, ReadCap, OffTune, OffMod, Decide, SetIdle, Claim, AddMod,
         TunePool, scalerVars, setting
<1>2. \E l \in PC : pc' = [pc EXCEPT ![g] = l]
  BY DEF ScaleAnts, OffLook, ReadCap, OffTune, OffMod, Decide, SetIdle, Claim, AddMod,
         TunePool, Goto
<1>3. \A h \in Scalers \ {g} : pc'[h] = "out"
  BY <1>2 DEF Sole
<1>4. /\ cap = asked + mod + Due(g) /\ mod >= 0 /\ mod \in Int /\ cap \in Nat
      /\ step[g] \in {-1, 1} /\ seen[g] \in Nat
  BY DEF Sole
<1>5. CASE OffLook(g)
  <2>1. /\ cap' = cap /\ mod' = mod /\ pc[g] = "off"
        /\ pc'[g] = "out" \/ (pc'[g] = "offRead" /\ mod > 0)
    BY <1>5 DEF OffLook, scalerVars, Goto
  <2>2. Due(g) = 0 /\ Due(g)' = 0
    BY <2>1 DEF Due
  <2>. QED
    BY <1>1, <1>3, <1>4, <2>1, <2>2 DEF Sole
<1>6. CASE ReadCap(g)
  <2>1. /\ cap' = cap /\ mod' = mod /\ step' = step /\ seen'[g] = cap
        /\ \/ pc[g] = "offRead" /\ pc'[g] = "offTune"
           \/ pc[g] = "read" /\ pc'[g] = "tune"
    BY <1>6 DEF ReadCap, scalerVars, Goto
  <2>2. Due(g)' = Due(g)
    BY <2>1 DEF Due
  <2>3. pc'[g] = "offTune" => mod >= 1
    BY <2>1 DEF Sole
  <2>. QED
    BY <1>1, <1>3, <1>4, <2>1, <2>2, <2>3 DEF Sole
<1>7. CASE OffTune(g)
  <2>1. /\ cap' = (IF seen[g] - 1 > 0 THEN seen[g] - 1 ELSE cap)
        /\ mod' = mod /\ pc[g] = "offTune" /\ pc'[g] = "offMod"
    BY <1>7 DEF OffTune, Tune, scalerVars, Goto
  <2>2. Due(g) = 0 /\ Due(g)' = -1 /\ seen[g] = cap /\ mod >= 1
    BY <2>1 DEF Due, Sole
  <2>3. cap' = asked + mod - 1
    BY <1>1, <1>4, <2>1, <2>2
  <2>. QED
    BY <1>1, <1>3, <1>4, <2>1, <2>2, <2>3 DEF Sole
<1>8. CASE OffMod(g)
  <2>1. cap' = cap /\ mod' = mod - 1 /\ pc[g] = "offMod" /\ pc'[g] = "out"
    BY <1>8 DEF OffMod, Goto
  <2>2. Due(g) = -1 /\ Due(g)' = 0 /\ mod >= 1
    BY <2>1 DEF Due, Sole
  <2>. QED
    BY <1>1, <1>3, <1>4, <2>1, <2>2 DEF Sole
<1>9. CASE Decide(g)
  <2>1. PICK d \in {"low", "even", "high"} :
          /\ step' = [step EXCEPT ![g] = IF NeedUp(d) THEN 1 ELSE -1]
          /\ \/ NeedUp(d) \/ NeedDown(d)
             \/ pc' = [pc EXCEPT ![g] = "out"] \/ pc' = [pc EXCEPT ![g] = "setIdle"]
    BY <1>9 DEF Decide, Goto
  <2>2. /\ cap' = cap /\ mod' = mod /\ pc[g] = "on"
        /\ pc'[g] \in {"out", "setIdle", "claim"}
    BY <1>9 DEF Decide, scalerVars, Goto
  <2>3. Due(g) = 0 /\ Due(g)' = 0
    BY <2>2 DEF Due
  <2>4. pc'[g] = "claim" /\ step'[g] = -1 => mod >= 1
    BY <1>4, <2>1, <2>2 DEF NeedDown
  <2>. QED
    BY <1>1, <1>3, <1>4, <2>2, <2>3, <2>4 DEF Sole
<1>10. CASE SetIdle(g) \/ Claim(g)
  <2>1. /\ cap' = cap /\ mod' = mod /\ step' = step
        /\ pc[g] \in {"setIdle", "claim"}
        /\ pc'[g] \in {"out", "claim", "mod"}
        /\ pc[g] = "setIdle" => pc'[g] = "out"
    BY <1>10 DEF SetIdle, Claim, Goto, locals
  <2>2. Due(g) = 0 /\ Due(g)' = 0
    BY <2>1 DEF Due
  <2>3. pc'[g] \in {"claim", "mod"} /\ step[g] = -1 => mod >= 1
    BY <2>1 DEF Sole
  <2>. QED
    BY <1>1, <1>3, <1>4, <2>1, <2>2, <2>3 DEF Sole
<1>11. CASE AddMod(g)
  <2>1. /\ cap' = cap /\ mod' = mod + step[g] /\ step' = step
        /\ pc[g] = "mod" /\ pc'[g] = "read"
    BY <1>11 DEF AddMod, Goto, locals
  <2>2. Due(g) = 0 /\ Due(g)' = -step[g] /\ (step[g] = -1 => mod >= 1)
    BY <2>1 DEF Due, Sole
  <2>. QED
    BY <1>1, <1>3, <1>4, <2>1, <2>2 DEF Sole
<1>12. CASE TunePool(g)
  <2>1. /\ cap' = (IF seen[g] + step[g] > 0 THEN seen[g] + step[g] ELSE cap)
        /\ mod' = mod /\ pc[g] = "tune" /\ pc'[g] = "out"
    BY <1>12 DEF TunePool, Tune, scalerVars, Goto
  <2>2. Due(g) = -step[g] /\ Due(g)' = 0 /\ seen[g] = cap
    BY <2>1 DEF Due, Sole
  <2>3. cap' = asked + mod
    BY <1>1, <1>4, <2>1, <2>2
  <2>. QED
    BY <1>1, <1>3, <1>4, <2>1, <2>2, <2>3 DEF Sole
<1>. QED
  BY <1>5, <1>6, <1>7, <1>8, <1>9, <1>10, <1>11, <1>12 DEF ScaleAnts

\* A setter gives the pool another size at most, and when no worker is added.
LEMMA SetterStep ==
  ASSUME TypeOK, TypeOK', NEW g \in Scalers, Sole(g), UNCHANGED <<mod, pc, locals>>,
         \/ UNCHANGED <<cap, asked>>
         \/ cap' = asked' /\ NoCall /\ mod = 0
  PROVE  Sole(g)'
<1>. USE DEF TypeOK
<1>1. Due(g)' = Due(g) /\ mod' = mod /\ pc' = pc /\ step' = step /\ seen' = seen
  BY DEF Due, locals
<1>2. CASE UNCHANGED <<cap, asked>>
  BY <1>1, <1>2 DEF Sole
<1>3. CASE cap' = asked' /\ NoCall /\ mod = 0
  <2>1. Due(g) = 0 /\ pc[g] = "out"
    BY <1>3 DEF NoCall, Due
  <2>2. cap' = asked' + mod' + Due(g)'
    BY <1>1, <1>3, <2>1
  <2>. QED
    BY <1>1, <1>3, <2>1, <2>2 DEF Sole
<1>. QED
  BY <1>2, <1>3

LEMMA SerialStep == TypeOK /\ SerialInv /\ [Next]_vars => SerialInv'
<1>. SUFFICES ASSUME TypeOK, SerialInv, [Next]_vars, serial'
              PROVE  \E g \in Scalers : Sole(g)'
  BY AskedHolds DEF SerialInv
<1>0. TypeOK'
  BY TypeStep
<1>1. serial
  BY DEF Next, Enter, ScaleAnts, OffLook, ReadCap, OffTune, OffMod, Decide, SetIdle,
         Claim, AddMod, TunePool, Enable, Disable, SetBaseline, SetMax, SetMaxWorkers, vars
<1>2. PICK g \in Scalers : Sole(g)
  BY <1>1 DEF SerialInv
<1>3. ASSUME NEW h \in Scalers, Enter(h) PROVE \E k \in Scalers : Sole(k)'
  <2>1. NoCall
    BY <1>3 DEF Enter
  <2>. QED
    BY <1>0, <1>2, <1>3, <2>1, EnterStep
<1>4. ASSUME NEW h \in Scalers, ScaleAnts(h) PROVE \E k \in Scalers : Sole(k)'
  <2>1. pc[h] # "out"
    BY <1>4 DEF ScaleAnts, OffLook, ReadCap, OffTune, OffMod, Decide, SetIdle, Claim,
                AddMod, TunePool
  <2>2. h = g
    BY <1>2, <2>1 DEF Sole
  <2>. QED
    BY <1>0, <1>2, <1>4, <2>2, SoleStep
<1>5. CASE Enable \/ Disable \/ SetBaseline \/ UNCHANGED vars
           \/ \E m \in NewMaxes : SetMax(m)
  <2>1. UNCHANGED <<mod, pc, locals, cap, asked>>
    BY <1>5 DEF Enable, Disable, SetBaseline, SetMax, vars, scalerVars, setting
  <2>. QED
    BY <1>0, <1>2, <2>1, SetterStep
<1>6. ASSUME NEW n \in NewCaps, SetMaxWorkers(n) PROVE \E k \in Scalers : Sole(k)'
  <2>1. PICK num :
          /\ Tune(num) /\ asked' = (IF num > 0 THEN num ELSE asked)
          /\ serial' = (serial /\ (num > 0 => NoCall /\ mod = 0))
    BY <1>6, Zenon DEF SetMaxWorkers
  <2>2. UNCHANGED <<mod, pc, locals>>
    BY <1>6 DEF SetMaxWorkers, scalerVars
  <2>3. UNCHANGED <<cap, asked>> \/ (cap' = asked' /\ NoCall /\ mod = 0)
    <3>1. num > 0 => NoCall /\ mod = 0
      BY <2>1, Zenon
    <3>2. CASE num > 0
      BY <2>1, <3>1, <3>2 DEF Tune
    <3>3. CASE ~(num > 0)
      BY <2>1, <3>3 DEF Tune
    <3>. QED
      BY <3>2, <3>3
  <2>. QED
    BY <1>0, <1>2, <2>2, <2>3, SetterStep
<1>. QED
  BY <1>3, <1>4, <1>5, <1>6 DEF Next

\* While calls of ScaleAnts do not overlap and the pool is given a new size only
\* between them with no worker added, it is mod workers above that size, whatever
\* the totals say, whenever it is switched on or off or its maximum changed, and
\* with sizes asked for that no pool can have.
THEOREM PoolTracksMod == Spec => []CapTracksMod
<1>1. TypeOK /\ SerialInv => CapTracksMod
  <2>. SUFFICES ASSUME TypeOK, SerialInv, serial, ~tuned, NoCall
                PROVE  cap = asked + mod /\ (baseline > 0 => baseline = asked)
    BY DEF CapTracksMod, Quiet
  <2>1. PICK g \in Scalers : Sole(g)
    BY DEF SerialInv
  <2>2. Due(g) = 0
    BY <2>1 DEF NoCall, Due
  <2>. QED
    BY <2>1, <2>2 DEF Sole, TypeOK, SerialInv, AskedInv
<1>. QED
  BY <1>1, TypeInit, TypeStep, SerialInit, SerialStep, PTL DEF Spec
=============================================================================

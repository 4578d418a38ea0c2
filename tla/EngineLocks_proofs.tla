-------------------------- MODULE EngineLocks_proofs --------------------------
(***************************************************************************)
(* Proofs about EngineLocks, for every number of goroutines and whatever   *)
(* each of them calls.                                                     *)
(*                                                                         *)
(* A walk says which locks a sequence of steps starts with, which it ends  *)
(* with, and that each step has the locks it needs and takes the next one  *)
(* in their order.  Every call is a walk from no lock to no lock, and what *)
(* is left of it is one from the locks its goroutine has.                  *)
(***************************************************************************)
EXTENDS EngineLocks, SequenceTheorems, TLAPS

-----------------------------------------------------------------------------
(* Walks.                                                                  *)

\* The locks a goroutine has, for reading and for writing.
Held == [r : SUBSET Locks, w : SUBSET Locks]
Nothing == [r |-> {}, w |-> {}]
OnlyMu == [r |-> {}, w |-> {"mu"}]

\* The lock an option is written under.
Guard == [agents |-> "mu", middleware |-> "mu", logger |-> "mu", timeouts |-> "opt",
          stale |-> "opt", policies |-> "opt", switches |-> "opt", recycle |-> "opt"]

\* Close, for which closes stands, has p5.mu when it logs.
Above(l, a, closes) ==
  \A k \in a.r \cup a.w :
    Rank[k] < Rank[l] \/ (closes /\ k = "mu" /\ l \in {"debug", "mu"})

\* What a step needs of the locks held, and what it makes of them.
MayRead(o, a) ==
  /\ o = "agents" => "mu" \in a.r \cup a.w
  /\ o = "timeouts" => "opt" \in a.r \cup a.w
Quiet(a, closes) == a = Nothing \/ (closes /\ a = OnlyMu)

Move(x, a, b, closes) ==
  /\ "debug" \in a.r => x.do = "RUnlock"
  /\ \/ /\ x.do = "RLock" /\ x.on \in Locks \ {"recycle"} /\ Above(x.on, a, closes)
        /\ "debug" \notin a.w
        /\ b = [r |-> a.r \cup {x.on}, w |-> a.w]
     \/ /\ x.do = "RUnlock" /\ x.on \in Locks
        /\ b = [r |-> a.r \ {x.on}, w |-> a.w]
     \/ /\ x.do = "Lock" /\ x.on \in Locks \ {"recycle"} /\ Above(x.on, a, FALSE)
        /\ b = [r |-> a.r, w |-> a.w \cup {x.on}]
     \/ /\ x.do = "TryLock" /\ x.on = "recycle" /\ a = Nothing
        /\ b = [r |-> a.r, w |-> {x.on}]
     \/ /\ x.do = "Unlock" /\ x.on \in a.w
        /\ b = [r |-> a.r, w |-> a.w \ {x.on}]
     \/ x.do = "Read" /\ MayRead(x.on, a) /\ b = a
     \/ x.do = "Write" /\ x.on \in Options /\ Guard[x.on] \in a.w /\ b = a
     \/ x.do = "Printf" /\ Quiet(a, closes) /\ b = a
     \/ x.do \in {"Debug", "IfDebug"} /\ b = a

\* h[i] is held before the step i, which may also be a jump over a part that
\* leaves the locks as they are.
Leads(s, h, closes) ==
  \A i \in 1..Len(s) :
    /\ Move(s[i], h[i], h[i + 1], closes)
    /\ s[i].do = "IfDebug" => i + s[i].on <= Len(s) /\ h[i + s[i].on + 1] = h[i]

Walk(s, a, b, closes) ==
  \E h \in [1..(Len(s) + 1) -> Held] :
    h[1] = a /\ h[Len(s) + 1] = b /\ Leads(s, h, closes)

LEMMA Jumps == \A x \in Steps : x.do = "IfDebug" => x.on \in Nat
<1>. SUFFICES ASSUME NEW x \in Steps, x.do = "IfDebug" PROVE x.on \in Nat
  OBVIOUS
<1>1. x \notin [do : {"RLock", "RUnlock", "Lock", "Unlock", "TryLock"}, on : Locks]
  OBVIOUS
<1>2. x \notin [do : {"Read", "Write", "Printf"}, on : Options]
  OBVIOUS
<1>3. x \notin [do : {"Debug"}, on : BOOLEAN]
  OBVIOUS
<1>4. x \in [do : {"IfDebug"}, on : Nat]
  BY <1>1, <1>2, <1>3 DEF Steps
<1>. QED
  BY <1>4

LEMMA WalkNone ==
  ASSUME NEW a \in Held, NEW closes
  PROVE  Walk(<<>>, a, a, closes)
<1>. DEFINE h == [i \in 1..1 |-> a]
<1>1. h \in [1..(Len(<<>>) + 1) -> Held] /\ h[1] = a /\ h[Len(<<>>) + 1] = a
  OBVIOUS
<1>2. Leads(<<>>, h, closes)
  BY DEF Leads
<1>. QED
  BY <1>1, <1>2 DEF Walk

LEMMA WalkStep ==
  ASSUME NEW x \in Steps, NEW a \in Held, NEW b \in Held, NEW closes,
         x.do # "IfDebug", Move(x, a, b, closes)
  PROVE  Walk(<<x>>, a, b, closes)
<1>. DEFINE h == [i \in 1..2 |-> IF i = 1 THEN a ELSE b]
<1>1. Len(<<x>>) = 1 /\ <<x>>[1] = x
  OBVIOUS
<1>2. h \in [1..(Len(<<x>>) + 1) -> Held] /\ h[1] = a /\ h[Len(<<x>>) + 1] = b
  BY <1>1
<1>3. Leads(<<x>>, h, closes)
  <2>. SUFFICES ASSUME NEW i \in 1..1
                PROVE  Move(<<x>>[i], h[i], h[i + 1], closes) /\ <<x>>[i].do # "IfDebug"
    BY <1>1 DEF Leads
  <2>1. i = 1 /\ h[i] = a /\ h[i + 1] = b
    OBVIOUS
  <2>. QED
    BY <1>1, <2>1
<1>. QED
  BY <1>2, <1>3 DEF Walk

LEMMA WalkThen ==
  ASSUME NEW s \in Seq(Steps), NEW t \in Seq(Steps),
         NEW a, NEW b, NEW d, NEW closes,
         Walk(s, a, b, closes), Walk(t, b, d, closes)
  PROVE  Walk(s \o t, a, d, closes)
<1>. DEFINE m == Len(s)
            n == Len(t)
<1>0. m \in Nat /\ n \in Nat /\ Len(s \o t) = m + n
  OBVIOUS
<1>1. PICK h \in [1..(m + 1) -> Held] : h[1] = a /\ h[m + 1] = b /\ Leads(s, h, closes)
  BY DEF Walk
<1>2. PICK g \in [1..(n + 1) -> Held] : g[1] = b /\ g[n + 1] = d /\ Leads(t, g, closes)
  BY DEF Walk
<1>. DEFINE f == [i \in 1..(m + n + 1) |-> IF i <= m THEN h[i] ELSE g[i - m]]
<1>3. ASSUME NEW i \in 1..(m + n + 1) PROVE f[i] \in Held
  <2>1. CASE i <= m
    BY <1>0, <1>1, <2>1
  <2>2. CASE ~(i <= m)
    <3>1. i - m \in 1..(n + 1)
      BY <1>0, <2>2
    <3>. QED
      BY <1>2, <2>2, <3>1
  <2>. QED
    BY <2>1, <2>2
<1>4. \A i \in 1..(m + 1) : f[i] = h[i]
  BY <1>0, <1>1, <1>2
<1>5. \A i \in 1..(n + 1) : f[m + i] = g[i]
  BY <1>0
<1>6. f[1] = a /\ f[m + n + 1] = d
  BY <1>0, <1>1, <1>2, <1>4, <1>5
<1>. HIDE DEF f
<1>7. Leads(s \o t, f, closes)
  <2>. SUFFICES ASSUME NEW i \in 1..(m + n)
                PROVE  /\ Move((s \o t)[i], f[i], f[i + 1], closes)
                       /\ (s \o t)[i].do = "IfDebug" =>
                            /\ i + (s \o t)[i].on <= m + n
                            /\ f[i + (s \o t)[i].on + 1] = f[i]
    BY <1>0 DEF Leads
  <2>1. CASE i <= m
    <3>1. i \in 1..m /\ (s \o t)[i] = s[i] /\ f[i] = h[i] /\ f[i + 1] = h[i + 1]
      BY <1>0, <1>4, <2>1
    <3>2. ASSUME s[i].do = "IfDebug"
          PROVE  i + s[i].on <= m + n /\ f[i + s[i].on + 1] = h[i]
      <4>1. i + s[i].on <= m /\ h[i + s[i].on + 1] = h[i]
        BY <1>1, <3>1, <3>2 DEF Leads
      <4>2. s[i].on \in Nat
        <5>1. s[i] \in Steps
          BY <3>1
        <5>. QED
          BY <3>2, <5>1, Jumps
      <4>. QED
        BY <1>0, <1>4, <3>1, <4>1, <4>2
    <3>. QED
      BY <1>1, <3>1, <3>2 DEF Leads
  <2>2. CASE ~(i <= m)
    <3>. DEFINE j == i - m
    <3>1. j \in 1..n /\ i = m + j
      BY <1>0, <2>2
    <3>. HIDE DEF j
    <3>2. (s \o t)[i] = t[j]
      BY <1>0, <3>1
    <3>3. f[i] = g[j] /\ f[i + 1] = g[j + 1]
      BY <1>0, <1>5, <3>1
    <3>4. ASSUME t[j].do = "IfDebug"
          PROVE  i + t[j].on <= m + n /\ f[i + t[j].on + 1] = g[j]
      <4>1. j + t[j].on <= n /\ g[j + t[j].on + 1] = g[j]
        BY <1>2, <3>1, <3>4 DEF Leads
      <4>2. t[j].on \in Nat
        <5>1. t[j] \in Steps
          BY <1>0, <3>1
        <5>. QED
          BY <3>4, <5>1, Jumps
      <4>3. PICK k \in Nat : k = t[j].on
        BY <4>2
      <4>4. j + k <= n /\ g[j + k + 1] = g[j]
        BY <4>1, <4>3
      <4>5. i + k + 1 = m + (j + k + 1) /\ i + k <= m + n /\ j + k + 1 \in 1..(n + 1)
        BY <1>0, <3>1, <4>4
      <4>6. f[i + k + 1] = g[j]
        BY <1>5, <4>4, <4>5
      <4>. QED
        BY <4>3, <4>5, <4>6
    <3>. QED
      BY <1>2, <3>1, <3>2, <3>3, <3>4 DEF Leads
  <2>. QED
    BY <2>1, <2>2
<1>8. f \in [1..(Len(s \o t) + 1) -> Held]
  BY <1>0, <1>3 DEF f
<1>. QED
  BY <1>0, <1>6, <1>7, <1>8 DEF Walk

\* What is left of a walk is one.
LEMMA WalkFrom ==
  ASSUME NEW s \in Seq(Steps), NEW m \in 0..Len(s), NEW closes,
         NEW h \in [1..(Len(s) + 1) -> Held], Leads(s, h, closes)
  PROVE  Walk(SubSeq(s, m + 1, Len(s)), h[m + 1], h[Len(s) + 1], closes)
<1>. DEFINE t == SubSeq(s, m + 1, Len(s))
            n == Len(s) - m
            g == [i \in 1..(n + 1) |-> h[m + i]]
<1>1. /\ m \in Nat /\ n \in Nat /\ m + n = Len(s) /\ Len(s) \in Nat
      /\ Len(t) = n /\ \A i \in 1..n : t[i] = s[m + i]
  OBVIOUS
<1>2. g \in [1..(n + 1) -> Held]
  <2>. HIDE DEF n
  <2>1. \A i \in 1..(n + 1) : m + i \in 1..(Len(s) + 1)
    BY <1>1
  <2>. QED
    BY <2>1
<1>3. \A i \in 1..(n + 1) : g[i] = h[m + i]
  OBVIOUS
<1>. HIDE DEF t, n, g
<1>4. Leads(t, g, closes)
  <2>. SUFFICES ASSUME NEW i \in 1..n
                PROVE  /\ Move(t[i], g[i], g[i + 1], closes)
                       /\ t[i].do = "IfDebug" =>
                            i + t[i].on <= n /\ g[i + t[i].on + 1] = g[i]
    BY <1>1 DEF Leads
  <2>1. m + i \in 1..Len(s) /\ t[i] = s[m + i] /\ s[m + i] \in Steps
    BY <1>1
  <2>2. g[i] = h[m + i] /\ g[i + 1] = h[m + i + 1]
    <3>1. i \in 1..(n + 1) /\ i + 1 \in 1..(n + 1) /\ m + (i + 1) = m + i + 1
      BY <1>1
    <3>2. g[i + 1] = h[m + (i + 1)]
      BY <1>3, <3>1
    <3>. QED
      BY <1>3, <3>1, <3>2
  <2>3. Move(t[i], g[i], g[i + 1], closes)
    BY <2>1, <2>2 DEF Leads
  <2>4. ASSUME t[i].do = "IfDebug"
        PROVE  i + t[i].on <= n /\ g[i + t[i].on + 1] = g[i]
    <3>1. PICK k \in Nat : k = s[m + i].on
      BY <2>1, <2>4, Jumps
    <3>2. m + i + k <= Len(s) /\ h[m + i + k + 1] = h[m + i]
      BY <2>1, <2>4, <3>1 DEF Leads
    <3>3. i + k <= n /\ i + k + 1 \in 1..(n + 1) /\ m + (i + k + 1) = m + i + k + 1
      BY <1>1, <3>2
    <3>. QED
      BY <1>3, <2>1, <2>2, <3>1, <3>2, <3>3
  <2>. QED
    BY <2>3, <2>4
<1>. QED
  <2>1. g[1] = h[m + 1] /\ g[n + 1] = h[Len(s) + 1]
    <3>1. 1 \in 1..(n + 1) /\ n + 1 \in 1..(n + 1) /\ m + (n + 1) = Len(s) + 1
      BY <1>1
    <3>2. g[n + 1] = h[m + (n + 1)]
      BY <1>3, <3>1
    <3>. QED
      BY <1>3, <3>1, <3>2
  <2>. QED
    BY <1>1, <1>2, <1>4, <2>1 DEF Walk, t

LEMMA WalkTail ==
  ASSUME NEW s \in Seq(Steps), s # <<>>, NEW a, NEW b, NEW closes,
         Walk(s, a, b, closes)
  PROVE  \E d \in Held : Move(Head(s), a, d, closes) /\ Walk(Tail(s), d, b, closes)
<1>1. PICK h \in [1..(Len(s) + 1) -> Held] :
        h[1] = a /\ h[Len(s) + 1] = b /\ Leads(s, h, closes)
  BY DEF Walk
<1>2. 1 \in 1..Len(s) /\ 1 \in 0..Len(s) /\ 2 \in 1..(Len(s) + 1) /\ Head(s) = s[1]
  OBVIOUS
<1>3. Move(Head(s), a, h[2], closes) /\ h[2] \in Held
  BY <1>1, <1>2 DEF Leads
<1>4. Tail(s) = SubSeq(s, 1 + 1, Len(s))
  OBVIOUS
<1>5. Walk(SubSeq(s, 1 + 1, Len(s)), h[1 + 1], h[Len(s) + 1], closes)
  BY <1>1, <1>2, WalkFrom
<1>6. Walk(Tail(s), h[2], b, closes)
  BY <1>1, <1>4, <1>5, 1 + 1 = 2
<1>. QED
  BY <1>3, <1>6

LEMMA WalkSkip ==
  ASSUME NEW s \in Seq(Steps), s # <<>>, Head(s).do = "IfDebug",
         NEW a, NEW b, NEW closes, Walk(s, a, b, closes)
  PROVE  /\ Head(s).on \in Nat
         /\ Walk(SubSeq(s, Head(s).on + 2, Len(s)), a, b, closes)
<1>1. PICK h \in [1..(Len(s) + 1) -> Held] :
        h[1] = a /\ h[Len(s) + 1] = b /\ Leads(s, h, closes)
  BY DEF Walk
<1>2. 1 \in 1..Len(s) /\ Head(s) = s[1] /\ s[1] \in Steps
  OBVIOUS
<1>3. PICK k \in Nat : k = Head(s).on
  BY <1>2, Jumps
<1>4. 1 + k <= Len(s) /\ h[1 + k + 1] = a
  BY <1>1, <1>2, <1>3 DEF Leads
<1>5. k + 1 \in 0..Len(s) /\ k + 1 + 1 = k + 2 /\ 1 + k + 1 = k + 2
  BY <1>4
<1>6. Walk(SubSeq(s, k + 1 + 1, Len(s)), h[k + 1 + 1], h[Len(s) + 1], closes)
  BY <1>1, <1>5, WalkFrom
<1>. QED
  BY <1>1, <1>3, <1>4, <1>5, <1>6

\* A walk that may be jumped over.
LEMMA WalkIf ==
  ASSUME NEW s \in Seq(Steps), NEW a \in Held, NEW closes,
         "debug" \notin a.r, Walk(s, a, a, closes)
  PROVE  Walk(<<IfDebug(Len(s))>> \o s, a, a, closes)
<1>. DEFINE n == Len(s)
            x == IfDebug(n)
            t == <<x>> \o s
<1>1. /\ n \in Nat /\ Len(t) = n + 1 /\ t[1] = x /\ x.do = "IfDebug" /\ x.on = n
      /\ \A i \in 1..n : t[i + 1] = s[i]
  BY DEF IfDebug
<1>2. PICK h \in [1..(n + 1) -> Held] : h[1] = a /\ h[n + 1] = a /\ Leads(s, h, closes)
  BY DEF Walk
<1>. DEFINE g == [i \in 1..(n + 2) |-> IF i = 1 THEN a ELSE h[i - 1]]
<1>3. g[1] = a /\ \A i \in 1..(n + 1) : g[i + 1] = h[i]
  BY <1>1
<1>4. g \in [1..(Len(t) + 1) -> Held]
  <2>1. \A i \in 1..(n + 2) : i # 1 => i - 1 \in 1..(n + 1)
    BY <1>1
  <2>. QED
    BY <1>1, <1>2, <2>1
<1>. HIDE DEF t, g, x
<1>5. Leads(t, g, closes)
  <2>. SUFFICES ASSUME NEW i \in 1..(n + 1)
                PROVE  /\ Move(t[i], g[i], g[i + 1], closes)
                       /\ t[i].do = "IfDebug" =>
                            i + t[i].on <= n + 1 /\ g[i + t[i].on + 1] = g[i]
    BY <1>1 DEF Leads
  <2>1. CASE i = 1
    <3>1. g[2] = a /\ g[n + 2] = a
      BY <1>1, <1>2, <1>3
    <3>2. Move(x, a, a, closes)
      BY <1>1 DEF Move
    <3>. QED
      BY <1>1, <1>3, <2>1, <3>1, <3>2
  <2>2. CASE i # 1
    <3>. DEFINE j == i - 1
    <3>1. j \in 1..n /\ i = j + 1
      BY <1>1, <2>2
    <3>. HIDE DEF j
    <3>2. t[i] = s[j] /\ g[i] = h[j] /\ g[i + 1] = h[j + 1] /\ s[j] \in Steps
      BY <1>1, <1>3, <3>1
    <3>3. ASSUME s[j].do = "IfDebug"
          PROVE  i + s[j].on <= n + 1 /\ g[i + s[j].on + 1] = g[i]
      <4>1. PICK k \in Nat : k = s[j].on
        BY <3>2, <3>3, Jumps
      <4>2. j + k <= n /\ h[j + k + 1] = h[j]
        BY <1>2, <3>1, <3>3, <4>1 DEF Leads
      <4>3. i + k <= n + 1 /\ j + k + 1 \in 1..(n + 1) /\ i + k + 1 = (j + k + 1) + 1
        BY <1>1, <3>1, <4>2
      <4>. QED
        BY <1>3, <3>2, <4>1, <4>2, <4>3
    <3>. QED
      BY <1>2, <3>1, <3>2, <3>3 DEF Leads
  <2>. QED
    BY <2>1, <2>2
<1>6. g[Len(t) + 1] = a
  BY <1>1, <1>2, <1>3
<1>. QED
  BY <1>3, <1>4, <1>5, <1>6 DEF Walk, t, x

-----------------------------------------------------------------------------
(* Round trips: walks that end with the locks they began with.             *)

Round(s, a, closes) == s \in Seq(Steps) /\ Walk(s, a, a, closes)

With(a, l) == [r |-> a.r, w |-> a.w \cup {l}]
WithRead(a, l) == [r |-> a.r \cup {l}, w |-> a.w]

LEMMA HeldTypes ==
  /\ Nothing \in Held /\ OnlyMu \in Held
  /\ \A a \in Held, l \in Locks : With(a, l) \in Held /\ WithRead(a, l) \in Held
  BY DEF Held, Nothing, OnlyMu, Locks, With, WithRead

LEMMA Ranks ==
  /\ Rank["none"] = 0 /\ Rank["recycle"] = 1 /\ Rank["pending"] = 2
  /\ Rank["opt"] = 3 /\ Rank["debug"] = 3 /\ Rank["mu"] = 4
  BY DEF Rank

LEMMA RankType == \A l \in Locks : Rank[l] \in 1..4
  BY Ranks DEF Locks

LEMMA StepTypes ==
  /\ \A l \in Locks : /\ RLock(l) \in Steps /\ RUnlock(l) \in Steps
                      /\ Lock(l) \in Steps /\ Unlock(l) \in Steps /\ TryLock(l) \in Steps
  /\ \A o \in Options : Read(o) \in Steps /\ Write(o) \in Steps
  /\ \A b \in BOOLEAN : Debug(b) \in Steps
  /\ \A n \in Nat : IfDebug(n) \in Steps
  /\ Printf \in Steps
  BY DEF Steps, RLock, RUnlock, Lock, Unlock, TryLock, Read, Write, Debug, IfDebug,
     Printf, Options

LEMMA RoundNone == \A a \in Held : \A closes : Round(<<>>, a, closes)
  BY WalkNone DEF Round

LEMMA RoundThen ==
  ASSUME NEW s, NEW t, NEW a, NEW closes, Round(s, a, closes), Round(t, a, closes)
  PROVE  Round(s \o t, a, closes)
<1>1. s \in Seq(Steps) /\ t \in Seq(Steps) /\ s \o t \in Seq(Steps)
  BY DEF Round
<1>. QED
  BY <1>1, WalkThen DEF Round

LEMMA RoundStep ==
  ASSUME NEW x \in Steps, NEW a \in Held, NEW closes,
         x.do # "IfDebug", Move(x, a, a, closes)
  PROVE  Round(<<x>>, a, closes)
<1>1. <<x>> \in Seq(Steps)
  OBVIOUS
<1>. QED
  BY <1>1, WalkStep DEF Round

LEMMA RoundIf ==
  ASSUME NEW s, NEW a \in Held, NEW closes, Round(s, a, closes), "debug" \notin a.r
  PROVE  Round(<<IfDebug(Len(s))>> \o s, a, closes)
<1>1. s \in Seq(Steps) /\ Len(s) \in Nat
  BY DEF Round
<1>2. <<IfDebug(Len(s))>> \o s \in Seq(Steps)
  BY <1>1, StepTypes
<1>. QED
  BY <1>1, <1>2, WalkIf DEF Round

\* A step, a part with the locks it has left, and a step back.
LEMMA RoundAbout ==
  ASSUME NEW x \in Steps, NEW y \in Steps, NEW s, NEW a \in Held, NEW b \in Held,
         NEW closes, x.do # "IfDebug", y.do # "IfDebug",
         Move(x, a, b, closes), Round(s, b, closes), Move(y, b, a, closes)
  PROVE  Round(<<x>> \o s \o <<y>>, a, closes)
<1>1. /\ s \in Seq(Steps) /\ <<x>> \in Seq(Steps) /\ <<y>> \in Seq(Steps)
      /\ <<x>> \o s \in Seq(Steps) /\ <<x>> \o s \o <<y>> \in Seq(Steps)
  BY DEF Round
<1>2. Walk(<<x>>, a, b, closes) /\ Walk(s, b, b, closes) /\ Walk(<<y>>, b, a, closes)
  BY WalkStep DEF Round
<1>3. Walk(<<x>> \o s, a, b, closes)
  BY <1>1, <1>2, WalkThen
<1>. QED
  BY <1>1, <1>2, <1>3, WalkThen DEF Round

LEMMA RoundLocked ==
  ASSUME NEW l \in Locks \ {"recycle"}, NEW s, NEW a \in Held, NEW closes,
         Above(l, a, FALSE), "debug" \notin a.r, Round(s, With(a, l), closes)
  PROVE  Round(Locked(l, s), a, closes)
<1>1. l \notin a.w
  BY RankType DEF Above
<1>2. a = [r |-> a.r, w |-> (a.w \cup {l}) \ {l}]
  BY <1>1 DEF Held
<1>3. Move(Lock(l), a, With(a, l), closes)
  BY DEF Move, Lock, With
<1>4. Move(Unlock(l), With(a, l), a, closes)
  BY <1>2 DEF Move, Unlock, With
<1>5. Lock(l).do # "IfDebug" /\ Unlock(l).do # "IfDebug"
  BY DEF Lock, Unlock
<1>. QED
  BY <1>3, <1>4, <1>5, RoundAbout, HeldTypes, StepTypes DEF Locked

LEMMA RoundRLocked ==
  ASSUME NEW l \in Locks \ {"recycle"}, NEW s, NEW a \in Held, NEW closes,
         Above(l, a, closes), l \notin a.r, "debug" \notin a.r \cup a.w,
         Round(s, WithRead(a, l), closes)
  PROVE  Round(RLocked(l, s), a, closes)
<1>1. a = [r |-> (a.r \cup {l}) \ {l}, w |-> a.w]
  BY DEF Held
<1>2. Move(RLock(l), a, WithRead(a, l), closes)
  BY DEF Move, RLock, WithRead
<1>3. Move(RUnlock(l), WithRead(a, l), a, closes)
  BY <1>1 DEF Move, RUnlock, WithRead
<1>4. RLock(l).do # "IfDebug" /\ RUnlock(l).do # "IfDebug"
  BY DEF RLock, RUnlock
<1>. QED
  BY <1>2, <1>3, <1>4, RoundAbout, HeldTypes, StepTypes DEF RLocked

-----------------------------------------------------------------------------
(* The calls, each from no lock to no lock.                                *)

LEMMA QuietTypes ==
  ASSUME NEW a, NEW closes, Quiet(a, closes)
  PROVE  /\ a \in Held /\ a.r = {}
         /\ "debug" \notin a.r \cup a.w
         /\ Above("debug", a, closes) /\ Above("mu", a, closes)
<1>1. CASE a = Nothing
  BY <1>1, HeldTypes DEF Nothing, Above
<1>2. CASE closes /\ a = OnlyMu
  BY <1>2, HeldTypes DEF OnlyMu, Above
<1>. QED
  BY <1>1, <1>2 DEF Quiet

LEMMA AboveNothing == \A l, closes : Above(l, Nothing, closes)
  BY DEF Above, Nothing

LEMMA RoundAccess ==
  ASSUME NEW o \in Options, NEW a \in Held, NEW closes, "debug" \notin a.r
  PROVE  /\ MayRead(o, a) => Round(<<Read(o)>>, a, closes)
         /\ Guard[o] \in a.w => Round(<<Write(o)>>, a, closes)
<1>1. MayRead(o, a) => Move(Read(o), a, a, closes)
  BY DEF Move, Read
<1>2. Guard[o] \in a.w => Move(Write(o), a, a, closes)
  BY DEF Move, Write
<1>3. Read(o).do # "IfDebug" /\ Write(o).do # "IfDebug"
  BY DEF Read, Write
<1>. QED
  BY <1>1, <1>2, <1>3, RoundStep, StepTypes

LEMMA RoundPrintf ==
  ASSUME NEW a, NEW closes, Quiet(a, closes)
  PROVE  Round(<<Printf>>, a, closes)
<1>1. Move(Printf, a, a, closes) /\ Printf.do # "IfDebug"
  BY QuietTypes DEF Move, Printf
<1>. QED
  BY <1>1, QuietTypes, RoundStep, StepTypes

LEMMA RoundDebugEnabled ==
  ASSUME NEW a, NEW closes, Quiet(a, closes)
  PROVE  Round(DebugEnabled, a, closes)
<1>1. a \in Held /\ Above("debug", a, closes) /\ "debug" \notin a.r \cup a.w
  BY QuietTypes
<1>2. "debug" \in Locks \ {"recycle"}
  BY DEF Locks
<1>3. Round(<<>>, WithRead(a, "debug"), closes)
  BY <1>1, <1>2, HeldTypes, RoundNone
<1>. QED
  BY <1>1, <1>2, <1>3, RoundRLocked DEF DebugEnabled

LEMMA Pair == \A x, y : <<x>> \o <<y>> = <<x, y>>
<1>. SUFFICES ASSUME NEW x, NEW y PROVE <<x>> \o <<y>> = <<x, y>>
  OBVIOUS
<1>. DEFINE s == <<x>> \o <<y>>
            t == <<x, y>>
<1>1. s \in Seq({x, y}) /\ t \in Seq({x, y})
  OBVIOUS
<1>2. Len(s) = 2 /\ s[1] = x /\ s[2] = y
  OBVIOUS
<1>3. Len(t) = 2 /\ t[1] = x /\ t[2] = y
  OBVIOUS
<1>4. \A i \in 1..Len(s) : s[i] = t[i]
  BY <1>2, <1>3
<1>. HIDE DEF s, t
<1>5. s = t
  BY <1>1, <1>2, <1>3, <1>4, SeqEqual
<1>. QED
  BY <1>5 DEF s, t

LEMMA RoundPrint ==
  ASSUME NEW a, NEW closes, Quiet(a, closes)
  PROVE  Round(dbgPrint, a, closes)
<1>1. Round(<<IfDebug(Len(<<Printf>>))>> \o <<Printf>>, a, closes)
  BY QuietTypes, RoundPrintf, RoundIf
<1>. QED
  BY <1>1, Pair, Len(<<Printf>>) = 1, RoundDebugEnabled, RoundThen DEF dbgPrint

LEMMA RoundStatistics ==
  ASSUME NEW a, NEW closes, Quiet(a, closes)
  PROVE  Round(GetStatistics, a, closes)
<1>1. a \in Held /\ Above("mu", a, closes) /\ "mu" \notin a.r /\ "debug" \notin a.r \cup a.w
  BY QuietTypes
<1>2. "mu" \in Locks \ {"recycle"}
  BY DEF Locks
<1>3. Round(<<>>, WithRead(a, "mu"), closes)
  BY <1>1, <1>2, HeldTypes, RoundNone
<1>. QED
  BY <1>1, <1>2, <1>3, RoundRLocked DEF GetStatistics

\* From here on calls that begin with nothing held.
Trip(s, closes) == Round(s, Nothing, closes)

LEMMA Trips ==
  ASSUME NEW closes
  PROVE  /\ Trip(<<Printf>>, closes) /\ Trip(DebugEnabled, closes)
         /\ Trip(dbgPrint, closes) /\ Trip(GetStatistics, closes)
         /\ \A s, t : Trip(s, closes) /\ Trip(t, closes) => Trip(s \o t, closes)
         /\ \A s : Trip(s, closes) => Trip(<<IfDebug(Len(s))>> \o s, closes)
  BY RoundPrintf, RoundDebugEnabled, RoundPrint, RoundStatistics, RoundThen, RoundIf,
     HeldTypes DEF Trip, Quiet, Nothing

LEMMA TripThen ==
  ASSUME NEW closes, NEW s, NEW t, Trip(s, closes), Trip(t, closes)
  PROVE  Trip(s \o t, closes)
  BY RoundThen DEF Trip

LEMMA TripReads ==
  ASSUME NEW o \in Options \ {"agents", "timeouts"}, NEW closes
  PROVE  Trip(<<Read(o)>>, closes)
<1>1. "debug" \notin Nothing.r /\ MayRead(o, Nothing)
  BY DEF Nothing, MayRead
<1>. QED
  BY <1>1, HeldTypes, RoundAccess DEF Trip

LEMMA TripDebug ==
  ASSUME NEW b \in BOOLEAN, NEW closes
  PROVE  Trip(<<Debug(b)>>, closes)
<1>1. Move(Debug(b), Nothing, Nothing, closes) /\ Debug(b).do # "IfDebug"
  BY DEF Move, Debug, Nothing
<1>. QED
  BY <1>1, HeldTypes, RoundStep, StepTypes DEF Trip

\* A setter writes under the lock of its option, and then logs.
LEMMA TripSets ==
  ASSUME NEW o \in Options \ {"logger"}, NEW closes
  PROVE  Trip(Locked(Guard[o], <<Write(o)>>) \o <<Printf>>, closes)
<1>1. Guard[o] \in {"mu", "opt"}
  BY DEF Guard, Options
<1>2. Guard[o] \in Locks \ {"recycle"} /\ With(Nothing, Guard[o]) \in Held
  BY <1>1, HeldTypes DEF Locks
<1>3. "debug" \notin With(Nothing, Guard[o]).r /\ "debug" \notin Nothing.r
      /\ Guard[o] \in With(Nothing, Guard[o]).w
  BY DEF With, Nothing
<1>4. Round(<<Write(o)>>, With(Nothing, Guard[o]), closes)
  BY <1>2, <1>3, RoundAccess
<1>5. Trip(Locked(Guard[o], <<Write(o)>>), closes)
  BY <1>2, <1>3, <1>4, RoundLocked, AboveNothing, HeldTypes DEF Trip
<1>. QED
  BY <1>5, Trips

\* A getter reads under p5.mu or the lock of the options.
LEMMA TripGets ==
  ASSUME NEW o \in Options, NEW l \in {"mu", "opt"}, NEW closes,
         o = "agents" => l = "mu", o = "timeouts" => l = "opt"
  PROVE  Trip(RLocked(l, <<Read(o)>>), closes)
<1>1. l \in Locks \ {"recycle"} /\ WithRead(Nothing, l) \in Held
  BY HeldTypes DEF Locks
<1>2. "debug" \notin WithRead(Nothing, l).r /\ MayRead(o, WithRead(Nothing, l))
      /\ "debug" \notin Nothing.r \cup Nothing.w /\ l \notin Nothing.r
  BY DEF WithRead, Nothing, MayRead
<1>3. Round(<<Read(o)>>, WithRead(Nothing, l), closes)
  BY <1>1, <1>2, RoundAccess
<1>. QED
  BY <1>1, <1>2, <1>3, RoundRLocked, AboveNothing, HeldTypes DEF Trip

LEMMA TripDebugSwitches ==
  ASSUME NEW closes
  PROVE  Trip(EnableDebug, closes) /\ Trip(DisableDebug, closes)
  BY Trips, TripDebug DEF EnableDebug, DisableDebug

\* The one setter with two locks.
LEMMA TripSetLogger ==
  ASSUME NEW closes
  PROVE  Trip(SetLogger, closes) /\ Trip(SetAndEnableDebugLogger, closes)
<1>. DEFINE d == With(Nothing, "debug")
            m == With(d, "mu")
<1>1. "mu" \in Locks \ {"recycle"} /\ "debug" \in Locks \ {"recycle"} /\ "logger" \in Options
  BY DEF Locks, Options
<1>2. d \in Held /\ m \in Held
  BY <1>1, HeldTypes
<1>3. Guard["logger"] \in m.w /\ "debug" \notin m.r /\ "debug" \notin d.r /\ "debug" \notin Nothing.r
  BY DEF With, Nothing, Guard
<1>4. Above("mu", d, FALSE)
  BY Ranks DEF Above, With, Nothing
<1>. HIDE DEF d, m
<1>5. Round(<<Write("logger")>>, m, closes)
  BY <1>1, <1>2, <1>3, RoundAccess
<1>6. Round(Locked("mu", <<Write("logger")>>), d, closes)
  BY <1>1, <1>2, <1>3, <1>4, <1>5, RoundLocked DEF m
<1>7. Trip(Locked("debug", Locked("mu", <<Write("logger")>>)), closes)
  BY <1>1, <1>3, <1>6, AboveNothing, HeldTypes, RoundLocked DEF d, Trip
<1>8. Trip(SetLogger, closes)
  BY <1>7, Trips DEF SetLogger
<1>. QED
  BY <1>8, Trips, TripDebugSwitches DEF SetAndEnableDebugLogger

LEMMA TripSetters ==
  ASSUME NEW closes
  PROVE  /\ Trip(SetAgents, closes) /\ Trip(SetMiddleware, closes)
         /\ \A s \in {SetStaleTime, SetTimeouts, SetRecycling, SetPolicies, SetSwitches} :
              Trip(s, closes)
         /\ \A s \in SetMaxWorkers : Trip(s, closes)
         /\ Trip(SetScaler, closes)
<1>1. /\ Guard["agents"] = "mu" /\ Guard["middleware"] = "mu" /\ Guard["stale"] = "opt"
      /\ Guard["timeouts"] = "opt" /\ Guard["recycle"] = "opt"
      /\ Guard["policies"] = "opt" /\ Guard["switches"] = "opt"
  BY DEF Guard
<1>2. {"agents", "middleware", "stale", "timeouts", "recycle", "policies", "switches"}
        \subseteq Options \ {"logger"}
  BY DEF Options
<1>3. Trip(SetAgents, closes) /\ Trip(SetMiddleware, closes)
  BY <1>1, <1>2, TripSets DEF SetAgents, SetMiddleware
<1>4. Trip(SetStaleTime, closes) /\ Trip(SetTimeouts, closes) /\ Trip(SetRecycling, closes)
  BY <1>1, <1>2, TripSets DEF SetStaleTime, SetTimeouts, SetRecycling
<1>5. Trip(SetPolicies, closes) /\ Trip(SetSwitches, closes)
  BY <1>1, <1>2, TripSets DEF SetPolicies, SetSwitches
<1>6. (\A s \in SetMaxWorkers : Trip(s, closes)) /\ Trip(SetScaler, closes)
  <2>1. Trip(GetStatistics, closes) /\ Trip(<<Printf>>, closes)
    BY Trips
  <2>2. Trip(GetStatistics \o <<Printf>>, closes)
    BY <2>1, TripThen
  <2>. QED
    BY <2>1, <2>2 DEF SetMaxWorkers, SetScaler
<1>. QED
  BY <1>3, <1>4, <1>5, <1>6

LEMMA TripGetters ==
  ASSUME NEW closes
  PROVE  /\ Trip(GetAgents, closes) /\ Trip(GetTimeouts, closes) /\ Trip(GetStaleTime, closes)
         /\ Trip(GetRecyclingStatus, closes) /\ Trip(GetDialerBailout, closes)
         /\ Trip(GetDispenseMiddleware, closes) /\ Trip(GetSwitches, closes)
         /\ Trip(GetDebugRedactStatus, closes) /\ Trip(GetRemoveAfter, closes)
<1>1. {"agents", "middleware", "stale", "timeouts", "recycle", "policies", "switches"}
        \subseteq Options
  BY DEF Options
<1>2. Trip(GetAgents, closes) /\ Trip(GetTimeouts, closes) /\ Trip(GetStaleTime, closes)
  BY <1>1, TripGets DEF GetAgents, GetTimeouts, GetStaleTime
<1>3. Trip(GetRecyclingStatus, closes) /\ Trip(GetDialerBailout, closes)
  BY <1>1, TripGets DEF GetRecyclingStatus, GetDialerBailout
<1>4. Trip(GetDispenseMiddleware, closes) /\ Trip(GetSwitches, closes)
      /\ Trip(GetDebugRedactStatus, closes)
  BY <1>1, TripGets DEF GetDispenseMiddleware, GetSwitches, GetDebugRedactStatus
<1>5. Trip(GetRemoveAfter, closes)
  <2>. DEFINE m == WithRead(Nothing, "mu")
  <2>1. "mu" \in Locks \ {"recycle"} /\ m \in Held
    BY HeldTypes DEF Locks
  <2>2. /\ "debug" \notin m.r /\ MayRead("recycle", m) /\ MayRead("policies", m)
        /\ "debug" \notin Nothing.r \cup Nothing.w /\ "mu" \notin Nothing.r
    BY DEF WithRead, Nothing, MayRead
  <2>. HIDE DEF m
  <2>3. Round(<<Read("recycle")>>, m, closes) /\ Round(<<Read("policies")>>, m, closes)
    BY <1>1, <2>1, <2>2, RoundAccess
  <2>4. Round(<<Read("recycle"), Read("policies")>>, m, closes)
    BY <2>3, Pair, RoundThen
  <2>. QED
    BY <2>1, <2>2, <2>4, AboveNothing, HeldTypes, RoundRLocked DEF m, Trip, GetRemoveAfter
<1>. QED
  BY <1>2, <1>3, <1>4, <1>5

LEMMA TripMessages ==
  ASSUME NEW closes
  PROVE  /\ Trip(msgUsingProxy, closes) /\ Trip(announceDial, closes)
         /\ Trip(msgUnableToReach, closes)
<1>1. ASSUME NEW s, Trip(s, closes) PROVE Trip(Unannounced(s), closes)
  <2>1. Trip(<<IfDebug(Len(s))>> \o s, closes)
    BY <1>1, RoundIf, HeldTypes DEF Trip, Nothing
  <2>2. Trip(DebugEnabled \o (<<IfDebug(Len(s))>> \o s), closes)
    BY <2>1, Trips, TripThen
  <2>3. s \in Seq(Steps) /\ DebugEnabled \in Seq(Steps) /\ <<IfDebug(Len(s))>> \in Seq(Steps)
    <3>1. s \in Seq(Steps) /\ DebugEnabled \in Seq(Steps)
      BY <1>1, Trips DEF Trip, Round
    <3>2. IfDebug(Len(s)) \in Steps
      BY <3>1, StepTypes
    <3>. QED
      BY <3>1, <3>2
  <2>4. (DebugEnabled \o <<IfDebug(Len(s))>>) \o s = DebugEnabled \o (<<IfDebug(Len(s))>> \o s)
    BY ONLY <2>3, ConcatAssociative
  <2>. QED
    BY <2>2, <2>4 DEF Unannounced
<1>2. Trip(<<Read("switches")>>, closes)
  BY TripReads DEF Options
<1>3. Trip(announceDial, closes)
  BY <1>2, Trips DEF announceDial
<1>4. Trip(GetDebugRedactStatus \o dbgPrint, closes)
  BY Trips, TripGetters
<1>. QED
  BY <1>1, <1>3, <1>4 DEF msgUsingProxy, msgUnableToReach

\* Close, with p5.mu held, logs or does not.
LEMMA TripClose == \A s \in Close : Trip(s, TRUE)
<1>1. "mu" \in Locks \ {"recycle"} /\ With(Nothing, "mu") = OnlyMu /\ "debug" \notin Nothing.r
  BY DEF Locks, With, Nothing, OnlyMu
<1>2. Quiet(OnlyMu, TRUE)
  BY DEF Quiet
<1>3. \A p \in Pause : Round(p, OnlyMu, TRUE)
  BY <1>2, HeldTypes, RoundNone, RoundPrint DEF Pause
<1>. QED
  BY <1>1, <1>3, AboveNothing, HeldTypes, RoundLocked DEF Close, Trip

LEMMA TripPause == \A closes : \A s \in Pause : Trip(s, closes)
  BY Trips, RoundNone, HeldTypes DEF Pause, Trip

\* The status of recycling and the switches, asked for with recycleMu or Pending.
LEMMA RoundGetters ==
  ASSUME NEW k \in {"recycle", "pending"}, NEW closes
  PROVE  /\ Round(GetRecyclingStatus, With(Nothing, k), closes)
         /\ Round(GetSwitches, With(Nothing, k), closes)
<1>. DEFINE a == With(Nothing, k)
<1>1. a \in Held /\ "opt" \in Locks \ {"recycle"} /\ "mu" \in Locks \ {"recycle"}
  BY HeldTypes DEF Locks
<1>2. a.r = {} /\ a.w = {k}
  BY DEF With, Nothing
<1>3. Above("opt", a, closes) /\ Above("mu", a, closes)
  BY <1>2, Ranks DEF Above
<1>. HIDE DEF a
<1>4. ASSUME NEW l \in {"opt", "mu"}, NEW o \in {"recycle", "switches"}
      PROVE  Round(RLocked(l, <<Read(o)>>), a, closes)
  <2>1. o \in Options /\ MayRead(o, WithRead(a, l)) /\ "debug" \notin WithRead(a, l).r
    BY <1>2 DEF Options, MayRead, WithRead
  <2>2. WithRead(a, l) \in Held
    BY <1>1, HeldTypes
  <2>3. Round(<<Read(o)>>, WithRead(a, l), closes)
    BY <2>1, <2>2, RoundAccess
  <2>4. l \notin a.r /\ "debug" \notin a.r \cup a.w /\ l \in Locks \ {"recycle"}
    BY <1>1, <1>2
  <2>. QED
    BY <1>1, <1>3, <2>3, <2>4, RoundRLocked
<1>. QED
  BY <1>4 DEF GetRecyclingStatus, GetSwitches, a

LEMMA TripRecycle ==
  ASSUME NEW closes
  PROVE  Trip(recycleNone, closes) /\ Trip(recycling, closes)
<1>. DEFINE a == With(Nothing, "recycle")
            T == <<TryLock("recycle")>>
            U == <<Unlock("recycle")>>
            P == Locked("pending", <<>>)
<1>1. a \in Held /\ Nothing \in Held /\ "recycle" \in Locks
  BY HeldTypes DEF Locks
<1>2. Move(TryLock("recycle"), Nothing, a, closes) /\ TryLock("recycle").do # "IfDebug"
  BY DEF Move, TryLock, With, Nothing
<1>3. Move(Unlock("recycle"), a, Nothing, closes) /\ Unlock("recycle").do # "IfDebug"
  BY DEF Move, Unlock, With, Nothing
<1>4. Walk(T, Nothing, a, closes) /\ Walk(U, a, Nothing, closes)
      /\ T \in Seq(Steps) /\ U \in Seq(Steps)
  BY <1>1, <1>2, <1>3, StepTypes, WalkStep
<1>5. Round(GetRecyclingStatus, a, closes) /\ Round(GetSwitches, a, closes)
  BY RoundGetters
<1>6. Round(P, a, closes)
  <2>1. "pending" \in Locks \ {"recycle"} /\ Above("pending", a, FALSE) /\ "debug" \notin a.r
    BY Ranks DEF Locks, Above, With, Nothing
  <2>2. Round(<<>>, With(a, "pending"), closes)
    BY <1>1, <2>1, HeldTypes, RoundNone
  <2>. QED
    BY <1>1, <2>1, <2>2, RoundLocked
<1>. HIDE DEF a, T, U, P
<1>7. ASSUME NEW s, Round(s, a, closes)
      PROVE  T \o s \in Seq(Steps) /\ Walk(T \o s, Nothing, a, closes)
  BY <1>4, <1>7, WalkThen DEF Round
<1>8. ASSUME NEW t \in Seq(Steps), Walk(t, Nothing, a, closes), NEW s, Round(s, a, closes)
      PROVE  t \o s \in Seq(Steps) /\ Walk(t \o s, Nothing, a, closes)
  BY <1>8, WalkThen DEF Round
<1>9. ASSUME NEW t \in Seq(Steps), Walk(t, Nothing, a, closes)
      PROVE  Trip(t \o U, closes)
  BY <1>4, <1>9, WalkThen DEF Round, Trip
<1>10. Trip(T \o GetRecyclingStatus \o U, closes)
  BY <1>5, <1>7, <1>9
<1>11. Trip(T \o GetRecyclingStatus \o GetSwitches \o P \o U, closes)
  <2>1. T \o GetRecyclingStatus \in Seq(Steps)
        /\ Walk(T \o GetRecyclingStatus, Nothing, a, closes)
    BY <1>5, <1>7
  <2>2. T \o GetRecyclingStatus \o GetSwitches \in Seq(Steps)
        /\ Walk(T \o GetRecyclingStatus \o GetSwitches, Nothing, a, closes)
    BY <1>5, <1>8, <2>1
  <2>3. T \o GetRecyclingStatus \o GetSwitches \o P \in Seq(Steps)
        /\ Walk(T \o GetRecyclingStatus \o GetSwitches \o P, Nothing, a, closes)
    BY <1>6, <1>8, <2>2
  <2>. QED
    BY <1>9, <2>3
<1>. QED
  BY <1>10, <1>11 DEF recycleNone, recycling, T, U, P

LEMMA TripSpawner == \A closes : \A s \in jobSpawner : Trip(s, closes)
<1>. SUFFICES ASSUME NEW closes PROVE \A s \in jobSpawner : Trip(s, closes)
  OBVIOUS
<1>. DEFINE a == With(Nothing, "pending")
<1>1. "pending" \in Locks \ {"recycle"}
  BY DEF Locks
<1>2. "debug" \notin Nothing.r \cup Nothing.w /\ "pending" \notin Nothing.r
  BY DEF Nothing
<1>3. Trip(RLocked("pending", <<>>), closes)
  BY <1>1, <1>2, AboveNothing, HeldTypes, RoundNone, RoundRLocked DEF Trip
<1>4. Trip(Locked("pending", GetRecyclingStatus), closes)
  BY <1>1, <1>2, AboveNothing, HeldTypes, RoundGetters, RoundLocked DEF Trip
<1>5. /\ Trip(recycleNone, closes) /\ Trip(recycling \o dbgPrint, closes)
      /\ Trip(Locked("pending", GetRecyclingStatus) \o GetStatistics \o dbgPrint, closes)
  BY <1>4, TripRecycle, Trips
<1>6. ASSUME NEW s \in {recycleNone, recycling \o dbgPrint,
                        Locked("pending", GetRecyclingStatus) \o GetStatistics \o dbgPrint}
      PROVE  Trip(RLocked("pending", <<>>) \o s, closes)
  BY <1>3, <1>5, TripThen
<1>. QED
  BY <1>6 DEF jobSpawner

LEMMA TripDispense ==
  ASSUME NEW closes
  PROVE  (\A s \in stillGood : Trip(s, closes)) /\ Trip(mysteryDialer, closes)
<1>1. Trip(<<Read("stale")>>, closes) /\ Trip(<<Read("middleware")>>, closes)
  BY TripReads DEF Options
<1>2. Trip(<<Read("stale"), Read("middleware")>>, closes)
  <2>1. Trip(<<Read("stale")>> \o <<Read("middleware")>>, closes)
    BY <1>1, TripThen
  <2>. QED
    BY <2>1, Pair
<1>3. \A s \in stillGood : Trip(s, closes)
  <2>1. Trip(GetRemoveAfter, closes) /\ Trip(dbgPrint, closes)
    BY Trips, TripGetters
  <2>2. Trip(GetRemoveAfter \o <<Read("stale")>>, closes)
    BY <1>1, <2>1, TripThen
  <2>3. Trip(GetRemoveAfter \o <<Read("stale")>> \o dbgPrint, closes)
    BY <2>1, <2>2, TripThen
  <2>4. ASSUME NEW s \in {<<Read("stale")>>, GetRemoveAfter \o <<Read("stale")>> \o dbgPrint}
        PROVE  Trip(GetRemoveAfter \o s, closes)
    BY <1>1, <2>1, <2>3, <2>4, TripThen
  <2>. QED
    BY <2>4 DEF stillGood
<1>4. Trip(announceDial \o GetStatistics \o GetTimeouts, closes)
  BY Trips, TripMessages, TripGetters
<1>5. Trip(announceDial \o GetStatistics \o GetTimeouts \o GetDialerBailout
             \o GetRemoveAfter, closes)
  BY <1>4, Trips, TripGetters
<1>6. Trip(mysteryDialer, closes)
  BY <1>2, <1>5, Trips, TripMessages DEF mysteryDialer
<1>. QED
  BY <1>3, <1>6

LEMMA ScriptTrips ==
  ASSUME NEW c \in DOMAIN Script, NEW s \in Script[c]
  PROVE  Trip(s, c = "Close")
<1>1. CASE c \in {"EnableDebug", "DisableDebug", "SetLogger"}
  BY <1>1, TripDebugSwitches, TripSetLogger DEF Script
<1>2. CASE c \in {"SetUnderMu", "SetUnderOpt", "SetMaxWorkers", "SetScaler"}
  BY <1>2, TripSetters DEF Script
<1>3. CASE c \in {"Get", "Message"}
  BY <1>3, TripGetters, TripMessages DEF Script
<1>4. CASE c \in {"Close", "Pause"}
  <2>1. Script["Close"] = Close /\ Script["Pause"] = Pause
    BY DEF Script
  <2>2. CASE c = "Close"
    BY <2>1, <2>2, TripClose
  <2>3. CASE c = "Pause"
    BY <2>1, <2>3, TripPause
  <2>. QED
    BY <1>4, <2>2, <2>3
<1>5. CASE c \in {"Recycle", "Spawn", "Dispense", "Dial"}
  BY <1>5, TripRecycle, TripSpawner, TripDispense DEF Script
<1>. QED
  BY <1>1, <1>2, <1>3, <1>4, <1>5 DEF Script

-----------------------------------------------------------------------------
(* The invariant.                                                          *)

HeldBy(t) ==
  [r |-> {l \in Locks : t \in readers[l]},
   w |-> {l \in Locks : writer[l] = t /\ inside[l]}]

\* What is left of every call is a walk from the locks its goroutine has.
OnTheWay ==
  \A t \in Threads : Walk(todo[t], HeldBy(t), Nothing, t \in closing)

\* A lock has readers or a writer inside; who waits to read it has come to do
\* so and found a writer; who has announced itself is about to lock it.
Kept ==
  /\ \A l \in Locks : inside[l] => readers[l] = {}
  /\ \A l \in Locks : \A t \in waiting[l] :
       At(t, "RLock") /\ Now(t).on = l /\ writer[l] # NoThread
  /\ \A l \in Locks : writer[l] # NoThread /\ ~inside[l] =>
       At(writer[l], "Lock") /\ Now(writer[l]).on = l
  /\ readers["recycle"] = {}

IInv == TypeOK /\ OnTheWay /\ Kept

LEMMA LocksInit == Init => IInv
<1>. SUFFICES ASSUME Init PROVE IInv
  OBVIOUS
<1>. USE LocksAssumption DEF Init
<1>1. TypeOK
  <2>1. todo \in [Threads -> Seq(Steps)] /\ closing \in SUBSET {t \in Threads : todo[t] # <<>>}
    OBVIOUS
  <2>2. readers \in [Locks -> SUBSET Threads] /\ waiting \in [Locks -> SUBSET Threads]
    OBVIOUS
  <2>3. /\ writer \in [Locks -> Threads \cup {NoThread}] /\ inside \in [Locks -> BOOLEAN]
        /\ \A l \in Locks : inside[l] => writer[l] # NoThread
    OBVIOUS
  <2>4. debugOn \in BOOLEAN /\ logger \in {"silent", "channel"}
    OBVIOUS
  <2>5. backlog = 0 /\ ChanCap \in Nat
    OBVIOUS
  <2>. QED
    BY <2>1, <2>2, <2>3, <2>4, <2>5 DEF TypeOK
<1>2. ASSUME NEW t \in Threads
      PROVE  Walk(todo[t], HeldBy(t), Nothing, t \in closing)
  <2>1. todo[t] = <<>> /\ HeldBy(t) = Nothing
    BY DEF HeldBy, Nothing
  <2>. QED
    BY <2>1, HeldTypes, WalkNone
<1>3. Kept
  BY DEF Kept, Locks
<1>. QED
  BY <1>1, <1>2, <1>3 DEF IInv, OnTheWay

LEMMA HeldType == ASSUME NEW t PROVE HeldBy(t) \in Held
  BY DEF HeldBy, Held

\* A goroutine that has returned has not been in Close.
LEMMA WalkReturned ==
  ASSUME NEW a, NEW b, NEW c, Walk(<<>>, a, b, c)
  PROVE  Walk(<<>>, a, b, FALSE)
<1>1. PICK h \in [1..(Len(<<>>) + 1) -> Held] : h[1] = a /\ h[Len(<<>>) + 1] = b
  BY DEF Walk
<1>2. a = b /\ a \in Held
  BY <1>1
<1>. QED
  BY <1>2, WalkNone

\* What the next step of t does, by its walk.
LEMMA NowMoves ==
  ASSUME IInv, NEW t \in Threads, todo[t] # <<>>
  PROVE  /\ Now(t) \in Steps /\ Tail(todo[t]) \in Seq(Steps)
         /\ \E d \in Held : /\ Move(Now(t), HeldBy(t), d, t \in closing)
                            /\ Walk(Tail(todo[t]), d, Nothing, t \in closing)
<1>1. todo[t] \in Seq(Steps)
  BY DEF IInv, TypeOK
<1>2. Walk(todo[t], HeldBy(t), Nothing, t \in closing)
  BY DEF IInv, OnTheWay
<1>3. Head(todo[t]) \in Steps /\ Tail(todo[t]) \in Seq(Steps)
  BY <1>1
<1>. QED
  BY <1>1, <1>2, <1>3, WalkTail DEF Now

\* Who returns in a step has not been in Close any more.
LEMMA AllOnTheirWay ==
  ASSUME IInv, Returns, todo' \in [Threads -> Seq(Steps)],
         \A u \in Threads : Walk(todo'[u], HeldBy(u)', Nothing, u \in closing)
  PROVE  OnTheWay' /\ closing' \in SUBSET {u \in Threads : todo'[u] # <<>>}
<1>1. closing \subseteq Threads
  BY DEF IInv, TypeOK
<1>2. ASSUME NEW u \in Threads
      PROVE  Walk(todo'[u], HeldBy(u)', Nothing, u \in closing')
  <2>1. Walk(todo'[u], HeldBy(u)', Nothing, u \in closing)
    OBVIOUS
  <2>2. CASE todo'[u] = <<>>
    <3>1. (u \in closing') = FALSE
      BY <2>2 DEF Returns
    <3>2. Walk(<<>>, HeldBy(u)', Nothing, FALSE)
      BY <2>1, <2>2, WalkReturned
    <3>. QED
      BY <2>2, <3>1, <3>2
  <2>3. CASE todo'[u] # <<>>
    <3>1. (u \in closing') = (u \in closing)
      BY <2>3 DEF Returns
    <3>. QED
      BY <2>1, <3>1
  <2>. QED
    BY <2>2, <2>3
<1>. QED
  BY <1>1, <1>2 DEF OnTheWay, Returns

\* A step of t that leaves the locks of the others as they are.
LEMMA OthersOnTheirWay ==
  ASSUME IInv, NEW t \in Threads, NEW s \in Seq(Steps),
         todo' = [todo EXCEPT ![t] = s], Returns,
         \A u \in Threads \ {t} : HeldBy(u)' = HeldBy(u),
         Walk(s, HeldBy(t)', Nothing, t \in closing)
  PROVE  OnTheWay' /\ todo' \in [Threads -> Seq(Steps)]
         /\ closing' \in SUBSET {u \in Threads : todo'[u] # <<>>}
<1>1. todo \in [Threads -> Seq(Steps)] /\ todo' \in [Threads -> Seq(Steps)]
  BY DEF IInv, TypeOK
<1>2. ASSUME NEW u \in Threads PROVE Walk(todo'[u], HeldBy(u)', Nothing, u \in closing)
  <2>1. CASE u = t
    BY <1>1, <2>1
  <2>2. CASE u # t
    BY <1>1, <2>2 DEF IInv, OnTheWay
  <2>. QED
    BY <2>1, <2>2
<1>. QED
  BY <1>1, <1>2, AllOnTheirWay

\* Only who is at RLock waits as a reader, and only who is at Lock as a writer.
LEMMA Elsewhere ==
  ASSUME IInv, NEW t \in Threads
  PROVE  /\ ~At(t, "RLock") => \A l \in Locks : t \notin waiting[l]
         /\ ~At(t, "Lock") => \A l \in Locks : writer[l] = t => inside[l]
  BY LocksAssumption DEF IInv, Kept

\* Kept after a step of t that leaves the locks alone.
LEMMA KeptAlone ==
  ASSUME IInv, NEW t \in Threads, UNCHANGED lockVars,
         ~At(t, "RLock"), ~At(t, "Lock"),
         \A u \in Threads \ {t} : todo'[u] = todo[u]
  PROVE  Kept'
<1>. USE DEF lockVars
<1>1. Kept /\ waiting \in [Locks -> SUBSET Threads] /\ writer \in [Locks -> Threads \cup {NoThread}]
  BY DEF IInv, TypeOK
<1>2. ASSUME NEW l \in Locks, NEW u \in waiting[l]
      PROVE  At(u, "RLock")' /\ Now(u)'.on = l /\ writer[l] # NoThread
  <2>1. u # t /\ u \in Threads
    BY <1>1, Elsewhere
  <2>. QED
    BY <1>1, <2>1 DEF Kept, At, Now
<1>3. ASSUME NEW l \in Locks, writer[l] # NoThread, ~inside[l]
      PROVE  At(writer[l], "Lock")' /\ Now(writer[l])'.on = l
  <2>1. writer[l] # t /\ writer[l] \in Threads
    BY <1>1, <1>3, Elsewhere
  <2>. QED
    BY <1>1, <1>3, <2>1 DEF Kept, At, Now
<1>. QED
  BY <1>1, <1>2, <1>3 DEF Kept

LEMMA AloneStep ==
  ASSUME IInv, NEW t \in Threads, NEW s \in Seq(Steps), UNCHANGED lockVars,
         ~At(t, "RLock"), ~At(t, "Lock"),
         todo' = [todo EXCEPT ![t] = s], Returns,
         Walk(s, HeldBy(t), Nothing, t \in closing),
         debugOn' \in BOOLEAN, logger' \in {"silent", "channel"} \cup NewLoggers,
         backlog' \in 0..ChanCap
  PROVE  IInv'
<1>1. \A u : HeldBy(u)' = HeldBy(u)
  BY DEF HeldBy, lockVars
<1>2. OnTheWay' /\ todo' \in [Threads -> Seq(Steps)]
      /\ closing' \in SUBSET {u \in Threads : todo'[u] # <<>>}
  BY <1>1, OthersOnTheirWay
<1>3. \A u \in Threads \ {t} : todo'[u] = todo[u]
  BY DEF IInv, TypeOK
<1>4. Kept'
  BY <1>3, KeptAlone
<1>5. TypeOK'
  BY <1>2 DEF IInv, TypeOK, lockVars
<1>. QED
  BY <1>2, <1>4, <1>5 DEF IInv

LEMMA TypeDebug == IInv => /\ debugOn \in BOOLEAN
                           /\ logger \in {"silent", "channel"} \cup NewLoggers
                           /\ backlog \in 0..ChanCap
  BY DEF IInv, TypeOK

LEMMA StepAccess == ASSUME IInv, NEW t \in Threads, Access(t), Returns PROVE IInv'
<1>1. todo[t] # <<>> /\ ~At(t, "RLock") /\ ~At(t, "Lock")
  BY DEF Access, At
<1>2. Now(t).do \in {"Read", "Write"}
  BY DEF Access, At
<1>3. Tail(todo[t]) \in Seq(Steps) /\ Walk(Tail(todo[t]), HeldBy(t), Nothing, t \in closing)
  BY <1>1, <1>2, NowMoves DEF Move
<1>4. todo' = [todo EXCEPT ![t] = Tail(todo[t])] /\ UNCHANGED <<lockVars, debugOn, backlog>>
  BY DEF Access, Done
<1>5. logger' \in NewLoggers \/ logger' = logger
  BY DEF Access
<1>. QED
  BY <1>1, <1>3, <1>4, <1>5, AloneStep, TypeDebug

LEMMA StepSwitch == ASSUME IInv, NEW t \in Threads, Switch(t), Returns PROVE IInv'
<1>1. todo[t] # <<>> /\ Now(t).do = "Debug" /\ ~At(t, "RLock") /\ ~At(t, "Lock")
  BY DEF Switch, At
<1>2. Now(t) \in Steps /\ Tail(todo[t]) \in Seq(Steps)
      /\ Walk(Tail(todo[t]), HeldBy(t), Nothing, t \in closing)
  BY <1>1, NowMoves DEF Move
<1>3. Now(t).on \in BOOLEAN
  <2>1. Now(t) \notin [do : {"RLock", "RUnlock", "Lock", "Unlock", "TryLock"}, on : Locks]
    BY <1>1
  <2>2. Now(t) \notin [do : {"Read", "Write", "Printf"}, on : Options]
    BY <1>1
  <2>3. Now(t) \notin [do : {"IfDebug"}, on : Nat]
    BY <1>1
  <2>4. Now(t) \in [do : {"Debug"}, on : BOOLEAN]
    BY <1>2, <2>1, <2>2, <2>3 DEF Steps
  <2>. QED
    BY <2>4
<1>4. todo' = [todo EXCEPT ![t] = Tail(todo[t])] /\ UNCHANGED <<lockVars, logger, backlog>>
      /\ debugOn' \in BOOLEAN
  BY <1>3 DEF Switch, Done
<1>. QED
  BY <1>1, <1>2, <1>4, AloneStep, TypeDebug

LEMMA StepLook == ASSUME IInv, NEW t \in Threads, Look(t), Returns PROVE IInv'
<1>1. todo[t] # <<>> /\ Now(t).do = "IfDebug" /\ ~At(t, "RLock") /\ ~At(t, "Lock")
  BY DEF Look, At
<1>2. todo[t] \in Seq(Steps) /\ Walk(todo[t], HeldBy(t), Nothing, t \in closing)
  BY DEF IInv, TypeOK, OnTheWay
<1>3. Walk(Tail(todo[t]), HeldBy(t), Nothing, t \in closing)
  BY <1>1, NowMoves DEF Move
<1>4. PICK n \in Nat : n = Now(t).on
                       /\ Walk(SubSeq(todo[t], n + 2, Len(todo[t])), HeldBy(t), Nothing, t \in closing)
  BY <1>1, <1>2, WalkSkip DEF Now
<1>5. Tail(todo[t]) = SubSeq(todo[t], 2, Len(todo[t])) /\ Tail(todo[t]) \in Seq(Steps)
      /\ SubSeq(todo[t], n + 2, Len(todo[t])) \in Seq(Steps)
  BY <1>1, <1>2
<1>6. PICK s \in {Tail(todo[t]), SubSeq(todo[t], n + 2, Len(todo[t]))} :
        todo' = [todo EXCEPT ![t] = s]
  <2>1. CASE debugOn
    BY <1>5, <2>1, 1 + 1 = 2 DEF Look
  <2>2. CASE ~debugOn
    <3>1. n + 1 + 1 = n + 2
      OBVIOUS
    <3>. QED
      BY <1>4, <2>2, <3>1 DEF Look
  <2>. QED
    BY <2>1, <2>2
<1>7. s \in Seq(Steps) /\ Walk(s, HeldBy(t), Nothing, t \in closing)
  BY <1>3, <1>4, <1>5
<1>8. UNCHANGED <<lockVars, debugVars>>
  BY DEF Look
<1>. QED
  BY <1>1, <1>6, <1>7, <1>8, AloneStep, TypeDebug DEF debugVars

LEMMA StepEmit == ASSUME IInv, NEW t \in Threads, Emit(t), Returns PROVE IInv'
<1>1. todo[t] # <<>> /\ Now(t).do = "Printf" /\ ~At(t, "RLock") /\ ~At(t, "Lock")
  BY DEF Emit, At
<1>2. /\ Tail(todo[t]) \in Seq(Steps)
      /\ Walk(Tail(todo[t]), HeldBy(t), Nothing, t \in closing)
      /\ Quiet(HeldBy(t), t \in closing)
  BY <1>1, NowMoves DEF Move
<1>3. Round(GetStatistics, HeldBy(t), t \in closing)
  BY <1>2, RoundStatistics
<1>4. GetStatistics \o Tail(todo[t]) \in Seq(Steps)
      /\ Walk(GetStatistics \o Tail(todo[t]), HeldBy(t), Nothing, t \in closing)
  <2>. DEFINE r == Tail(todo[t])
  <2>1. GetStatistics \in Seq(Steps) /\ r \in Seq(Steps)
    BY <1>2, <1>3 DEF Round
  <2>2. /\ Walk(GetStatistics, HeldBy(t), HeldBy(t), t \in closing)
        /\ Walk(r, HeldBy(t), Nothing, t \in closing)
    BY <1>2, <1>3 DEF Round
  <2>. HIDE DEF r
  <2>3. GetStatistics \o r \in Seq(Steps)
    BY <2>1
  <2>4. Walk(GetStatistics \o r, HeldBy(t), Nothing, t \in closing)
    BY <2>1, <2>2, WalkThen
  <2>. QED
    BY <2>3, <2>4 DEF r
<1>5. UNCHANGED <<lockVars, debugOn, logger>>
  BY DEF Emit
<1>6. \E s \in {Tail(todo[t]), GetStatistics \o Tail(todo[t])} : todo' = [todo EXCEPT ![t] = s]
  BY DEF Emit, Done
<1>7. backlog' \in 0..ChanCap
  <2>1. backlog' = backlog \/ (backlog < ChanCap /\ backlog' = backlog + 1)
    BY DEF Emit
  <2>2. backlog \in 0..ChanCap /\ ChanCap \in Nat
    BY LocksAssumption, TypeDebug
  <2>. QED
    BY <2>1, <2>2
<1>. QED
  BY <1>1, <1>2, <1>4, <1>5, <1>6, <1>7, AloneStep, TypeDebug

LEMMA LockTypes ==
  ASSUME IInv
  PROVE  /\ todo \in [Threads -> Seq(Steps)]
         /\ closing \in SUBSET {t \in Threads : todo[t] # <<>>}
         /\ readers \in [Locks -> SUBSET Threads] /\ waiting \in [Locks -> SUBSET Threads]
         /\ writer \in [Locks -> Threads \cup {NoThread}] /\ inside \in [Locks -> BOOLEAN]
         /\ \A l \in Locks : inside[l] => writer[l] # NoThread
  BY DEF IInv, TypeOK

\* What the next step of the others is does not change with a step of t.
LEMMA SameNow ==
  ASSUME NEW t, NEW u, todo'[u] = todo[u], NEW k
  PROVE  (At(u, k)' <=> At(u, k)) /\ Now(u)' = Now(u)
  BY DEF At, Now

LEMMA StepReadLock == ASSUME IInv, NEW t \in Threads, ReadLock(t), Returns PROVE IInv'
<1>. DEFINE l == Now(t).on
<1>1. todo[t] # <<>> /\ Now(t).do = "RLock" /\ At(t, "RLock") /\ ~At(t, "Lock")
  BY DEF ReadLock, At
<1>2. PICK d \in Held : /\ Move(Now(t), HeldBy(t), d, t \in closing)
                        /\ Walk(Tail(todo[t]), d, Nothing, t \in closing)
  BY <1>1, NowMoves
<1>3. l \in Locks \ {"recycle"}
      /\ d = [r |-> HeldBy(t).r \cup {l}, w |-> HeldBy(t).w]
  BY <1>1, <1>2 DEF Move
<1>4. Tail(todo[t]) \in Seq(Steps) /\ UNCHANGED <<writer, inside, debugVars>>
  BY <1>1, NowMoves DEF ReadLock
<1>. HIDE DEF l
<1>5. CASE /\ writer[l] = NoThread
           /\ readers' = [readers EXCEPT ![l] = @ \cup {t}]
           /\ todo' = [todo EXCEPT ![t] = Tail(todo[t])]
           /\ UNCHANGED waiting
  <2>. USE <1>5
  <2>1. HeldBy(t)' = d
    BY <1>3, <1>4, LockTypes DEF HeldBy
  <2>2. ASSUME NEW u \in Threads \ {t} PROVE HeldBy(u)' = HeldBy(u)
    BY <1>3, <1>4, LockTypes DEF HeldBy
  <2>3. OnTheWay' /\ todo' \in [Threads -> Seq(Steps)]
        /\ closing' \in SUBSET {u \in Threads : todo'[u] # <<>>}
    BY <1>2, <1>4, <2>1, <2>2, OthersOnTheirWay
  <2>4. TypeOK'
    BY <1>3, <1>4, <2>3, LockTypes, TypeDebug DEF TypeOK, debugVars
  <2>5. \A u \in Threads \ {t} : todo'[u] = todo[u]
    BY LockTypes
  <2>6. ASSUME NEW k \in Locks, NEW u \in waiting[k]
        PROVE  At(u, "RLock")' /\ Now(u)'.on = k /\ writer[k] # NoThread
    <3>1. At(u, "RLock") /\ Now(u).on = k /\ writer[k] # NoThread /\ u \in Threads
      BY LockTypes DEF IInv, Kept
    <3>2. u # t
      BY <3>1 DEF l
    <3>. QED
      BY <2>5, <3>1, <3>2, SameNow
  <2>7. ASSUME NEW k \in Locks, writer[k] # NoThread, ~inside[k]
        PROVE  At(writer[k], "Lock")' /\ Now(writer[k])'.on = k
    <3>1. At(writer[k], "Lock") /\ Now(writer[k]).on = k /\ writer[k] \in Threads
      BY <2>7, LockTypes DEF IInv, Kept
    <3>2. writer[k] # t
      BY <1>1, <3>1
    <3>. QED
      BY <1>4, <2>5, <3>1, <3>2 DEF At, Now
  <2>8. readers'["recycle"] = {} /\ \A k \in Locks : inside[k] => readers'[k] = {}
    BY <1>3, LockTypes DEF IInv, Kept, Locks
  <2>9. Kept'
    BY <1>4, <2>6, <2>7, <2>8 DEF Kept
  <2>. QED
    BY <2>3, <2>4, <2>9 DEF IInv
<1>6. CASE /\ writer[l] # NoThread
           /\ waiting' = [waiting EXCEPT ![l] = @ \cup {t}]
           /\ UNCHANGED <<readers, todo>>
  <2>. USE <1>6
  <2>1. closing' = closing
    BY LockTypes DEF Returns
  <2>2. TypeOK'
    BY <1>3, <1>4, <2>1, LockTypes, TypeDebug DEF TypeOK, debugVars
  <2>3. OnTheWay'
    BY <1>4, <2>1 DEF IInv, OnTheWay, HeldBy
  <2>4. \A u, k : (At(u, k)' <=> At(u, k)) /\ Now(u)' = Now(u)
    BY DEF At, Now
  <2>5. ASSUME NEW k \in Locks, NEW u \in waiting'[k]
        PROVE  At(u, "RLock") /\ Now(u).on = k /\ writer[k] # NoThread
    <3>1. u \in waiting[k] \/ (k = l /\ u = t)
      BY <1>3, LockTypes
    <3>. QED
      BY <1>1, <3>1 DEF IInv, Kept, l
  <2>6. Kept'
    BY <1>4, <2>4, <2>5 DEF IInv, Kept
  <2>. QED
    BY <2>2, <2>3, <2>6 DEF IInv
<1>. QED
  BY <1>5, <1>6 DEF ReadLock, Done, l

LEMMA StepReadUnlock == ASSUME IInv, NEW t \in Threads, ReadUnlock(t), Returns PROVE IInv'
<1>. DEFINE l == Now(t).on
<1>1. todo[t] # <<>> /\ Now(t).do = "RUnlock" /\ ~At(t, "RLock") /\ ~At(t, "Lock")
  BY DEF ReadUnlock, At
<1>2. PICK d \in Held : /\ Move(Now(t), HeldBy(t), d, t \in closing)
                        /\ Walk(Tail(todo[t]), d, Nothing, t \in closing)
  BY <1>1, NowMoves
<1>3. l \in Locks /\ d = [r |-> HeldBy(t).r \ {l}, w |-> HeldBy(t).w]
  BY <1>1, <1>2 DEF Move
<1>4. /\ Tail(todo[t]) \in Seq(Steps) /\ UNCHANGED <<waiting, writer, inside, debugVars>>
      /\ readers' = [readers EXCEPT ![l] = @ \ {t}]
      /\ todo' = [todo EXCEPT ![t] = Tail(todo[t])]
  BY <1>1, NowMoves DEF ReadUnlock, Done
<1>. HIDE DEF l
<1>5. HeldBy(t)' = d
  BY <1>3, <1>4, LockTypes DEF HeldBy
<1>6. ASSUME NEW u \in Threads \ {t} PROVE HeldBy(u)' = HeldBy(u)
  BY <1>3, <1>4, LockTypes DEF HeldBy
<1>7. OnTheWay' /\ todo' \in [Threads -> Seq(Steps)]
      /\ closing' \in SUBSET {u \in Threads : todo'[u] # <<>>}
  BY <1>2, <1>4, <1>5, <1>6, OthersOnTheirWay
<1>8. TypeOK'
  BY <1>3, <1>4, <1>7, LockTypes, TypeDebug DEF TypeOK, debugVars
<1>9. Kept'
  <2>1. \A u \in Threads \ {t} : todo'[u] = todo[u]
    BY <1>4, LockTypes
  <2>2. ASSUME NEW k \in Locks, NEW u \in waiting[k]
        PROVE  At(u, "RLock")' /\ Now(u)'.on = k /\ writer[k] # NoThread
    <3>1. At(u, "RLock") /\ Now(u).on = k /\ writer[k] # NoThread /\ u \in Threads \ {t}
      BY <1>1, LockTypes DEF IInv, Kept
    <3>. QED
      BY <2>1, <3>1, SameNow
  <2>3. ASSUME NEW k \in Locks, writer[k] # NoThread, ~inside[k]
        PROVE  At(writer[k], "Lock")' /\ Now(writer[k])'.on = k
    <3>1. At(writer[k], "Lock") /\ Now(writer[k]).on = k /\ writer[k] \in Threads \ {t}
      BY <1>1, <2>3, LockTypes DEF IInv, Kept
    <3>. QED
      BY <1>4, <2>1, <3>1 DEF At, Now
  <2>4. readers'["recycle"] = {} /\ \A k \in Locks : inside[k] => readers'[k] = {}
    BY <1>3, <1>4, LockTypes DEF IInv, Kept, Locks
  <2>. QED
    BY <1>4, <2>2, <2>3, <2>4 DEF Kept
<1>. QED
  BY <1>7, <1>8, <1>9 DEF IInv

LEMMA StepAnnounce == ASSUME IInv, NEW t \in Threads, Announce(t), Returns PROVE IInv'
<1>. DEFINE l == Now(t).on
<1>1. todo[t] # <<>> /\ Now(t).do = "Lock" /\ At(t, "Lock")
  BY DEF Announce, At
<1>2. l \in Locks \ {"recycle"}
  BY <1>1, NowMoves DEF Move
<1>3. /\ writer[l] = NoThread /\ writer' = [writer EXCEPT ![l] = t]
      /\ UNCHANGED <<todo, readers, waiting, inside, debugVars>>
  BY DEF Announce
<1>4. l = Now(t).on
  OBVIOUS
<1>. HIDE DEF l
<1>5. closing' = closing
  BY <1>3, LockTypes DEF Returns
<1>6. ~inside[l] /\ t # NoThread
  BY <1>2, <1>3, LockTypes, LocksAssumption
<1>7. TypeOK'
  BY <1>2, <1>3, <1>5, <1>6, LockTypes, TypeDebug DEF TypeOK, debugVars
<1>8. ASSUME NEW u \in Threads PROVE HeldBy(u)' = HeldBy(u)
  BY <1>2, <1>3, <1>6, LockTypes DEF HeldBy
<1>9. OnTheWay'
  BY <1>3, <1>5, <1>8 DEF IInv, OnTheWay
<1>10. Kept'
  <2>1. ASSUME NEW k \in Locks, NEW u \in waiting[k]
        PROVE  At(u, "RLock")' /\ Now(u)'.on = k /\ writer'[k] # NoThread
    <3>1. At(u, "RLock") /\ Now(u).on = k /\ writer[k] # NoThread
      BY DEF IInv, Kept
    <3>2. writer'[k] # NoThread
      BY <1>2, <1>3, <1>6, <3>1, LockTypes
    <3>. QED
      BY <1>3, <3>1, <3>2 DEF At, Now
  <2>2. ASSUME NEW k \in Locks, writer'[k] # NoThread, ~inside[k]
        PROVE  At(writer[k], "Lock")' /\ Now(writer[k])'.on = k
    <3>1. CASE k = l
      BY <1>1, <1>2, <1>3, <1>4, <3>1, LockTypes DEF At, Now
    <3>2. CASE k # l
      <4>1. writer'[k] = writer[k]
        BY <1>2, <1>3, <3>2, LockTypes
      <4>2. At(writer[k], "Lock") /\ Now(writer[k]).on = k
        BY <2>2, <4>1 DEF IInv, Kept
      <4>. QED
        BY <1>3, <4>1, <4>2 DEF At, Now
    <3>. QED
      BY <3>1, <3>2
  <2>. QED
    BY <1>3, <2>1, <2>2 DEF IInv, Kept
<1>. QED
  BY <1>7, <1>9, <1>10 DEF IInv

LEMMA StepWriteLock == ASSUME IInv, NEW t \in Threads, WriteLock(t), Returns PROVE IInv'
<1>. DEFINE l == Now(t).on
<1>1. todo[t] # <<>> /\ Now(t).do = "Lock" /\ At(t, "Lock") /\ ~At(t, "RLock")
  BY DEF WriteLock, At
<1>2. PICK d \in Held : /\ Move(Now(t), HeldBy(t), d, t \in closing)
                        /\ Walk(Tail(todo[t]), d, Nothing, t \in closing)
  BY <1>1, NowMoves
<1>3. l \in Locks \ {"recycle"} /\ d = [r |-> HeldBy(t).r, w |-> HeldBy(t).w \cup {l}]
  BY <1>1, <1>2 DEF Move
<1>4. /\ Tail(todo[t]) \in Seq(Steps) /\ UNCHANGED <<readers, waiting, writer, debugVars>>
      /\ writer[l] = t /\ readers[l] = {} /\ inside' = [inside EXCEPT ![l] = TRUE]
      /\ todo' = [todo EXCEPT ![t] = Tail(todo[t])]
  BY <1>1, NowMoves DEF WriteLock, Done
<1>5. l = Now(t).on
  OBVIOUS
<1>. HIDE DEF l
<1>6. HeldBy(t)' = d
  BY <1>3, <1>4, LockTypes DEF HeldBy
<1>7. ASSUME NEW u \in Threads \ {t} PROVE HeldBy(u)' = HeldBy(u)
  BY <1>3, <1>4, LockTypes DEF HeldBy
<1>8. OnTheWay' /\ todo' \in [Threads -> Seq(Steps)]
      /\ closing' \in SUBSET {u \in Threads : todo'[u] # <<>>}
  BY <1>2, <1>4, <1>6, <1>7, OthersOnTheirWay
<1>9. TypeOK'
  <2>1. t # NoThread
    BY LocksAssumption
  <2>. QED
    BY <1>3, <1>4, <1>8, <2>1, LockTypes, TypeDebug DEF TypeOK, debugVars
<1>10. Kept'
  <2>1. \A u \in Threads \ {t} : todo'[u] = todo[u]
    BY <1>4, LockTypes
  <2>2. ASSUME NEW k \in Locks, NEW u \in waiting[k]
        PROVE  At(u, "RLock")' /\ Now(u)'.on = k /\ writer[k] # NoThread
    <3>1. At(u, "RLock") /\ Now(u).on = k /\ writer[k] # NoThread /\ u \in Threads \ {t}
      BY <1>1, LockTypes DEF IInv, Kept
    <3>. QED
      BY <2>1, <3>1, SameNow
  <2>3. ASSUME NEW k \in Locks, writer[k] # NoThread, ~inside'[k]
        PROVE  At(writer[k], "Lock")' /\ Now(writer[k])'.on = k
    <3>1. k # l /\ ~inside[k]
      BY <1>3, <1>4, <2>3, LockTypes
    <3>2. At(writer[k], "Lock") /\ Now(writer[k]).on = k /\ writer[k] \in Threads
      BY <2>3, <3>1, LockTypes DEF IInv, Kept
    <3>3. writer[k] # t
      BY <1>5, <3>1, <3>2
    <3>. QED
      BY <1>4, <2>1, <3>2, <3>3 DEF At, Now
  <2>4. readers["recycle"] = {} /\ \A k \in Locks : inside'[k] => readers[k] = {}
    BY <1>3, <1>4, LockTypes DEF IInv, Kept
  <2>. QED
    BY <1>4, <2>2, <2>3, <2>4 DEF Kept
<1>. QED
  BY <1>8, <1>9, <1>10 DEF IInv

LEMMA StepTry == ASSUME IInv, NEW t \in Threads, Try(t), Returns PROVE IInv'
<1>. DEFINE l == Now(t).on
<1>1. todo[t] # <<>> /\ Now(t).do = "TryLock" /\ ~At(t, "Lock") /\ ~At(t, "RLock")
  BY DEF Try, At
<1>2. PICK d \in Held : /\ Move(Now(t), HeldBy(t), d, t \in closing)
                        /\ Walk(Tail(todo[t]), d, Nothing, t \in closing)
  BY <1>1, NowMoves
<1>3. l = "recycle" /\ l \in Locks /\ HeldBy(t) = Nothing /\ d = [r |-> HeldBy(t).r, w |-> {l}]
  BY <1>1, <1>2 DEF Move, Locks
<1>4. Tail(todo[t]) \in Seq(Steps) /\ UNCHANGED <<readers, waiting, debugVars>>
  BY <1>1, NowMoves DEF Try
<1>. HIDE DEF l
<1>5. CASE /\ writer[l] # NoThread /\ todo' = [todo EXCEPT ![t] = <<>>]
           /\ UNCHANGED <<writer, inside>>
  <2>1. <<>> \in Seq(Steps) /\ Walk(<<>>, HeldBy(t), Nothing, t \in closing)
    BY <1>3, HeldTypes, WalkNone
  <2>. QED
    BY <1>1, <1>4, <1>5, <2>1, AloneStep, TypeDebug DEF lockVars, debugVars
<1>6. CASE /\ writer[l] = NoThread
           /\ writer' = [writer EXCEPT ![l] = t] /\ inside' = [inside EXCEPT ![l] = TRUE]
           /\ todo' = [todo EXCEPT ![t] = Tail(todo[t])]
  <2>1. t # NoThread /\ HeldBy(t).w = {}
    BY <1>3, LocksAssumption DEF Nothing
  <2>2. HeldBy(t)' = d
    BY <1>3, <1>4, <1>6, <2>1, LockTypes DEF HeldBy
  <2>3. ASSUME NEW u \in Threads \ {t} PROVE HeldBy(u)' = HeldBy(u)
    BY <1>3, <1>4, <1>6, LockTypes, LocksAssumption DEF HeldBy
  <2>4. OnTheWay' /\ todo' \in [Threads -> Seq(Steps)]
        /\ closing' \in SUBSET {u \in Threads : todo'[u] # <<>>}
    BY <1>2, <1>4, <1>6, <2>2, <2>3, OthersOnTheirWay
  <2>5. TypeOK'
    BY <1>3, <1>4, <1>6, <2>1, <2>4, LockTypes, TypeDebug DEF TypeOK, debugVars
  <2>6. \A u \in Threads \ {t} : todo'[u] = todo[u]
    BY <1>6, LockTypes
  <2>7. ASSUME NEW k \in Locks, NEW u \in waiting[k]
        PROVE  At(u, "RLock")' /\ Now(u)'.on = k /\ writer'[k] # NoThread
    <3>1. At(u, "RLock") /\ Now(u).on = k /\ writer[k] # NoThread /\ u \in Threads \ {t}
      BY <1>1, LockTypes DEF IInv, Kept
    <3>2. writer'[k] # NoThread
      BY <1>3, <1>6, <2>1, <3>1, LockTypes
    <3>. QED
      BY <2>6, <3>1, <3>2, SameNow
  <2>8. ASSUME NEW k \in Locks, writer'[k] # NoThread, ~inside'[k]
        PROVE  At(writer[k], "Lock")' /\ Now(writer[k])'.on = k
    <3>1. k # l /\ ~inside[k] /\ writer'[k] = writer[k]
      BY <1>3, <1>6, <2>8, LockTypes
    <3>2. At(writer[k], "Lock") /\ Now(writer[k]).on = k /\ writer[k] \in Threads \ {t}
      BY <1>1, <2>8, <3>1, LockTypes DEF IInv, Kept
    <3>. QED
      BY <2>6, <3>1, <3>2 DEF At, Now
  <2>9. readers["recycle"] = {} /\ \A k \in Locks : inside'[k] => readers[k] = {}
    BY <1>3, <1>6, LockTypes DEF IInv, Kept
  <2>10. Kept'
    BY <1>4, <2>7, <2>8, <2>9 DEF Kept
  <2>. QED
    BY <2>4, <2>5, <2>10 DEF IInv
<1>. QED
  BY <1>5, <1>6 DEF Try, Done, l

\* The readers that have waited go on with t.
LEMMA StepWriteUnlock == ASSUME IInv, NEW t \in Threads, WriteUnlock(t), Returns PROVE IInv'
<1>. DEFINE l == Now(t).on
<1>1. todo[t] # <<>> /\ Now(t).do = "Unlock" /\ ~At(t, "Lock") /\ ~At(t, "RLock")
  BY DEF WriteUnlock, At
<1>2. PICK d \in Held : /\ Move(Now(t), HeldBy(t), d, t \in closing)
                        /\ Walk(Tail(todo[t]), d, Nothing, t \in closing)
  BY <1>1, NowMoves
<1>3. l \in HeldBy(t).w /\ d = [r |-> HeldBy(t).r, w |-> HeldBy(t).w \ {l}]
  BY <1>1, <1>2 DEF Move
<1>4. /\ writer' = [writer EXCEPT ![l] = NoThread] /\ inside' = [inside EXCEPT ![l] = FALSE]
      /\ readers' = [readers EXCEPT ![l] = waiting[l]]
      /\ waiting' = [waiting EXCEPT ![l] = {}]
      /\ todo' = [u \in Threads |->
                    IF u \in waiting[l] \cup {t} THEN Tail(todo[u]) ELSE todo[u]]
      /\ UNCHANGED debugVars
  BY DEF WriteUnlock
<1>5. Tail(todo[t]) \in Seq(Steps)
  BY <1>1, NowMoves
<1>. HIDE DEF l
<1>6. l \in Locks /\ writer[l] = t /\ inside[l] /\ readers[l] = {} /\ t # NoThread
  BY <1>3, LocksAssumption DEF HeldBy, IInv, Kept
<1>7. ASSUME NEW u \in waiting[l]
      PROVE  /\ u \in Threads \ {t} /\ At(u, "RLock") /\ Now(u).on = l
             /\ l # "recycle" /\ Tail(todo[u]) \in Seq(Steps)
             /\ Walk(Tail(todo[u]), HeldBy(u)', Nothing, u \in closing)
  <2>1. u \in Threads \ {t} /\ At(u, "RLock") /\ Now(u).on = l
    BY <1>1, <1>6, LockTypes DEF IInv, Kept
  <2>2. todo[u] # <<>> /\ Now(u).do = "RLock"
    BY <2>1 DEF At
  <2>3. PICK e \in Held : /\ Move(Now(u), HeldBy(u), e, u \in closing)
                          /\ Walk(Tail(todo[u]), e, Nothing, u \in closing)
    BY <2>1, <2>2, NowMoves
  <2>4. l # "recycle" /\ e = [r |-> HeldBy(u).r \cup {l}, w |-> HeldBy(u).w]
    BY <2>1, <2>2, <2>3 DEF Move
  <2>5. HeldBy(u)' = e
    BY <1>4, <1>6, <2>1, <2>4, LockTypes DEF HeldBy
  <2>. QED
    BY <2>1, <2>2, <2>3, <2>4, <2>5, NowMoves
<1>8. HeldBy(t)' = d
  <2>1. t \notin waiting[l]
    BY <1>7
  <2>. QED
    BY <1>3, <1>4, <1>6, <2>1, LockTypes DEF HeldBy
<1>9. ASSUME NEW u \in Threads \ (waiting[l] \cup {t}) PROVE HeldBy(u)' = HeldBy(u)
  BY <1>4, <1>6, <1>9, LockTypes, LocksAssumption DEF HeldBy
<1>10. todo' \in [Threads -> Seq(Steps)]
  BY <1>4, <1>5, <1>7, LockTypes
<1>11. ASSUME NEW u \in Threads
       PROVE  Walk(todo'[u], HeldBy(u)', Nothing, u \in closing)
  <2>1. CASE u = t
    BY <1>2, <1>4, <1>8, <2>1
  <2>2. CASE u \in waiting[l]
    BY <1>4, <1>7, <2>2
  <2>3. CASE u \notin waiting[l] \cup {t}
    BY <1>4, <1>9, <2>3 DEF IInv, OnTheWay
  <2>. QED
    BY <2>1, <2>2, <2>3
<1>12. OnTheWay' /\ closing' \in SUBSET {u \in Threads : todo'[u] # <<>>}
  BY <1>10, <1>11, AllOnTheirWay
<1>13. TypeOK'
  <2>1. \A k \in Locks : inside'[k] => writer'[k] # NoThread
    BY <1>4, <1>6, LockTypes
  <2>2. readers' \in [Locks -> SUBSET Threads] /\ waiting' \in [Locks -> SUBSET Threads]
        /\ writer' \in [Locks -> Threads \cup {NoThread}] /\ inside' \in [Locks -> BOOLEAN]
    BY <1>4, <1>6, LockTypes
  <2>. QED
    BY <1>4, <1>10, <1>12, <2>1, <2>2, TypeDebug DEF TypeOK, debugVars
<1>14. Kept'
  <2>1. ASSUME NEW k \in Locks, NEW u \in waiting'[k]
        PROVE  At(u, "RLock")' /\ Now(u)'.on = k /\ writer'[k] # NoThread
    <3>1. k # l /\ u \in waiting[k]
      BY <1>4, <1>6, <2>1, LockTypes
    <3>2. At(u, "RLock") /\ Now(u).on = k /\ writer[k] # NoThread /\ u \in Threads
      BY <3>1, LockTypes DEF IInv, Kept
    <3>3. u # t /\ u \notin waiting[l]
      BY <1>1, <1>7, <3>1, <3>2
    <3>4. todo'[u] = todo[u] /\ writer'[k] = writer[k]
      BY <1>4, <1>6, <3>1, <3>2, <3>3, LockTypes
    <3>. QED
      BY <3>2, <3>4, SameNow
  <2>2. ASSUME NEW k \in Locks, writer'[k] # NoThread, ~inside'[k]
        PROVE  At(writer[k], "Lock")' /\ Now(writer[k])'.on = k
    <3>1. k # l /\ ~inside[k] /\ writer'[k] = writer[k]
      BY <1>4, <1>6, <2>2, LockTypes
    <3>2. At(writer[k], "Lock") /\ Now(writer[k]).on = k /\ writer[k] \in Threads
      BY <2>2, <3>1, LockTypes DEF IInv, Kept
    <3>3. writer[k] # t /\ writer[k] \notin waiting[l]
      BY <1>1, <1>7, <3>2 DEF At
    <3>4. todo'[writer[k]] = todo[writer[k]]
      BY <1>4, <3>2, <3>3
    <3>. QED
      BY <3>1, <3>2, <3>4 DEF At, Now
  <2>3. readers'["recycle"] = {}
    <3>1. CASE l = "recycle"
      BY <1>4, <1>6, <1>7, <3>1, LockTypes
    <3>2. CASE l # "recycle"
      BY <1>4, <3>2, LockTypes DEF IInv, Kept, Locks
    <3>. QED
      BY <3>1, <3>2
  <2>4. \A k \in Locks : inside'[k] => readers'[k] = {}
    BY <1>4, <1>6, LockTypes DEF IInv, Kept
  <2>. QED
    BY <2>1, <2>2, <2>3, <2>4 DEF Kept
<1>. QED
  BY <1>12, <1>13, <1>14 DEF IInv

LEMMA StepCall == ASSUME IInv, NEW t \in Threads, Call(t) PROVE IInv'
<1>1. todo[t] = <<>> /\ UNCHANGED <<lockVars, debugVars>>
  BY DEF Call
<1>0. PICK c \in CallsOf[t] : \E s \in Script[c] \ {<<>>} :
        /\ todo' = [todo EXCEPT ![t] = s]
        /\ closing' = IF c = "Close" THEN closing \cup {t} ELSE closing
  BY DEF Call
<1>2. PICK s \in Script[c] \ {<<>>} :
        /\ todo' = [todo EXCEPT ![t] = s]
        /\ closing' = IF c = "Close" THEN closing \cup {t} ELSE closing
  BY <1>0
<1>3. c \in DOMAIN Script
  BY CallsAssumption
<1>4. s \in Seq(Steps) /\ Walk(s, Nothing, Nothing, c = "Close")
  BY <1>3, ScriptTrips DEF Trip, Round
<1>5. HeldBy(t) = Nothing
  <2>1. Walk(<<>>, HeldBy(t), Nothing, t \in closing)
    BY <1>1 DEF IInv, OnTheWay
  <2>2. PICK h \in [1..(Len(<<>>) + 1) -> Held] : h[1] = HeldBy(t) /\ h[Len(<<>>) + 1] = Nothing
    BY <2>1 DEF Walk
  <2>. QED
    BY <2>2
<1>6. t \notin closing
  BY <1>1, LockTypes
<1>7. \A u : HeldBy(u)' = HeldBy(u)
  BY <1>1 DEF HeldBy, lockVars
<1>8. (t \in closing') = (c = "Close") /\ \A u \in Threads \ {t} : (u \in closing') = (u \in closing)
  BY <1>2, <1>6
<1>9. \A u \in Threads \ {t} : todo'[u] = todo[u]
  BY <1>2, LockTypes
<1>10. todo'[t] = s /\ todo' \in [Threads -> Seq(Steps)]
  BY <1>2, <1>4, LockTypes
<1>11. OnTheWay'
  <2>. SUFFICES ASSUME NEW u \in Threads
                PROVE  Walk(todo'[u], HeldBy(u)', Nothing, u \in closing')
    BY DEF OnTheWay
  <2>1. CASE u = t
    BY <1>4, <1>5, <1>7, <1>8, <1>10, <2>1
  <2>2. CASE u # t
    BY <1>7, <1>8, <1>9, <2>2 DEF IInv, OnTheWay
  <2>. QED
    BY <2>1, <2>2
<1>12. TypeOK'
  <2>1. closing' \in SUBSET {u \in Threads : todo'[u] # <<>>}
    BY <1>2, <1>9, <1>10, LockTypes
  <2>. QED
    BY <1>1, <1>10, <2>1 DEF IInv, TypeOK, lockVars, debugVars
<1>13. Kept'
  <2>1. ~At(t, "RLock") /\ ~At(t, "Lock")
    BY <1>1 DEF At
  <2>. QED
    BY <1>1, <1>9, <2>1, KeptAlone
<1>. QED
  BY <1>11, <1>12, <1>13 DEF IInv

LEMMA StepReceive == ASSUME IInv, Receive PROVE IInv'
<1>1. UNCHANGED <<todo, closing, lockVars, debugOn, logger>> /\ backlog' \in 0..ChanCap
  BY TypeDebug, LocksAssumption DEF Receive
<1>2. TypeOK'
  BY <1>1 DEF IInv, TypeOK, lockVars
<1>3. OnTheWay' /\ Kept'
  BY <1>1 DEF IInv, OnTheWay, Kept, HeldBy, At, Now, lockVars
<1>. QED
  BY <1>2, <1>3 DEF IInv

LEMMA LocksStep == IInv /\ [Next]_vars => IInv'
<1>. SUFFICES ASSUME IInv, [Next]_vars PROVE IInv'
  OBVIOUS
<1>1. ASSUME NEW t \in Threads, step(t) PROVE IInv'
  BY <1>1, StepReadLock, StepReadUnlock, StepAnnounce, StepWriteLock, StepTry,
     StepWriteUnlock, StepAccess, StepSwitch, StepLook, StepEmit DEF step
<1>2. CASE UNCHANGED vars
  <2>1. UNCHANGED <<todo, closing, readers, waiting, writer, inside, debugOn, logger, backlog>>
    BY <1>2 DEF vars, lockVars, debugVars
  <2>2. TypeOK'
    BY <2>1 DEF IInv, TypeOK
  <2>3. OnTheWay'
    BY <2>1 DEF IInv, OnTheWay, HeldBy
  <2>4. Kept'
    BY <2>1 DEF IInv, Kept, At, Now
  <2>. QED
    BY <2>2, <2>3, <2>4 DEF IInv
<1>. QED
  BY <1>1, <1>2, StepCall, StepReceive DEF Next

LEMMA LocksInvariant == Spec => []IInv
  BY LocksInit, LocksStep, PTL DEF Spec

(***************************************************************************)
(* Every variable keeps its type; a Close that has returned is over.       *)
(***************************************************************************)
THEOREM TypeCorrect == Spec => []TypeOK
<1>1. IInv => TypeOK
  BY DEF IInv
<1>. QED
  BY <1>1, LocksInvariant, PTL

-----------------------------------------------------------------------------
(* What the invariant says of a goroutine by its next step.                *)

LEMMA HoldsHeld ==
  ASSUME NEW t, NEW l \in Locks
  PROVE  /\ l \in HeldBy(t).r <=> t \in readers[l]
         /\ l \in HeldBy(t).w <=> writer[l] = t /\ inside[l]
         /\ Holds(t, l) <=> l \in HeldBy(t).r \cup HeldBy(t).w
  BY DEF HeldBy, Holds

\* Who writes an option has its lock for writing, who reads it with a getter
\* has it, too.
LEMMA AccessHas ==
  ASSUME IInv, NEW t \in Threads, NEW o \in Options, Now(t).on = o
  PROVE  /\ At(t, "Write") => writer[Guard[o]] = t /\ inside[Guard[o]]
         /\ At(t, "Read") =>
              /\ o = "agents" => Holds(t, "mu")
              /\ o = "timeouts" => Holds(t, "opt")
<1>1. Guard[o] \in Locks /\ "mu" \in Locks /\ "opt" \in Locks
  BY DEF Options, Guard, Locks
<1>2. ASSUME At(t, "Write") PROVE writer[Guard[o]] = t /\ inside[Guard[o]]
  <2>1. todo[t] # <<>> /\ Now(t).do = "Write"
    BY <1>2 DEF At
  <2>2. PICK d \in Held : Move(Now(t), HeldBy(t), d, t \in closing)
    BY <2>1, NowMoves
  <2>3. Guard[o] \in HeldBy(t).w
    BY <2>1, <2>2 DEF Move
  <2>. QED
    BY <1>1, <2>3, HoldsHeld
<1>3. ASSUME At(t, "Read")
      PROVE  (o = "agents" => Holds(t, "mu")) /\ (o = "timeouts" => Holds(t, "opt"))
  <2>1. todo[t] # <<>> /\ Now(t).do = "Read"
    BY <1>3 DEF At
  <2>2. PICK d \in Held : Move(Now(t), HeldBy(t), d, t \in closing)
    BY <2>1, NowMoves
  <2>3. MayRead(o, HeldBy(t))
    BY <2>1, <2>2 DEF Move
  <2>. QED
    BY <1>1, <2>3, HoldsHeld DEF MayRead
<1>. QED
  BY <1>2, <1>3

\* Who waits for a lock has only locks before it, but for Close, which has
\* p5.mu; who has the debug output's lock for reading gives it back at once,
\* and who has it for writing waits for no reading.
LEMMA WaitsAbove ==
  ASSUME IInv, NEW t \in Threads, At(t, "Lock") \/ At(t, "RLock"),
         NEW k \in Locks, Holds(t, k)
  PROVE  /\ Now(t).on \in Locks
         /\ \/ Rank[k] < Rank[Now(t).on]
            \/ /\ t \in closing /\ k = "mu"
               /\ At(t, "RLock") /\ Now(t).on \in {"debug", "mu"}
         /\ k = "debug" => At(t, "Lock") /\ writer[k] = t
<1>1. todo[t] # <<>> /\ Now(t).do \in {"Lock", "RLock"}
  BY DEF At
<1>2. PICK d \in Held : Move(Now(t), HeldBy(t), d, t \in closing)
  BY <1>1, NowMoves
<1>3. k \in HeldBy(t).r \cup HeldBy(t).w
  BY HoldsHeld
<1>4. CASE Now(t).do = "Lock"
  <2>1. /\ Now(t).on \in Locks /\ Above(Now(t).on, HeldBy(t), FALSE)
        /\ "debug" \notin HeldBy(t).r
    BY <1>2, <1>4 DEF Move
  <2>2. Rank[k] < Rank[Now(t).on]
    BY <1>3, <2>1 DEF Above
  <2>3. k = "debug" => writer[k] = t
    BY <1>3, <2>1, HoldsHeld
  <2>. QED
    BY <1>1, <1>4, <2>1, <2>2, <2>3 DEF At
<1>5. CASE Now(t).do = "RLock"
  <2>1. /\ Now(t).on \in Locks /\ Above(Now(t).on, HeldBy(t), t \in closing)
        /\ "debug" \notin HeldBy(t).r \cup HeldBy(t).w
    BY <1>2, <1>5 DEF Move
  <2>2. \/ Rank[k] < Rank[Now(t).on]
        \/ t \in closing /\ k = "mu" /\ Now(t).on \in {"debug", "mu"}
    BY <1>3, <2>1 DEF Above
  <2>. QED
    BY <1>1, <1>3, <1>5, <2>1, <2>2 DEF At
<1>. QED
  BY <1>1, <1>4, <1>5

LEMMA LogsWith ==
  ASSUME IInv, NEW t \in Threads, At(t, "Printf"), NEW k \in Locks, Holds(t, k)
  PROVE  t \in closing /\ k = "mu"
<1>1. todo[t] # <<>> /\ Now(t).do = "Printf"
  BY DEF At
<1>2. PICK d \in Held : Move(Now(t), HeldBy(t), d, t \in closing)
  BY <1>1, NowMoves
<1>3. Quiet(HeldBy(t), t \in closing)
  BY <1>1, <1>2 DEF Move
<1>. QED
  BY <1>3, HoldsHeld DEF Quiet, Nothing, OnlyMu

-----------------------------------------------------------------------------
(* The theorems.                                                           *)

(***************************************************************************)
(* Two setters of an option are never in it together: setters.go keeps     *)
(* every option under one lock, p5.mu or that of the options; and no       *)
(* getter of the user agents or the timeouts is with a setter of them.     *)
(***************************************************************************)
THEOREM OptionsAreGuarded == Spec => []GuardedOptions
<1>1. ASSUME IInv PROVE GuardedOptions
  <2>1. ASSUME NEW o \in Options PROVE ~WriteRaces(o)
    <3>. SUFFICES ASSUME NEW t \in Threads, NEW u \in Threads, t # u,
                         At(t, "Write"), At(u, "Write"), Now(t).on = o, Now(u).on = o
                  PROVE  FALSE
      BY DEF WriteRaces
    <3>. QED
      BY <1>1, AccessHas
  <2>2. ASSUME NEW o \in {"agents", "timeouts"} PROVE ~Races(o)
    <3>. SUFFICES ASSUME NEW t \in Threads, NEW u \in Threads, t # u,
                         At(t, "Write"), Now(t).on = o,
                         At(u, "Write") \/ At(u, "Read"), Now(u).on = o
                  PROVE  FALSE
      BY DEF Races
    <3>1. o \in Options /\ Guard[o] \in Locks
          /\ Guard[o] = IF o = "agents" THEN "mu" ELSE "opt"
      BY DEF Options, Guard, Locks
    <3>2. writer[Guard[o]] = t /\ inside[Guard[o]] /\ readers[Guard[o]] = {}
      BY <1>1, <3>1, AccessHas DEF IInv, Kept
    <3>3. Holds(u, Guard[o])
      BY <1>1, <3>1, AccessHas DEF Holds
    <3>. QED
      BY <3>2, <3>3 DEF Holds
  <2>. QED
    BY <2>1, <2>2 DEF GuardedOptions
<1>. QED
  BY <1>1, LocksInvariant, PTL

(***************************************************************************)
(* The locks are taken in one order and nothing is logged under one, but   *)
(* by Close, which pauses the engine with p5.mu (conductor.go, debug.go).  *)
(***************************************************************************)
THEOREM LocksInOrder == Spec => []LockOrder
<1>1. ASSUME IInv PROVE LockOrder
  <2>. SUFFICES ASSUME NEW t \in Threads, NEW l \in Locks, Holds(t, l),
                       At(t, "Lock") \/ At(t, "RLock") \/ At(t, "Printf")
                PROVE  \/ Rank[l] < Rank[WaitsFor(t)]
                       \/ t \in closing /\ l = "mu"
    BY DEF LockOrder
  <2>1. CASE At(t, "Lock") \/ At(t, "RLock")
    <3>1. WaitsFor(t) = Now(t).on
      BY <2>1 DEF WaitsFor, At
    <3>. QED
      BY <1>1, <2>1, <3>1, WaitsAbove
  <2>2. CASE At(t, "Printf")
    BY <1>1, <2>2, LogsWith
  <2>. QED
    BY <2>1, <2>2
<1>. QED
  BY <1>1, LocksInvariant, PTL

\* In a circle somebody has the lock that is waited for: the writer, or, if that
\* one has only announced itself, a reader it waits for.
LEMMA HeldInCircle ==
  ASSUME IInv, NEW T \in SUBSET Threads, \A t \in T : \E u \in T : BlockedBy(t, u),
         NEW t \in T
  PROVE  /\ At(t, "Lock") \/ At(t, "RLock")
         /\ Now(t).on \in Locks
         /\ \E v \in T : Holds(v, Now(t).on)
<1>. DEFINE l == Now(t).on
<1>1. PICK u \in T : BlockedBy(t, u)
  OBVIOUS
<1>2. At(t, "Lock") \/ At(t, "RLock")
  BY <1>1 DEF BlockedBy
<1>3. l \in Locks
  <2>1. todo[t] # <<>> /\ Now(t).do \in {"Lock", "RLock"}
    BY <1>2 DEF At
  <2>2. PICK d \in Held : Move(Now(t), HeldBy(t), d, t \in closing)
    BY <2>1, NowMoves
  <2>. QED
    BY <2>1, <2>2 DEF Move
<1>4. ASSUME NEW v \in T, Holds(v, l) PROVE \E w \in T : Holds(w, l)
  BY <1>4
<1>5. ASSUME u \notin readers[l] PROVE \E w \in T : Holds(w, l)
  <2>1. writer[l] = u /\ u \in Threads /\ u # NoThread
    BY <1>1, <1>5, LocksAssumption DEF BlockedBy
  <2>2. CASE inside[l]
    <3>1. Holds(u, l)
      BY <2>1, <2>2 DEF Holds
    <3>. QED
      BY <1>4, <3>1
  <2>3. CASE ~inside[l]
    <3>1. At(u, "Lock") /\ Now(u).on = l /\ ~At(u, "RLock")
      BY <1>3, <2>1, <2>3 DEF IInv, Kept, At
    <3>2. PICK v \in T : BlockedBy(u, v)
      OBVIOUS
    <3>3. v \in readers[l]
      BY <2>1, <3>1, <3>2 DEF BlockedBy
    <3>4. Holds(v, l)
      BY <3>3 DEF Holds
    <3>. QED
      BY <1>4, <3>4
  <2>. QED
    BY <2>2, <2>3
<1>6. ASSUME u \in readers[l] PROVE \E w \in T : Holds(w, l)
  <2>1. Holds(u, l)
    BY <1>6 DEF Holds
  <2>. QED
    BY <1>4, <2>1
<1>. QED
  BY <1>2, <1>3, <1>5, <1>6

\* Without the two knots, it waits for a lock further on.
LEMMA FurtherOn ==
  ASSUME IInv, NEW T \in SUBSET Threads, \A t \in T : \E u \in T : BlockedBy(t, u),
         ~Crossed, ~Reentered, NEW t \in T
  PROVE  \E v \in T : Rank[Now(t).on] < Rank[Now(v).on]
<1>1. PICK v \in T : Holds(v, Now(t).on)
  BY HeldInCircle
<1>2. Now(t).on \in Locks /\ (At(v, "Lock") \/ At(v, "RLock")) /\ v \in Threads
  BY HeldInCircle
<1>. SUFFICES ASSUME ~(Rank[Now(t).on] < Rank[Now(v).on]) PROVE FALSE
  OBVIOUS
<1>3. /\ v \in closing /\ Now(t).on = "mu"
      /\ At(v, "RLock") /\ Now(v).on \in {"debug", "mu"}
  BY <1>1, <1>2, WaitsAbove
<1>4. CASE Now(v).on = "mu"
  BY <1>1, <1>3, <1>4 DEF Reentered
<1>5. CASE Now(v).on = "debug"
  <2>1. PICK w \in T : Holds(w, "debug")
    BY <1>5, HeldInCircle
  <2>2. (At(w, "Lock") \/ At(w, "RLock")) /\ w \in Threads /\ "debug" \in Locks
    BY HeldInCircle DEF Locks
  <2>3. At(w, "Lock") /\ ~At(w, "RLock")
        /\ Now(w).on \in Locks /\ Rank["debug"] < Rank[Now(w).on]
    <3>1. At(w, "Lock") /\ Now(w).on \in Locks
      BY <2>1, <2>2, WaitsAbove
    <3>2. ~At(w, "RLock")
      BY <3>1 DEF At
    <3>. QED
      BY <2>1, <2>2, <3>1, <3>2, WaitsAbove
  <2>4. Now(w).on = "mu"
    BY <2>3, Ranks DEF Locks
  <2>. QED
    BY <1>1, <1>2, <1>3, <1>5, <2>1, <2>2, <2>3, <2>4 DEF Crossed
<1>. QED
  BY <1>3, <1>4, <1>5

(***************************************************************************)
(* No set of goroutines waits for one another in a circle, however many    *)
(* they are and whatever they call, unless Close has met a SetLogger or a  *)
(* logger that asks for p5.mu.                                             *)
(***************************************************************************)
THEOREM NoOtherKnot == Spec => []OnlyTwoKnots
<1>1. ASSUME IInv PROVE OnlyTwoKnots
  <2>. SUFFICES ASSUME NEW T \in (SUBSET Threads) \ {{}}, ~Crossed, ~Reentered,
                       \A t \in T : \E u \in T : BlockedBy(t, u)
                PROVE  FALSE
    BY DEF OnlyTwoKnots
  <2>. DEFINE rank(t) == Rank[Now(t).on]
  <2>1. \A t \in T : rank(t) \in 1..4
    BY <1>1, HeldInCircle, RankType
  <2>2. \A t \in T : \E v \in T : rank(t) < rank(v)
    BY <1>1, FurtherOn
  <2>. HIDE DEF rank
  <2>3. PICK t0 \in T : t0 = t0
    OBVIOUS
  <2>4. PICK t1 \in T : rank(t0) < rank(t1)
    BY <2>2
  <2>5. PICK t2 \in T : rank(t1) < rank(t2)
    BY <2>2
  <2>6. PICK t3 \in T : rank(t2) < rank(t3)
    BY <2>2
  <2>7. PICK t4 \in T : rank(t3) < rank(t4)
    BY <2>2
  <2>. QED
    BY <2>1, <2>4, <2>5, <2>6, <2>7
<1>. QED
  BY <1>1, LocksInvariant, PTL
=============================================================================

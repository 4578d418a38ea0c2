------------------------ MODULE EndpointFilter_proofs ------------------------
(***************************************************************************)
(* Proofs about EndpointFilter: what filter makes of the documented lines  *)
(* and of any other, for whatever names, numbers and addresses there are.  *)
(***************************************************************************)
EXTENDS EndpointFilter, FiniteSetTheorems, SequenceTheorems, TLAPS

-----------------------------------------------------------------------------
(* The numbers of a set, in order.                                         *)

Below(S, i) == {j \in S : j < i}

LEMMA BelowFinite ==
  ASSUME NEW S, IsFiniteSet(S), NEW i
  PROVE  /\ IsFiniteSet(Below(S, i)) /\ Cardinality(Below(S, i)) \in Nat
         /\ Cardinality(Below(S, i)) <= Cardinality(S)
         /\ Cardinality(S) \in Nat
BY FS_Subset, FS_CardinalityType DEF Below

\* A larger number has more below it.
LEMMA BelowGrows ==
  ASSUME NEW S \in SUBSET Nat, IsFiniteSet(S), NEW i \in S, NEW j \in Nat, i < j
  PROVE  Cardinality(Below(S, i)) + 1 <= Cardinality(Below(S, j))
<1>. DEFINE U == Below(S, i) \cup {i}
<1>1. IsFiniteSet(Below(S, i)) /\ i \notin Below(S, i) /\ i \in Nat
  BY BelowFinite DEF Below
<1>2. Cardinality(U) = Cardinality(Below(S, i)) + 1
  BY <1>1, FS_AddElement
<1>3. U \subseteq Below(S, j)
  <2>1. \A x \in S : x \in Nat
    OBVIOUS
  <2>2. ASSUME NEW x \in S, x < i PROVE x < j
    BY <1>1, <2>1, <2>2
  <2>. QED
    BY <2>2 DEF Below
<1>4. IsFiniteSet(Below(S, j))
  BY BelowFinite
<1>. QED
  BY <1>2, <1>3, <1>4, FS_Subset

LEMMA BelowLess ==
  ASSUME NEW S \in SUBSET Nat, IsFiniteSet(S), NEW i \in S
  PROVE  Cardinality(Below(S, i)) < Cardinality(S)
<1>1. Below(S, i) \subseteq S \ {i}
  BY DEF Below
<1>2. IsFiniteSet(S \ {i}) /\ Cardinality(S \ {i}) = Cardinality(S) - 1
  BY FS_RemoveElement
<1>3. Cardinality(Below(S, i)) <= Cardinality(S) - 1
  BY <1>1, <1>2, FS_Subset
<1>. QED
  BY <1>3, BelowFinite

\* Nth is the number with k - 1 below it,
LEMMA NthIs ==
  ASSUME NEW S \in SUBSET Nat, IsFiniteSet(S), NEW i \in S
  PROVE  Nth(S, Cardinality(Below(S, i)) + 1) = i
<1>. DEFINE k == Cardinality(Below(S, i)) + 1
            n == Nth(S, k)
<1>1. \A j \in S : j \in Nat
  OBVIOUS
<1>2. n \in S /\ Cardinality(Below(S, n)) = k - 1
  <2>1. Cardinality(Below(S, i)) = k - 1
    BY BelowFinite
  <2>. QED
    BY <2>1 DEF Nth, Below
<1>3. Cardinality(Below(S, n)) = Cardinality(Below(S, i)) /\ Cardinality(Below(S, i)) \in Nat
  BY <1>2, BelowFinite
<1>. HIDE DEF n, k
<1>4. ~(n < i) /\ ~(i < n)
  <2>1. i \in Nat /\ n \in Nat
    BY <1>1, <1>2
  <2>2. n < i => Cardinality(Below(S, n)) + 1 <= Cardinality(Below(S, i))
    BY <1>2, <2>1, BelowGrows
  <2>3. i < n => Cardinality(Below(S, i)) + 1 <= Cardinality(Below(S, n))
    BY <2>1, BelowGrows
  <2>. QED
    BY <1>3, <2>2, <2>3
<1>5. n = i
  BY <1>1, <1>2, <1>4
<1>. QED
  BY <1>5 DEF n, k

\* and every k has one: the numbers have as many ranks as there are.
LEMMA NthIn ==
  ASSUME NEW S \in SUBSET Nat, IsFiniteSet(S), NEW k \in 1..Cardinality(S)
  PROVE  Nth(S, k) \in S /\ Cardinality(Below(S, Nth(S, k))) = k - 1
<1>. DEFINE n == Cardinality(S)
            rank == [i \in S |-> Cardinality(Below(S, i))]
<1>1. n \in Nat
  BY FS_CardinalityType
<1>2. rank \in [S -> 0..(n - 1)]
  BY <1>1, BelowFinite, BelowLess
<1>3. \A i, j \in S : rank[i] = rank[j] => i = j
  BY NthIs
<1>4. rank \in Injection(S, 0..(n - 1))
  BY <1>2, <1>3 DEF Injection, IsInjective
<1>5. IsFiniteSet(0..(n - 1)) /\ Cardinality(0..(n - 1)) = n
  <2>1. n - 1 \in Int /\ 0 \in Int
    BY <1>1
  <2>2. IsFiniteSet(0..(n - 1)) /\ Cardinality(0..(n - 1)) = IF 0 > n - 1 THEN 0 ELSE n - 1 - 0 + 1
    BY <2>1, FS_Interval
  <2>. QED
    BY <1>1, <2>2
<1>6. rank \in Surjection(S, 0..(n - 1))
  BY <1>4, <1>5, FS_Injection
<1>7. PICK i \in S : rank[i] = k - 1
  <2>1. k - 1 \in 0..(n - 1)
    BY <1>1
  <2>. QED
    BY <1>6, <2>1 DEF Surjection
<1>8. Cardinality(Below(S, i)) = k - 1
  BY <1>7
<1>9. Nth(S, k) = i
  BY <1>1, <1>8, NthIs
<1>. QED
  BY <1>8, <1>9

-----------------------------------------------------------------------------
(* Split.  A line is a sequence over any set T of tokens here.             *)

LEMMA CutsBounds ==
  ASSUME NEW T, NEW s \in Seq(T), NEW sep, Len(sep) \in Nat \ {0}
  PROVE  /\ Cuts(s, sep) \in SUBSET Nat /\ IsFiniteSet(Cuts(s, sep))
         /\ \A i \in Cuts(s, sep) : i \in 1..Len(s) /\ i + Len(sep) - 1 <= Len(s)
         /\ Cardinality(Cuts(s, sep)) \in Nat
<1>. DEFINE n == Len(s) + 1 - Len(sep)
<1>1. Len(s) \in Nat /\ n \in Int
  OBVIOUS
<1>2. Cuts(s, sep) \subseteq 1..n
  BY DEF Cuts
<1>3. IsFiniteSet(1..n)
  BY <1>1, FS_Interval
<1>4. IsFiniteSet(Cuts(s, sep)) /\ Cardinality(Cuts(s, sep)) \in Nat
  BY <1>2, <1>3, FS_Subset, FS_CardinalityType
<1>. QED
  BY <1>1, <1>2, <1>4

\* The cuts of a mark are its places.
LEMMA MarkCuts ==
  ASSUME NEW T, NEW s \in Seq(T), NEW m
  PROVE  Cuts(s, <<m>>) = {i \in 1..Len(s) : s[i] = m}
<1>1. Len(<<m>>) = 1 /\ Len(s) \in Nat
  OBVIOUS
<1>2. ASSUME NEW i \in 1..Len(s) PROVE SubSeq(s, i, i) = <<m>> <=> s[i] = m
  <2>1. i \in Int /\ \A j \in i..i : s[j] \in T
    BY <1>1
  <2>2. /\ SubSeq(s, i, i) \in Seq(T) /\ Len(SubSeq(s, i, i)) = 1
        /\ SubSeq(s, i, i)[1] = s[i]
    BY <2>1, SubSeqProperties
  <2>3. \A t \in Seq(T) : Len(t) = 1 => (t = <<m>> <=> t[1] = m)
    OBVIOUS
  <2>. QED
    BY <2>2, <2>3
<1>3. Cuts(s, <<m>>) = {i \in 1..Len(s) : SubSeq(s, i, i) = <<m>>}
  <2>1. Len(s) + 1 - Len(<<m>>) = Len(s)
    BY <1>1
  <2>2. \A i \in 1..Len(s) : i + Len(<<m>>) - 1 = i
    BY <1>1
  <2>. QED
    BY <2>1, <2>2 DEF Cuts
<1>. QED
  BY <1>2, <1>3

\* Where a field begins and ends.
From(s, sep, k) == IF k = 1 THEN 1 ELSE Nth(Cuts(s, sep), k - 1) + Len(sep)
To(s, sep, k) ==
  IF k = Cardinality(Cuts(s, sep)) + 1 THEN Len(s) ELSE Nth(Cuts(s, sep), k) - 1

LEMMA SplitFields ==
  ASSUME NEW T, NEW s \in Seq(T), NEW sep, Len(sep) \in Nat \ {0}
  PROVE  /\ Len(Split(s, sep)) = Cardinality(Cuts(s, sep)) + 1
         /\ DOMAIN Split(s, sep) = 1..(Cardinality(Cuts(s, sep)) + 1)
         /\ \A k \in 1..(Cardinality(Cuts(s, sep)) + 1) :
              /\ Split(s, sep)[k] = SubSeq(s, From(s, sep, k), To(s, sep, k))
              /\ From(s, sep, k) \in Nat \ {0} /\ To(s, sep, k) \in 0..Len(s)
              /\ Split(s, sep)[k] \in Seq(T)
         /\ Split(s, sep) \in Seq(Seq(T))
<1>. DEFINE cut == Cuts(s, sep)
            n == Cardinality(cut)
<1>1. /\ cut \in SUBSET Nat /\ IsFiniteSet(cut) /\ n \in Nat
      /\ \A i \in cut : i \in 1..Len(s)
  BY CutsBounds
<1>2. Split(s, sep) = [k \in 1..(n + 1) |-> SubSeq(s, From(s, sep, k), To(s, sep, k))]
  BY Zenon DEF Split, From, To
<1>3. ASSUME NEW k \in 1..(n + 1)
      PROVE  /\ From(s, sep, k) \in Nat \ {0} /\ To(s, sep, k) \in 0..Len(s)
             /\ SubSeq(s, From(s, sep, k), To(s, sep, k)) \in Seq(T)
  <2>1. From(s, sep, k) \in Nat \ {0}
    <3>1. CASE k = 1
      BY <3>1 DEF From
    <3>2. CASE k # 1
      <4>1. k - 1 \in 1..n
        BY <1>1, <3>2
      <4>2. Nth(cut, k - 1) \in cut
        BY <1>1, <4>1, NthIn
      <4>. QED
        BY <1>1, <3>2, <4>2 DEF From
    <3>. QED
      BY <3>1, <3>2
  <2>2. To(s, sep, k) \in 0..Len(s)
    <3>1. CASE k = n + 1
      BY <3>1 DEF To
    <3>2. CASE k # n + 1
      <4>1. k \in 1..n
        BY <1>1, <3>2
      <4>2. Nth(cut, k) \in cut
        BY <1>1, <4>1, NthIn
      <4>. QED
        BY <1>1, <3>2, <4>2 DEF To
    <3>. QED
      BY <3>1, <3>2
  <2>3. \A i \in From(s, sep, k)..To(s, sep, k) : s[i] \in T
    BY <2>1, <2>2
  <2>. QED
    BY <2>1, <2>2, <2>3, SubSeqProperties
<1>. HIDE DEF n, cut
<1>. DEFINE f == [k \in 1..(n + 1) |-> SubSeq(s, From(s, sep, k), To(s, sep, k))]
<1>4. f \in [1..(n + 1) -> Seq(T)]
  BY <1>3
<1>5. f \in Seq(Seq(T)) /\ Len(f) = n + 1
  BY <1>1, <1>4
<1>. QED
  BY <1>2, <1>3, <1>5 DEF n, cut

\* No mark in a field of that mark.
LEMMA SplitMarkFree ==
  ASSUME NEW T, NEW s \in Seq(T), NEW m,
         NEW k \in 1..(Cardinality(Cuts(s, <<m>>)) + 1)
  PROVE  Split(s, <<m>>)[k] \in Seq(T \ {m})
<1>. DEFINE sep == <<m>>
            cut == Cuts(s, sep)
            n == Cardinality(cut)
            a == From(s, sep, k)
            b == To(s, sep, k)
<1>1. Len(sep) \in Nat \ {0} /\ Len(sep) = 1
  OBVIOUS
<1>2. k \in 1..(n + 1)
  OBVIOUS
<1>4. cut = {i \in 1..Len(s) : s[i] = m}
  BY MarkCuts
<1>. HIDE DEF sep
<1>8. /\ cut \in SUBSET Nat /\ IsFiniteSet(cut) /\ n \in Nat
      /\ \A i \in cut : i \in 1..Len(s)
  BY <1>1, CutsBounds
<1>3. /\ Split(s, sep)[k] = SubSeq(s, a, b)
      /\ a \in Nat \ {0} /\ b \in 0..Len(s)
  BY <1>1, <1>2, SplitFields
<1>5. ASSUME NEW i \in cut, i \in a..b PROVE FALSE
  <2>1. Cardinality(Below(cut, i)) \in Nat /\ Cardinality(Below(cut, i)) <= n - 1
    BY <1>2, <1>8, BelowFinite, BelowLess
  <2>2. Cardinality(Below(cut, i)) >= k - 1
    <3>1. CASE k = 1
      BY <2>1, <3>1
    <3>2. CASE k # 1
      <4>1. k - 1 \in 1..n
        BY <1>2, <1>8, <3>2
      <4>2. Nth(cut, k - 1) \in cut /\ Cardinality(Below(cut, Nth(cut, k - 1))) = k - 2
        BY <1>2, <1>8, <4>1, NthIn
      <4>3. Nth(cut, k - 1) < i
        BY <1>2, <1>8, <1>5, <3>2, <4>2, <1>1 DEF From
      <4>. QED
        BY <1>2, <1>8, <4>2, <4>3, <2>1, BelowGrows
    <3>. QED
      BY <3>1, <3>2
  <2>3. k # n + 1
    BY <1>2, <1>8, <2>1, <2>2
  <2>4. k \in 1..n
    BY <1>2, <1>8, <2>3
  <2>5. Nth(cut, k) \in cut /\ Cardinality(Below(cut, Nth(cut, k))) = k - 1
    BY <1>2, <1>8, <2>4, NthIn
  <2>6. i < Nth(cut, k)
    BY <1>2, <1>8, <1>5, <2>3, <2>5 DEF To
  <2>. QED
    BY <1>2, <1>8, <2>1, <2>2, <2>5, <2>6, BelowGrows
<1>6. ASSUME NEW i \in a..b PROVE s[i] \in T \ {m}
  <2>1. i \in 1..Len(s)
    BY <1>3
  <2>. QED
    BY <2>1, <1>4, <1>5, <1>6
<1>7. SubSeq(s, a, b) \in Seq(T \ {m})
  <2>. HIDE DEF a, b
  <2>. QED
    BY <1>3, <1>6, SubSeqProperties
<1>. QED
  BY <1>3, <1>7 DEF sep

\* Without the separator a line is its own field.
LEMMA SplitNone ==
  ASSUME NEW T, NEW s \in Seq(T), NEW sep, Len(sep) \in Nat \ {0}, ~Has(s, sep)
  PROVE  Split(s, sep) = <<s>>
<1>1. /\ Cuts(s, sep) = {} /\ Cardinality(Cuts(s, sep)) = 0
      /\ 1 \in 1..(Cardinality(Cuts(s, sep)) + 1)
  BY FS_EmptySet DEF Has
<1>2. /\ Len(Split(s, sep)) = 1 /\ Split(s, sep) \in Seq(Seq(T))
      /\ Split(s, sep)[1] = SubSeq(s, From(s, sep, 1), To(s, sep, 1))
  <2>1. /\ Len(Split(s, sep)) = Cardinality(Cuts(s, sep)) + 1 /\ Split(s, sep) \in Seq(Seq(T))
        /\ \A k \in 1..(Cardinality(Cuts(s, sep)) + 1) :
             Split(s, sep)[k] = SubSeq(s, From(s, sep, k), To(s, sep, k))
    BY SplitFields
  <2>. QED
    BY <1>1, <2>1
<1>3. Split(s, sep)[1] = s
  BY <1>1, <1>2, SubSeqFull DEF From, To
<1>4. \A f \in Seq(Seq(T)) : Len(f) = 1 /\ f[1] = s => f = <<s>>
  OBVIOUS
<1>. QED
  BY <1>2, <1>3, <1>4

\* With one, it has the field before and the one after.
LEMMA SplitOnce ==
  ASSUME NEW T, NEW s \in Seq(T), NEW sep, Len(sep) \in Nat \ {0},
         NEW c, Cuts(s, sep) = {c}
  PROVE  /\ Len(Split(s, sep)) = 2
         /\ Split(s, sep)[1] = SubSeq(s, 1, c - 1)
         /\ Split(s, sep)[2] = SubSeq(s, c + Len(sep), Len(s))
<1>1. {c} \in SUBSET Nat /\ IsFiniteSet({c}) /\ Cardinality({c}) = 1
  BY CutsBounds, FS_Singleton
<1>2. Nth({c}, 1) = c
  <2>1. Below({c}, c) = {}
    BY <1>1 DEF Below
  <2>2. Cardinality(Below({c}, c)) = 0
    BY <2>1, FS_EmptySet
  <2>3. Nth({c}, Cardinality(Below({c}, c)) + 1) = c
    BY <1>1, NthIs
  <2>. QED
    BY <2>2, <2>3
<1>3. /\ From(s, sep, 1) = 1 /\ To(s, sep, 1) = c - 1
      /\ From(s, sep, 2) = c + Len(sep) /\ To(s, sep, 2) = Len(s)
  BY <1>1, <1>2 DEF From, To
<1>4. /\ Cardinality(Cuts(s, sep)) + 1 = 2
      /\ 1 \in 1..(Cardinality(Cuts(s, sep)) + 1) /\ 2 \in 1..(Cardinality(Cuts(s, sep)) + 1)
  BY <1>1
<1>5. /\ Len(Split(s, sep)) = Cardinality(Cuts(s, sep)) + 1
      /\ \A k \in 1..(Cardinality(Cuts(s, sep)) + 1) :
           Split(s, sep)[k] = SubSeq(s, From(s, sep, k), To(s, sep, k))
  BY SplitFields
<1>. QED
  BY <1>3, <1>4, <1>5

\* Numbers that are all moved up by a.
Shift(D, a) == {a + i : i \in D}

LEMMA ShiftCount ==
  ASSUME NEW D \in SUBSET Nat, IsFiniteSet(D), NEW a \in Nat
  PROVE  IsFiniteSet(Shift(D, a)) /\ Cardinality(Shift(D, a)) = Cardinality(D)
<1>. DEFINE f == [i \in D |-> a + i]
<1>1. f \in [D -> Shift(D, a)]
  BY DEF Shift
<1>2. \A i, j \in D : f[i] = f[j] => i = j
  <2>1. \A i \in D : i \in Nat
    OBVIOUS
  <2>. QED
    BY <2>1
<1>3. f \in Bijection(D, Shift(D, a))
  BY <1>1, <1>2 DEF Bijection, Injection, IsInjective, Surjection, Shift
<1>. QED
  BY <1>3, FS_Bijection DEF ExistsBijection

\* The numbers of a set that begins with a and goes on with those of D, moved up.
LEMMA FirstAfter ==
  ASSUME NEW D \in SUBSET (Nat \ {0}), IsFiniteSet(D), NEW a \in Nat,
         NEW C, C = {a} \cup Shift(D, a)
  PROVE  /\ C \in SUBSET Nat /\ IsFiniteSet(C) /\ a \notin Shift(D, a)
         /\ Cardinality(C) = Cardinality(D) + 1 /\ Cardinality(D) \in Nat
         /\ Nth(C, 1) = a
<1>1. /\ C \in SUBSET Nat /\ IsFiniteSet(Shift(D, a)) /\ a \notin Shift(D, a)
      /\ Cardinality(Shift(D, a)) = Cardinality(D) /\ Cardinality(D) \in Nat
  <2>1. \A i \in D : a + i \in Nat /\ a + i # a
    OBVIOUS
  <2>. QED
    BY <2>1, ShiftCount, FS_CardinalityType DEF Shift
<1>2. IsFiniteSet(C) /\ Cardinality(C) = Cardinality(D) + 1
  BY <1>1, FS_AddElement
<1>3. Nth(C, 1) = a
  <2>1. \A i \in D : ~(a + i < a)
    OBVIOUS
  <2>2. Below(C, a) = {}
    BY <2>1 DEF Below, Shift
  <2>3. Cardinality(Below(C, a)) = 0
    BY <2>2, FS_EmptySet
  <2>4. Nth(C, Cardinality(Below(C, a)) + 1) = a
    BY <1>1, <1>2, NthIs
  <2>. QED
    BY <2>3, <2>4
<1>. QED
  BY <1>1, <1>2, <1>3

LEMMA NthAfter ==
  ASSUME NEW D \in SUBSET (Nat \ {0}), IsFiniteSet(D), NEW a \in Nat,
         NEW C, C = {a} \cup Shift(D, a), NEW k \in 1..Cardinality(D)
  PROVE  Nth(C, k + 1) = a + Nth(D, k)
<1>0. /\ C \in SUBSET Nat /\ IsFiniteSet(C) /\ a \notin Shift(D, a)
      /\ Cardinality(D) \in Nat
  BY FirstAfter
<1>. DEFINE d == Nth(D, k)
<1>1. d \in D /\ Cardinality(Below(D, d)) = k - 1
  BY NthIn
<1>. HIDE DEF d
<1>2. Below(C, a + d) = Shift(Below(D, d), a) \cup {a}
  <2>1. \A i \in D : a + i < a + d <=> i < d
    BY <1>1
  <2>2. a < a + d
    BY <1>1
  <2>. QED
    BY <2>1, <2>2 DEF Below, Shift
<1>3. IsFiniteSet(Below(D, d)) /\ Below(D, d) \in SUBSET Nat
  BY BelowFinite DEF Below
<1>4. /\ IsFiniteSet(Shift(Below(D, d), a))
      /\ Cardinality(Shift(Below(D, d), a)) = k - 1
  BY <1>1, <1>3, ShiftCount
<1>5. a \notin Shift(Below(D, d), a)
  BY <1>0 DEF Shift, Below
<1>6. Cardinality(Below(C, a + d)) = k
  <2>1. Cardinality(Shift(Below(D, d), a) \cup {a}) = k - 1 + 1
    BY <1>4, <1>5, FS_AddElement
  <2>2. k - 1 + 1 = k
    BY <1>0
  <2>. QED
    BY <1>2, <2>1, <2>2
<1>7. a + d \in C
  BY <1>1 DEF Shift
<1>8. Nth(C, Cardinality(Below(C, a + d)) + 1) = a + d
  BY <1>0, <1>7, NthIs
<1>. QED
  BY <1>6, <1>8 DEF d

\* The fields of a line that begins with one and a mark.
After(x, m, y) == (x \o <<m>>) \o y

LEMMA AfterTokens ==
  ASSUME NEW T, NEW m \in T, NEW x \in Seq(T), NEW y \in Seq(T)
  PROVE  /\ After(x, m, y) \in Seq(T) /\ Len(x) \in Nat /\ Len(y) \in Nat
         /\ Len(After(x, m, y)) = Len(x) + 1 + Len(y)
         /\ \A i \in 1..Len(x) : After(x, m, y)[i] = x[i]
         /\ After(x, m, y)[Len(x) + 1] = m
         /\ \A i \in 1..Len(y) : After(x, m, y)[Len(x) + 1 + i] = y[i]
<1>1. <<m>> \in Seq(T) /\ Len(<<m>>) = 1 /\ <<m>>[1] = m
  OBVIOUS
<1>. DEFINE h == x \o <<m>>
<1>2. /\ h \in Seq(T) /\ Len(h) = Len(x) + 1 /\ h[Len(x) + 1] = m
      /\ \A i \in 1..Len(x) : h[i] = x[i]
  BY <1>1, ConcatProperties
<1>. HIDE DEF h
<1>3. /\ h \o y \in Seq(T) /\ Len(h \o y) = Len(h) + Len(y)
      /\ \A i \in 1..(Len(h) + Len(y)) : (h \o y)[i] = IF i <= Len(h) THEN h[i] ELSE y[i - Len(h)]
  BY <1>2, ConcatProperties
<1>4. Len(x) \in Nat /\ Len(y) \in Nat
  OBVIOUS
<1>5. ASSUME NEW i \in 1..Len(y) PROVE (h \o y)[Len(x) + 1 + i] = y[i]
  BY <1>2, <1>3, <1>4
<1>. QED
  BY <1>2, <1>3, <1>4, <1>5 DEF After, h

LEMMA BeforeSubSeq ==
  ASSUME NEW T, NEW m \in T, NEW x \in Seq(T), NEW y \in Seq(T)
  PROVE  SubSeq(After(x, m, y), 1, Len(x)) = x
<1>. DEFINE s == After(x, m, y)
            a == Len(x) + 1
<1>0. /\ s \in Seq(T) /\ Len(x) \in Nat /\ Len(y) \in Nat
      /\ Len(s) = a + Len(y)
      /\ \A k \in 1..Len(x) : s[k] = x[k]
      /\ \A k \in 1..Len(y) : s[a + k] = y[k]
  <2>1. /\ s \in Seq(T) /\ Len(x) \in Nat /\ Len(y) \in Nat
        /\ Len(s) = a + Len(y)
    BY AfterTokens
  <2>2. \A k \in 1..Len(x) : s[k] = x[k]
    BY AfterTokens
  <2>3. \A k \in 1..Len(y) : s[a + k] = y[k]
    BY AfterTokens
  <2>. QED
    BY <2>1, <2>2, <2>3
<1>1. a \in Nat
  BY <1>0
<1>. HIDE DEF s, a
<1>2. SubSeq(s, 1, Len(x)) = x
  <2>1. Len(x) \in Int /\ 1 \in Int /\ \A k \in 1..Len(x) : s[k] \in T
    BY <1>0, <1>1
  <2>2. /\ SubSeq(s, 1, Len(x)) \in Seq(T)
        /\ Len(SubSeq(s, 1, Len(x))) = IF 1 <= Len(x) THEN Len(x) - 1 + 1 ELSE 0
        /\ \A k \in 1..(Len(x) - 1 + 1) : SubSeq(s, 1, Len(x))[k] = s[1 + k - 1]
    BY <2>1, SubSeqProperties
  <2>3. Len(SubSeq(s, 1, Len(x))) = Len(x)
    BY <1>0, <1>1, <2>2
  <2>4. \A k \in 1..Len(x) : SubSeq(s, 1, Len(x))[k] = x[k]
    BY <1>0, <1>1, <2>2
  <2>. QED
    BY <2>2, <2>3, <2>4, SeqEqual
<1>. QED
  BY <1>2 DEF s

Piece(s, i, j) == SubSeq(s, i, j)

LEMMA AfterSubSeq ==
  ASSUME NEW T, NEW m \in T, NEW x \in Seq(T), NEW y \in Seq(T),
         NEW i \in Nat, NEW j \in Nat, 1 <= i, j <= Len(y)
  PROVE  Piece(After(x, m, y), Len(x) + 1 + i, Len(x) + 1 + j) = Piece(y, i, j)
<1>. DEFINE s == After(x, m, y)
            k == Len(x) + 1
<1>0. /\ s \in Seq(T) /\ Len(x) \in Nat /\ Len(y) \in Nat
      /\ Len(s) = k + Len(y)
      /\ \A l \in 1..Len(x) : s[l] = x[l]
      /\ \A l \in 1..Len(y) : s[k + l] = y[l]
  <2>1. /\ s \in Seq(T) /\ Len(x) \in Nat /\ Len(y) \in Nat
        /\ Len(s) = k + Len(y)
    BY AfterTokens
  <2>2. \A l \in 1..Len(x) : s[l] = x[l]
    BY AfterTokens
  <2>3. \A l \in 1..Len(y) : s[k + l] = y[l]
    BY AfterTokens
  <2>. QED
    BY <2>1, <2>2, <2>3
<1>1. k \in Nat
  BY <1>0
<1>. HIDE DEF s, k
<1>3. SubSeq(s, k + i, k + j) = SubSeq(y, i, j)
  <2>1. /\ k + i \in Int /\ k + j \in Int /\ i \in Int /\ j \in Int
        /\ \A l \in (k + i)..(k + j) : s[l] \in T
        /\ \A l \in i..j : y[l] \in T
    BY <1>0, <1>1
  <2>2. /\ SubSeq(y, i, j) \in Seq(T)
        /\ Len(SubSeq(y, i, j)) = IF i <= j THEN j - i + 1 ELSE 0
        /\ \A l \in 1..(j - i + 1) : SubSeq(y, i, j)[l] = y[i + l - 1]
    BY <2>1, SubSeqProperties
  <2>3. /\ SubSeq(s, k + i, k + j) \in Seq(T)
        /\ Len(SubSeq(s, k + i, k + j)) = IF k + i <= k + j THEN (k + j) - (k + i) + 1 ELSE 0
        /\ \A l \in 1..((k + j) - (k + i) + 1) : SubSeq(s, k + i, k + j)[l] = s[(k + i) + l - 1]
    <3>. DEFINE lo == k + i
                hi == k + j
    <3>1. lo \in Int /\ hi \in Int /\ \A l \in lo..hi : s[l] \in T
      BY <2>1
    <3>. HIDE DEF lo, hi
    <3>2. /\ SubSeq(s, lo, hi) \in Seq(T)
          /\ Len(SubSeq(s, lo, hi)) = IF lo <= hi THEN hi - lo + 1 ELSE 0
          /\ \A l \in 1..(hi - lo + 1) : SubSeq(s, lo, hi)[l] = s[lo + l - 1]
      BY <3>1, SubSeqProperties
    <3>. QED
      BY <3>2 DEF lo, hi
  <2>4. Len(SubSeq(s, k + i, k + j)) = Len(SubSeq(y, i, j))
    BY <1>0, <1>1, <2>1, <2>2, <2>3
  <2>5. ASSUME NEW l \in 1..Len(SubSeq(y, i, j))
        PROVE  SubSeq(s, k + i, k + j)[l] = SubSeq(y, i, j)[l]
    <3>1. l \in 1..(j - i + 1) /\ i + l - 1 \in 1..Len(y)
      BY <1>0, <1>1, <2>2
    <3>2. s[k + (i + l - 1)] = y[i + l - 1]
      BY <1>0, <1>1, <3>1
    <3>3. k + (i + l - 1) = k + i + l - 1 /\ j - i + 1 = k + j - (k + i) + 1
      BY <1>0, <1>1, <3>1
    <3>4. SubSeq(y, i, j)[l] = y[i + l - 1]
      BY <2>2, <3>1
    <3>5. l \in 1..((k + j) - (k + i) + 1)
      <4>1. (k + j) - (k + i) + 1 = j - i + 1
        BY <1>1
      <4>. QED
        BY <3>1, <4>1
    <3>6. SubSeq(s, k + i, k + j)[l] = s[(k + i) + l - 1]
      BY <2>3, <3>5
    <3>. QED
      BY <3>2, <3>3, <3>4, <3>6
  <2>. QED
    BY <2>2, <2>3, <2>4, <2>5, SeqEqual
<1>. QED
  BY <1>3 DEF s, k, Piece

LEMMA AfterCuts ==
  ASSUME NEW T, NEW m \in T, NEW x \in Seq(T \ {m}), NEW y \in Seq(T)
  PROVE  Cuts(After(x, m, y), <<m>>) = {Len(x) + 1} \cup Shift(Cuts(y, <<m>>), Len(x) + 1)
<1>. DEFINE s == After(x, m, y)
            a == Len(x) + 1
<1>1. x \in Seq(T) /\ \A i \in 1..Len(x) : x[i] # m
  OBVIOUS
<1>9. /\ s \in Seq(T) /\ Len(x) \in Nat /\ Len(y) \in Nat
      /\ Len(s) = a + Len(y) /\ s[a] = m
      /\ \A i \in 1..Len(x) : s[i] = x[i]
      /\ \A i \in 1..Len(y) : s[a + i] = y[i]
  <2>1. /\ s \in Seq(T) /\ Len(x) \in Nat /\ Len(y) \in Nat
        /\ Len(s) = a + Len(y) /\ s[a] = m
    BY <1>1, AfterTokens
  <2>2. \A i \in 1..Len(x) : s[i] = x[i]
    BY <1>1, AfterTokens
  <2>3. \A i \in 1..Len(y) : s[a + i] = y[i]
    BY <1>1, AfterTokens
  <2>. QED
    BY <2>1, <2>2, <2>3
<1>. HIDE DEF s
<1>2. a \in Nat /\ \A i \in 1..Len(x) : s[i] # m
  BY <1>1, <1>9
<1>3. Cuts(s, <<m>>) = {i \in 1..Len(s) : s[i] = m}
  BY <1>9, MarkCuts
<1>4. Cuts(y, <<m>>) = {i \in 1..Len(y) : y[i] = m}
  BY MarkCuts
<1>5. ASSUME NEW i \in 1..Len(s), s[i] = m PROVE i = a \/ \E j \in 1..Len(y) : y[j] = m /\ i = a + j
  <2>1. i \notin 1..Len(x)
    BY <1>2, <1>9, <1>5
  <2>2. CASE i > a
    <3>1. i - a \in 1..Len(y) /\ a + (i - a) = i
      BY <1>2, <1>9, <2>2
    <3>2. s[a + (i - a)] = y[i - a]
      BY <1>2, <1>9, <3>1
    <3>. QED
      BY <1>5, <3>1, <3>2
  <2>. QED
    BY <1>2, <1>9, <2>1, <2>2
<1>6. ASSUME NEW j \in 1..Len(y), y[j] = m PROVE a + j \in 1..Len(s) /\ s[a + j] = m
  BY <1>2, <1>9, <1>6
<1>7. a \in 1..Len(s)
  BY <1>2, <1>9
<1>. HIDE DEF a
<1>8. Cuts(s, <<m>>) = {a} \cup Shift(Cuts(y, <<m>>), a)
  <2>1. \A i \in Cuts(s, <<m>>) : i = a \/ i \in Shift(Cuts(y, <<m>>), a)
    BY <1>3, <1>4, <1>5 DEF Shift
  <2>2. \A i \in Shift(Cuts(y, <<m>>), a) : i \in Cuts(s, <<m>>)
    BY <1>3, <1>4, <1>6 DEF Shift
  <2>3. a \in Cuts(s, <<m>>)
    BY <1>3, <1>7, <1>9
  <2>. QED
    BY <2>1, <2>2, <2>3
<1>. QED
  BY <1>8 DEF s, a

\* What follows the first mark is split as a line of its own.
LEMMA SplitAfter ==
  ASSUME NEW T, NEW m \in T, NEW x \in Seq(T \ {m}), NEW y \in Seq(T)
  PROVE  /\ Cardinality(Cuts(After(x, m, y), <<m>>)) = Cardinality(Cuts(y, <<m>>)) + 1
         /\ Len(Split(After(x, m, y), <<m>>)) = Len(Split(y, <<m>>)) + 1
         /\ Split(After(x, m, y), <<m>>)[1] = x
         /\ \A k \in 1..Len(Split(y, <<m>>)) :
              Split(After(x, m, y), <<m>>)[k + 1] = Split(y, <<m>>)[k]
<1>. DEFINE s == After(x, m, y)
            a == Len(x) + 1
            sep == <<m>>
            C == Cuts(s, sep)
            D == Cuts(y, sep)
            n == Cardinality(D)
<1>1. x \in Seq(T) /\ Len(sep) \in Nat \ {0} /\ Len(sep) = 1
  OBVIOUS
<1>2. s \in Seq(T) /\ Len(x) \in Nat /\ Len(y) \in Nat /\ Len(s) = a + Len(y)
  BY <1>1, AfterTokens
<1>3. C = {a} \cup Shift(D, a)
  BY AfterCuts
<1>4. SubSeq(s, 1, Len(x)) = x
  BY <1>1, BeforeSubSeq
<1>5. ASSUME NEW i \in Nat \ {0}, NEW j \in 0..Len(y)
      PROVE  SubSeq(s, a + i, a + j) = SubSeq(y, i, j)
  <2>. HIDE DEF s, a, sep
  <2>1. SubSeq(After(x, m, y), a + i, a + j) = SubSeq(y, i, j)
    <3>1. i \in Nat /\ j \in Nat /\ 1 <= i /\ j <= Len(y)
      BY <1>2
    <3>2. Piece(After(x, m, y), Len(x) + 1 + i, Len(x) + 1 + j) = Piece(y, i, j)
      BY <1>1, <3>1, AfterSubSeq
    <3>. QED
      BY <3>2 DEF Piece, a
  <2>. QED
    BY <2>1 DEF s
<1>6. a \in Nat
  BY <1>2
<1>. HIDE DEF s, a, sep
<1>7. D \in SUBSET (Nat \ {0}) /\ IsFiniteSet(D) /\ n \in Nat
  <2>1. D \in SUBSET Nat /\ IsFiniteSet(D) /\ n \in Nat /\ \A i \in D : i \in 1..Len(y)
    BY <1>1, CutsBounds
  <2>. QED
    BY <2>1
<1>8. /\ Cardinality(C) = n + 1 /\ Nth(C, 1) = a
      /\ \A k \in 1..n : Nth(C, k + 1) = a + Nth(D, k)
  <2>. HIDE DEF C, D
  <2>1. Cardinality(C) = n + 1
    BY <1>3, <1>6, <1>7, FirstAfter
  <2>2. Nth(C, 1) = a
    BY <1>3, <1>6, <1>7, FirstAfter
  <2>3. ASSUME NEW k \in 1..n PROVE Nth(C, k + 1) = a + Nth(D, k)
    BY <1>3, <1>6, <1>7, NthAfter
  <2>. QED
    BY <2>1, <2>2, <2>3
<1>9. /\ Len(Split(y, sep)) = n + 1
      /\ \A k \in 1..(n + 1) :
           /\ Split(y, sep)[k] = SubSeq(y, From(y, sep, k), To(y, sep, k))
           /\ From(y, sep, k) \in Nat \ {0} /\ To(y, sep, k) \in 0..Len(y)
  <2>1. Len(Split(y, sep)) = n + 1
    BY <1>1, SplitFields
  <2>2. ASSUME NEW k \in 1..(n + 1)
        PROVE  /\ Split(y, sep)[k] = SubSeq(y, From(y, sep, k), To(y, sep, k))
               /\ From(y, sep, k) \in Nat \ {0} /\ To(y, sep, k) \in 0..Len(y)
    BY <1>1, SplitFields
  <2>. QED
    BY <2>1, <2>2
<1>10. /\ Len(Split(s, sep)) = Cardinality(C) + 1
       /\ \A k \in 1..(Cardinality(C) + 1) :
            Split(s, sep)[k] = SubSeq(s, From(s, sep, k), To(s, sep, k))
  BY <1>1, <1>2, SplitFields
<1>11. Split(s, sep)[1] = x
  <2>1. From(s, sep, 1) = 1 /\ To(s, sep, 1) = Len(x)
    BY <1>2, <1>7, <1>8 DEF From, To, a
  <2>. QED
    BY <1>4, <1>7, <1>8, <1>10, <2>1
<1>12. ASSUME NEW k \in 1..(n + 1) PROVE Split(s, sep)[k + 1] = Split(y, sep)[k]
  <2>1. From(s, sep, k + 1) = a + From(y, sep, k)
    <3>1. CASE k = 1
      BY <1>1, <1>6, <1>8, <3>1 DEF From
    <3>2. CASE k # 1
      <4>1. k - 1 \in 1..n /\ k - 1 + 1 = k /\ k + 1 - 1 = k
        BY <1>7, <3>2
      <4>2. Nth(C, k) = a + Nth(D, k - 1) /\ Nth(D, k - 1) \in Nat
        BY <1>7, <1>8, <4>1, NthIn
      <4>. QED
        BY <1>1, <1>6, <1>7, <3>2, <4>1, <4>2 DEF From
    <3>. QED
      BY <3>1, <3>2
  <2>2. To(s, sep, k + 1) = a + To(y, sep, k)
    <3>1. CASE k = n + 1
      BY <1>2, <1>7, <1>8, <3>1 DEF To
    <3>2. CASE k # n + 1
      <4>1. k \in 1..n
        BY <1>7, <3>2
      <4>2. Nth(C, k + 1) = a + Nth(D, k) /\ Nth(D, k) \in Nat
        BY <1>7, <1>8, <4>1, NthIn
      <4>. QED
        BY <1>6, <1>7, <1>8, <3>2, <4>1, <4>2 DEF To
    <3>. QED
      BY <3>1, <3>2
  <2>3. k + 1 \in 1..(Cardinality(C) + 1)
    BY <1>7, <1>8
  <2>4. Split(s, sep)[k + 1] = SubSeq(s, a + From(y, sep, k), a + To(y, sep, k))
    BY <1>10, <2>1, <2>2, <2>3
  <2>. QED
    BY <1>5, <1>9, <2>4
<1>. QED
  BY <1>7, <1>8, <1>9, <1>10, <1>11, <1>12 DEF s, sep

-----------------------------------------------------------------------------
(* Lines put together.                                                     *)

LEMMA AfterTyped ==
  ASSUME NEW T, NEW m \in T, NEW x \in Seq(T), NEW y \in Seq(T)
  PROVE  After(x, m, y) \in Seq(T) /\ After(x, m, y) # <<>>
<1>1. /\ After(x, m, y) \in Seq(T) /\ Len(After(x, m, y)) = Len(x) + 1 + Len(y)
      /\ Len(x) \in Nat /\ Len(y) \in Nat
  BY AfterTokens
<1>2. Len(After(x, m, y)) # 0
  BY <1>1
<1>. QED
  BY <1>1, <1>2

LEMMA AfterPair ==
  ASSUME NEW T, NEW m \in T, NEW p \in T, NEW x \in Seq(T)
  PROVE  x \o <<m, p>> = After(x, m, <<p>>)
<1>1. <<m>> \in Seq(T) /\ <<p>> \in Seq(T) /\ <<m>> \o <<p>> = <<m, p>>
  <2>1. <<m>> \in Seq(T) /\ <<p>> \in Seq(T) /\ <<m, p>> \in Seq(T)
    OBVIOUS
  <2>. DEFINE a == <<m>>
              b == <<p>>
              c == <<m, p>>
  <2>2. Len(a) = 1 /\ Len(b) = 1 /\ Len(c) = 2 /\ a[1] = m /\ b[1] = p /\ c[1] = m /\ c[2] = p
    OBVIOUS
  <2>. HIDE DEF a, b, c
  <2>3. /\ a \o b \in Seq(T) /\ Len(a \o b) = 2
        /\ \A i \in 1..2 : (a \o b)[i] = IF i <= 1 THEN a[i] ELSE b[i - 1]
    <3>1. /\ a \o b \in Seq(T) /\ Len(a \o b) = Len(a) + Len(b)
          /\ \A i \in 1..(Len(a) + Len(b)) : (a \o b)[i] = IF i <= Len(a) THEN a[i] ELSE b[i - Len(a)]
      BY <2>1, ConcatProperties DEF a, b
    <3>. QED
      BY <2>2, <3>1
  <2>4. \A i \in 1..2 : (a \o b)[i] = c[i]
    BY <2>2, <2>3
  <2>5. c \in Seq(T)
    BY <2>1 DEF c
  <2>6. a \o b = c
    BY <2>2, <2>3, <2>4, <2>5, SeqEqual
  <2>. QED
    BY <2>1, <2>6 DEF a, b, c
<1>2. (x \o <<m>>) \o <<p>> = x \o (<<m>> \o <<p>>)
  BY <1>1, ConcatAssociative
<1>. QED
  BY <1>1, <1>2 DEF After

LEMMA AfterAfter ==
  ASSUME NEW T, NEW m \in T, NEW o \in T,
         NEW x \in Seq(T), NEW y \in Seq(T), NEW z \in Seq(T)
  PROVE  After(After(x, m, y), o, z) = After(x, m, After(y, o, z))
<1>. DEFINE h == x \o <<m>>
<1>1. h \in Seq(T) /\ <<o>> \in Seq(T)
  BY ConcatProperties
<1>. HIDE DEF h
<1>2. (h \o y) \o <<o>> = h \o (y \o <<o>>)
  BY <1>1, ConcatAssociative
<1>. DEFINE k == y \o <<o>>
<1>3. k \in Seq(T)
  BY <1>1, ConcatProperties
<1>. HIDE DEF k
<1>4. (h \o k) \o z = h \o (k \o z)
  BY <1>1, <1>3, ConcatAssociative
<1>. QED
  BY <1>2, <1>4 DEF After, h, k

\* host:port with a user and password before it.
User(u, q, h, p) == After(After(u, ":", q), "@", After(h, ":", p))

LEMMA Built ==
  ASSUME NEW T, ":" \in T, "@" \in T,
         NEW u \in Seq(T), NEW q \in Seq(T), NEW h \in Seq(T), NEW p \in Seq(T)
  PROVE  /\ buildProxyString(u, q, h, p) =
              IF u # <<>> /\ q # <<>> THEN User(u, q, h, p) ELSE After(h, ":", p)
         /\ buildProxyString(u, q, h, p) \in Seq(T)
         /\ buildProxyString(u, q, h, p) # <<>>
<1>1. After(u, ":", q) \in Seq(T) /\ After(h, ":", p) \in Seq(T) /\ After(h, ":", p) # <<>>
  BY AfterTyped
<1>2. User(u, q, h, p) \in Seq(T) /\ User(u, q, h, p) # <<>>
  BY <1>1, AfterTyped DEF User
<1>3. CASE u # <<>> /\ q # <<>>
  <2>. DEFINE uq == After(u, ":", q)
  <2>1. buildProxyString(u, q, h, p) = (((uq \o <<"@">>) \o h) \o <<":">>) \o p
    BY <1>3 DEF buildProxyString, After
  <2>2. After(After(uq, "@", h), ":", p) = After(uq, "@", After(h, ":", p))
    <3>. HIDE DEF uq
    <3>1. uq \in Seq(T)
      BY <1>1 DEF uq
    <3>. QED
      BY <3>1, AfterAfter
  <2>3. buildProxyString(u, q, h, p) = User(u, q, h, p)
    BY <2>1, <2>2 DEF After, User
  <2>. QED
    BY <1>2, <1>3, <2>3
<1>4. CASE ~(u # <<>> /\ q # <<>>)
  <2>1. <<>> \o h = h
    BY ConcatEmptySeq
  <2>2. buildProxyString(u, q, h, p) = After(h, ":", p)
    BY <1>4, <2>1 DEF buildProxyString, After
  <2>. QED
    BY <1>1, <1>4, <2>2
<1>. QED
  BY <1>3, <1>4

LEMMA NoMark ==
  ASSUME NEW T, NEW m \in T, NEW x \in Seq(T \ {m})
  PROVE  /\ Cardinality(Cuts(x, <<m>>)) = 0 /\ ~Has(x, <<m>>)
         /\ Len(Split(x, <<m>>)) = 1 /\ Split(x, <<m>>)[1] = x
<1>1. /\ Len(<<m>>) \in Nat \ {0}
      /\ \A i \in 1..Len(x) : x[i] # m
  OBVIOUS
<1>2. Cuts(x, <<m>>) = {}
  <2>1. Cuts(x, <<m>>) = {i \in 1..Len(x) : x[i] = m}
    BY MarkCuts
  <2>. QED
    BY <1>1, <2>1
<1>3. ~Has(x, <<m>>)
  BY <1>2 DEF Has
<1>4. Split(x, <<m>>) = <<x>>
  <2>. DEFINE sep == <<m>>
  <2>1. Len(sep) \in Nat \ {0} /\ ~Has(x, sep)
    BY <1>1, <1>3
  <2>. HIDE DEF sep
  <2>2. Split(x, sep) = <<x>>
    BY <2>1, SplitNone
  <2>. QED
    BY <2>2 DEF sep
<1>5. Cardinality(Cuts(x, <<m>>)) = 0
  BY <1>2, FS_EmptySet
<1>. QED
  BY <1>3, <1>4, <1>5

LEMMA TwoFields ==
  ASSUME NEW T, NEW m \in T, NEW x \in Seq(T \ {m}), NEW y \in Seq(T \ {m})
  PROVE  /\ Cardinality(Cuts(After(x, m, y), <<m>>)) = 1 /\ Has(After(x, m, y), <<m>>)
         /\ Len(Split(After(x, m, y), <<m>>)) = 2
         /\ Split(After(x, m, y), <<m>>)[1] = x /\ Split(After(x, m, y), <<m>>)[2] = y
<1>1. y \in Seq(T)
  OBVIOUS
<1>2. /\ Len(Split(y, <<m>>)) = 1 /\ Split(y, <<m>>)[1] = y
      /\ Cardinality(Cuts(y, <<m>>)) = 0
  BY NoMark
<1>3. /\ Cardinality(Cuts(After(x, m, y), <<m>>)) = Cardinality(Cuts(y, <<m>>)) + 1
      /\ Len(Split(After(x, m, y), <<m>>)) = Len(Split(y, <<m>>)) + 1
      /\ Split(After(x, m, y), <<m>>)[1] = x
  BY <1>1, SplitAfter
<1>4. \A k \in 1..Len(Split(y, <<m>>)) :
        Split(After(x, m, y), <<m>>)[k + 1] = Split(y, <<m>>)[k]
  BY <1>1, SplitAfter
<1>5. 1 \in 1..Len(Split(y, <<m>>)) /\ 1 + 1 = 2 /\ 0 + 1 = 1
  BY <1>2
<1>6. Has(After(x, m, y), <<m>>)
  <2>1. Cuts(After(x, m, y), <<m>>) # {}
    <3>1. Cardinality(Cuts(After(x, m, y), <<m>>)) # 0
      BY <1>2, <1>3
    <3>. QED
      BY <3>1, FS_EmptySet
  <2>. QED
    BY <2>1 DEF Has
<1>. QED
  BY <1>2, <1>3, <1>4, <1>5, <1>6

LEMMA ThreeFields ==
  ASSUME NEW T, NEW m \in T, NEW x \in Seq(T \ {m}), NEW y \in Seq(T \ {m}),
         NEW z \in Seq(T \ {m})
  PROVE  /\ Len(Split(After(x, m, After(y, m, z)), <<m>>)) = 3
         /\ Split(After(x, m, After(y, m, z)), <<m>>)[1] = x
         /\ Split(After(x, m, After(y, m, z)), <<m>>)[2] = y
         /\ Split(After(x, m, After(y, m, z)), <<m>>)[3] = z
<1>. DEFINE r == After(y, m, z)
<1>1. r \in Seq(T)
  <2>1. y \in Seq(T) /\ z \in Seq(T)
    OBVIOUS
  <2>. QED
    BY <2>1, AfterTyped
<1>2. Len(Split(r, <<m>>)) = 2 /\ Split(r, <<m>>)[1] = y /\ Split(r, <<m>>)[2] = z
  BY TwoFields
<1>. HIDE DEF r
<1>3. /\ Len(Split(After(x, m, r), <<m>>)) = Len(Split(r, <<m>>)) + 1
      /\ Split(After(x, m, r), <<m>>)[1] = x
  BY <1>1, SplitAfter
<1>4. \A k \in 1..Len(Split(r, <<m>>)) :
        Split(After(x, m, r), <<m>>)[k + 1] = Split(r, <<m>>)[k]
  BY <1>1, SplitAfter
<1>5. 1 \in 1..2 /\ 2 \in 1..2 /\ 1 + 1 = 2 /\ 2 + 1 = 3
  OBVIOUS
<1>. QED
  BY <1>2, <1>3, <1>4, <1>5 DEF r

LEMMA FourFields ==
  ASSUME NEW T, NEW m \in T, NEW x \in Seq(T \ {m}), NEW y \in Seq(T \ {m}),
         NEW z \in Seq(T \ {m}), NEW w \in Seq(T \ {m}),
         NEW s, s = After(x, m, After(y, m, After(z, m, w)))
  PROVE  /\ Len(Split(s, <<m>>)) = 4
         /\ Split(s, <<m>>)[1] = x /\ Split(s, <<m>>)[2] = y
         /\ Split(s, <<m>>)[3] = z /\ Split(s, <<m>>)[4] = w
<1>. DEFINE r == After(y, m, After(z, m, w))
<1>1. r \in Seq(T)
  <2>1. y \in Seq(T) /\ z \in Seq(T) /\ w \in Seq(T)
    OBVIOUS
  <2>. QED
    BY <2>1, AfterTyped
<1>2. /\ Len(Split(r, <<m>>)) = 3 /\ Split(r, <<m>>)[1] = y
      /\ Split(r, <<m>>)[2] = z /\ Split(r, <<m>>)[3] = w
  BY ThreeFields
<1>. HIDE DEF r
<1>3. /\ Len(Split(After(x, m, r), <<m>>)) = Len(Split(r, <<m>>)) + 1
      /\ Split(After(x, m, r), <<m>>)[1] = x
  BY <1>1, SplitAfter
<1>4. \A k \in 1..Len(Split(r, <<m>>)) :
        Split(After(x, m, r), <<m>>)[k + 1] = Split(r, <<m>>)[k]
  BY <1>1, SplitAfter
<1>5. 1 \in 1..3 /\ 2 \in 1..3 /\ 3 \in 1..3 /\ 1 + 1 = 2 /\ 2 + 1 = 3 /\ 3 + 1 = 4
  OBVIOUS
<1>. QED
  BY <1>2, <1>3, <1>4, <1>5 DEF r

-----------------------------------------------------------------------------
(* filter on the documented lines of a proxy whose host is a word.         *)

LEMMA WordTokens ==
  ASSUME NEW w \in Words
  PROVE  /\ w \in Tokens /\ <<w>> \in Seq(Tokens) /\ <<w>> # <<>>
         /\ <<w>> \in Seq(Tokens \ {":"}) /\ <<w>> \in Seq(Tokens \ {"@"})
         /\ <<w>> \in Seq(Tokens \ {"]"}) /\ <<w>> \in Seq(Tokens \ {"["})
         /\ w # ":" /\ w # "@" /\ w # "]" /\ w # "["
<1>1. w \in Tokens /\ w # ":" /\ w # "@" /\ w # "]" /\ w # "["
  BY FilterAssumption DEF Tokens, Marks
<1>. QED
  BY <1>1

LEMMA MarkTokens ==
  /\ ":" \in Tokens /\ "@" \in Tokens /\ "[" \in Tokens /\ "]" \in Tokens
  /\ ":" \in Tokens \ {"@"} /\ "@" \in Tokens \ {":"}
  /\ ":" \in Tokens \ {"]"}
BY DEF Tokens, Marks

LEMMA PortTokens ==
  ASSUME NEW p \in Ports
  PROVE  p \in Words /\ isNumber(<<p>>)
<1>1. p \in Words /\ p \in Numbers
  BY FilterAssumption
<1>. QED
  BY <1>1 DEF isNumber

LEMMA NamedRead ==
  ASSUME NEW w \in Words, NEW p \in Ports
  PROVE  filter(After(<<w>>, ":", <<p>>)) = Ok(After(<<w>>, ":", <<p>>))
<1>. DEFINE h == <<w>>
            n == <<p>>
            s == After(h, ":", n)
<1>1. h \in Seq(Tokens \ {":"}) /\ n \in Seq(Tokens \ {":"}) /\ ":" \in Tokens /\ h # <<>> /\ isNumber(n)
  BY WordTokens, PortTokens, MarkTokens
<1>. HIDE DEF h, n
<1>2. /\ Len(Split(s, <<":">>)) = 2
      /\ Split(s, <<":">>)[1] = h /\ Split(s, <<":">>)[2] = n
  BY <1>1, TwoFields
<1>. HIDE DEF s
<1>3. filterTwo(s, Split(s, <<":">>)) = Ok(s)
  BY <1>1, <1>2 DEF filterTwo, IsDomainName
<1>4. filter(s) = Ok(s)
  BY <1>2, <1>3 DEF filter
<1>. QED
  BY <1>4 DEF s, h, n

LEMMA NamedAfterRead ==
  ASSUME NEW w \in Words, NEW p \in Ports, NEW u \in Words, NEW q \in Words
  PROVE  filter(After(After(<<w>>, ":", <<p>>), ":", After(<<u>>, ":", <<q>>)))
           = Ok(User(<<u>>, <<q>>, <<w>>, <<p>>))
<1>. DEFINE h == <<w>>
            n == <<p>>
            a == <<u>>
            b == <<q>>
            s == After(After(h, ":", n), ":", After(a, ":", b))
<1>1. /\ h \in Seq(Tokens \ {":"}) /\ n \in Seq(Tokens \ {":"}) /\ ":" \in Tokens
      /\ a \in Seq(Tokens \ {":"}) /\ b \in Seq(Tokens \ {":"})
      /\ h # <<>> /\ a # <<>> /\ b # <<>> /\ isNumber(n) /\ "@" \in Tokens
  BY WordTokens, PortTokens, MarkTokens
<1>. HIDE DEF h, n, a, b
<1>2. h \in Seq(Tokens) /\ n \in Seq(Tokens) /\ a \in Seq(Tokens) /\ b \in Seq(Tokens)
  BY <1>1
<1>3. After(a, ":", b) \in Seq(Tokens)
  BY <1>1, <1>2, AfterTyped
<1>4. s = After(h, ":", After(n, ":", After(a, ":", b)))
  BY <1>1, <1>2, <1>3, AfterAfter
<1>. HIDE DEF s
<1>5. /\ Len(Split(s, <<":">>)) = 4
      /\ Split(s, <<":">>)[1] = h /\ Split(s, <<":">>)[2] = n
      /\ Split(s, <<":">>)[3] = a /\ Split(s, <<":">>)[4] = b
  BY <1>1, <1>4, FourFields
<1>6. buildProxyString(a, b, h, n) = User(a, b, h, n)
  BY <1>1, <1>2, Built
<1>7. filterFour(s, Split(s, <<":">>)) = Ok(User(a, b, h, n))
  BY <1>1, <1>5, <1>6 DEF filterFour, IsDomainName
<1>8. filter(s) = Ok(User(a, b, h, n))
  BY <1>5, <1>7 DEF filter
<1>. QED
  BY <1>8 DEF s, h, n, a, b

LEMMA NamedAtRead ==
  ASSUME NEW w \in Words, NEW p \in Ports, NEW u \in Words, NEW q \in Words
  PROVE  filter(User(<<u>>, <<q>>, <<w>>, <<p>>)) = Ok(User(<<u>>, <<q>>, <<w>>, <<p>>))
<1>. DEFINE h == <<w>>
            n == <<p>>
            a == <<u>>
            b == <<q>>
            ab == After(a, ":", b)
            hn == After(h, ":", n)
            bh == After(b, "@", h)
            s == User(a, b, h, n)
            at == Split(s, <<"@">>)
<1>1. /\ h \in Seq(Tokens \ {":"}) /\ n \in Seq(Tokens \ {":"}) /\ ":" \in Tokens
      /\ a \in Seq(Tokens \ {":"}) /\ b \in Seq(Tokens \ {":"})
      /\ h # <<>> /\ a # <<>> /\ b # <<>> /\ isNumber(n) /\ "@" \in Tokens
  BY WordTokens, PortTokens, MarkTokens
<1>2. /\ h \in Seq(Tokens \ {"@"}) /\ n \in Seq(Tokens \ {"@"})
      /\ a \in Seq(Tokens \ {"@"}) /\ b \in Seq(Tokens \ {"@"})
  BY WordTokens, PortTokens, MarkTokens
<1>. HIDE DEF h, n, a, b
<1>3. h \in Seq(Tokens) /\ n \in Seq(Tokens) /\ a \in Seq(Tokens) /\ b \in Seq(Tokens)
  BY <1>1
<1>4. /\ ab \in Seq(Tokens \ {"@"}) /\ hn \in Seq(Tokens \ {"@"})
      /\ bh \in Seq(Tokens \ {":"}) /\ hn \in Seq(Tokens) /\ bh \in Seq(Tokens)
  <2>1. ":" \in Tokens \ {"@"} /\ "@" \in Tokens \ {":"}
    BY MarkTokens
  <2>. QED
    BY <1>1, <1>2, <1>3, <2>1, AfterTyped
<1>5. s = After(a, ":", After(bh, ":", n))
  <2>1. s = After(a, ":", After(b, "@", hn))
    BY <1>1, <1>3, <1>4, AfterAfter DEF User
  <2>2. After(b, "@", hn) = After(bh, ":", n)
    BY <1>1, <1>3, AfterAfter
  <2>. QED
    BY <2>1, <2>2
<1>6. Len(Split(s, <<":">>)) = 3
  <2>. HIDE DEF s, bh
  <2>1. Len(Split(After(a, ":", After(bh, ":", n)), <<":">>)) = 3
    <3>1. /\ a \in Seq(Tokens \ {":"}) /\ bh \in Seq(Tokens \ {":"}) /\ n \in Seq(Tokens \ {":"})
          /\ ":" \in Tokens
      BY <1>1, <1>4
    <3>. QED
      BY <3>1, ThreeFields
  <2>. QED
    BY <1>5, <2>1
<1>7. Has(s, <<"@">>) /\ at[1] = ab /\ at[2] = hn
  <2>1. s = After(ab, "@", hn)
    BY DEF User
  <2>. HIDE DEF s, ab, hn
  <2>2. /\ Has(After(ab, "@", hn), <<"@">>)
        /\ Split(After(ab, "@", hn), <<"@">>)[1] = ab /\ Split(After(ab, "@", hn), <<"@">>)[2] = hn
    <3>1. ab \in Seq(Tokens \ {"@"}) /\ hn \in Seq(Tokens \ {"@"}) /\ "@" \in Tokens
      BY <1>1, <1>4
    <3>. QED
      BY <3>1, TwoFields
  <2>. QED
    BY <2>1, <2>2
<1>8. /\ Has(ab, <<":">>)
      /\ Split(ab, <<":">>)[1] = a /\ Split(ab, <<":">>)[2] = b
  BY <1>1, TwoFields
<1>9. /\ Len(Split(hn, <<":">>)) = 2
      /\ Split(hn, <<":">>)[1] = h /\ Split(hn, <<":">>)[2] = n
  BY <1>1, TwoFields
<1>10. buildProxyString(a, b, h, n) = s
  BY <1>1, <1>3, Built
<1>. HIDE DEF s, ab, hn
<1>11. filterThree(s) = Ok(s)
  BY <1>1, <1>7, <1>8, <1>9, <1>10 DEF filterThree, IsDomainName
<1>12. filter(s) = Ok(s)
  BY <1>6, <1>11 DEF filter
<1>. QED
  BY <1>12 DEF s, h, n, a, b

-----------------------------------------------------------------------------
(* filter on the documented lines of a proxy with an IPv6 address.         *)

LEMMA PairCuts ==
  ASSUME NEW T, NEW s \in Seq(T), NEW m, NEW o
  PROVE  Cuts(s, <<m, o>>) = {i \in 1..(Len(s) - 1) : s[i] = m /\ s[i + 1] = o}
<1>1. Len(<<m, o>>) = 2 /\ Len(s) \in Nat
  OBVIOUS
<1>2. ASSUME NEW i \in 1..(Len(s) - 1)
      PROVE  SubSeq(s, i, i + 1) = <<m, o>> <=> s[i] = m /\ s[i + 1] = o
  <2>1. i \in Int /\ i + 1 \in Int /\ \A j \in i..(i + 1) : s[j] \in T
    BY <1>1
  <2>. DEFINE k == i + 1
              p == SubSeq(s, i, k)
  <2>2. k \in Int /\ k = i + 1
    BY <2>1
  <2>3. \A j \in i..k : s[j] \in T
    BY <2>1
  <2>. HIDE DEF k
  <2>4. /\ p \in Seq(T) /\ Len(p) = IF i <= k THEN k - i + 1 ELSE 0
        /\ \A j \in 1..(k - i + 1) : p[j] = s[i + j - 1]
    BY <2>1, <2>2, <2>3, SubSeqProperties
  <2>. HIDE DEF p
  <2>5. k - i + 1 = 2 /\ i <= k
    BY <2>1, <2>2
  <2>6. Len(p) = 2
    BY <2>4, <2>5
  <2>7. p[1] = s[i]
    <3>1. p[1] = s[i + 1 - 1]
      BY <2>4, <2>5
    <3>. QED
      BY <2>1, <3>1
  <2>8. p[2] = s[k]
    <3>1. p[2] = s[i + 2 - 1]
      BY <2>4, <2>5
    <3>2. i + 2 - 1 = k
      BY <2>1, <2>2
    <3>. QED
      BY <3>1, <3>2
  <2>9. \A t \in Seq(T) : Len(t) = 2 => (t = <<m, o>> <=> t[1] = m /\ t[2] = o)
    OBVIOUS
  <2>10. p = <<m, o>> <=> s[i] = m /\ s[k] = o
    BY <2>4, <2>6, <2>7, <2>8, <2>9
  <2>. QED
    BY <2>10 DEF p, k
<1>3. Cuts(s, <<m, o>>) = {i \in 1..(Len(s) - 1) : SubSeq(s, i, i + 1) = <<m, o>>}
  <2>1. Len(s) + 1 - Len(<<m, o>>) = Len(s) - 1
    BY <1>1
  <2>2. \A i \in 1..(Len(s) - 1) : i + Len(<<m, o>>) - 1 = i + 1
    BY <1>1
  <2>. QED
    BY <2>1, <2>2 DEF Cuts
<1>. QED
  BY <1>2, <1>3

\* The tokens of an address, and of what follows it.
V6Tokens == Words \cup {":"}
Opened(a) == <<"[">> \o a

LEMMA BracketedTokens ==
  ASSUME NEW a \in Seq(V6Tokens)
  PROVE  /\ Opened(a) \in Seq(Tokens) /\ Bracketed(a) \in Seq(Tokens) /\ Len(a) \in Nat
         /\ Opened(a) \in Seq(Tokens \ {"]"})
         /\ Len(Opened(a)) = Len(a) + 1 /\ Len(Bracketed(a)) = Len(a) + 2
         /\ Bracketed(a)[1] = "[" /\ Bracketed(a)[Len(a) + 2] = "]"
         /\ \A i \in 1..Len(a) : Bracketed(a)[i + 1] = a[i]
         /\ Append(Opened(a), "]") = Bracketed(a)
         /\ Bracketed(a) # <<>>
<1>1. /\ V6Tokens \subseteq Tokens /\ V6Tokens \subseteq Tokens \ {"]"}
      /\ "[" \in Tokens \ {"]"} /\ "]" \in Tokens /\ "[" \in Tokens
  BY FilterAssumption DEF V6Tokens, Tokens, Marks
<1>2. a \in Seq(Tokens) /\ a \in Seq(Tokens \ {"]"}) /\ Len(a) \in Nat
  BY <1>1
<1>. DEFINE o == <<"[">>
            c == <<"]">>
            h == o \o a
<1>3. /\ o \in Seq(Tokens) /\ o \in Seq(Tokens \ {"]"}) /\ Len(o) = 1 /\ o[1] = "["
      /\ c \in Seq(Tokens) /\ Len(c) = 1 /\ c[1] = "]"
  BY <1>1
<1>. HIDE DEF o, c
<1>4. /\ h \in Seq(Tokens) /\ Len(h) = Len(o) + Len(a)
      /\ \A i \in 1..(Len(o) + Len(a)) : h[i] = IF i <= Len(o) THEN o[i] ELSE a[i - Len(o)]
  BY <1>2, <1>3, ConcatProperties
<1>5. h \in Seq(Tokens \ {"]"})
  BY <1>2, <1>3, ConcatProperties
<1>6. /\ Len(h) = Len(a) + 1 /\ h[1] = "["
      /\ \A i \in 1..Len(a) : h[i + 1] = a[i]
  BY <1>2, <1>3, <1>4
<1>. HIDE DEF h
<1>7. /\ h \o c \in Seq(Tokens) /\ Len(h \o c) = Len(h) + Len(c)
      /\ \A i \in 1..(Len(h) + Len(c)) : (h \o c)[i] = IF i <= Len(h) THEN h[i] ELSE c[i - Len(h)]
  <2>1. h \in Seq(Tokens) /\ c \in Seq(Tokens)
    BY <1>3, <1>4
  <2>. QED
    BY <2>1, ConcatProperties
<1>8. /\ Len(h \o c) = Len(a) + 2 /\ (h \o c)[1] = "[" /\ (h \o c)[Len(a) + 2] = "]"
      /\ \A i \in 1..Len(a) : (h \o c)[i + 1] = a[i]
  BY <1>2, <1>3, <1>6, <1>7
<1>9. Append(h, "]") = h \o c
  <2>1. /\ Append(h, "]") \in Seq(Tokens) /\ Len(Append(h, "]")) = Len(h) + 1
        /\ \A i \in 1..Len(h) : Append(h, "]")[i] = h[i]
        /\ Append(h, "]")[Len(h) + 1] = "]"
    BY <1>1, <1>4
  <2>2. \A i \in 1..(Len(h) + 1) : Append(h, "]")[i] = (h \o c)[i]
    BY <1>2, <1>3, <1>6, <1>7, <2>1
  <2>3. Len(Append(h, "]")) = Len(h \o c)
    BY <1>3, <1>7, <2>1
  <2>. HIDE DEF h
  <2>. DEFINE p == Append(h, "]")
              q == h \o c
  <2>4. p \in Seq(Tokens) /\ q \in Seq(Tokens) /\ Len(p) = Len(q) /\ \A i \in 1..Len(p) : p[i] = q[i]
    BY <1>7, <2>1, <2>2, <2>3
  <2>. HIDE DEF p, q
  <2>5. p = q
    BY <2>4, SeqEqual
  <2>. QED
    BY <2>5 DEF p, q
<1>10. Opened(a) = h /\ Bracketed(a) = h \o c
  BY DEF h, o, c, Opened, Bracketed
<1>11. h \o c # <<>>
  BY <1>2, <1>8
<1>. QED
  BY <1>2, <1>4, <1>5, <1>6, <1>7, <1>8, <1>9, <1>10, <1>11

\* An address in brackets, a colon and the rest of the line.
LEMMA V6Tail ==
  ASSUME NEW a \in Seq(V6Tokens), NEW z \in Seq(V6Tokens),
         NEW l, l = After(Bracketed(a), ":", z)
  PROVE  /\ l \in Seq(Tokens) /\ z \in Seq(Tokens) /\ Has(l, <<"[">>)
         /\ Cuts(l, <<"]", ":">>) = {Len(a) + 2}
<1>. DEFINE B == Bracketed(a)
            n == Len(a)
<1>1. /\ B \in Seq(Tokens) /\ n \in Nat /\ Len(B) = n + 2
      /\ B[1] = "[" /\ B[n + 2] = "]" /\ \A i \in 1..n : B[i + 1] = a[i]
  BY BracketedTokens
<1>2. z \in Seq(Tokens) /\ Len(z) \in Nat
  <2>1. V6Tokens \subseteq Tokens
    BY DEF V6Tokens, Tokens, Marks
  <2>. QED
    BY <2>1
<1>3. /\ \A i \in 1..n : a[i] # "]"
      /\ \A i \in 1..Len(z) : z[i] # "]"
  <2>1. \A t \in V6Tokens : t # "]"
    BY FilterAssumption DEF V6Tokens, Marks
  <2>. QED
    BY <2>1
<1>. HIDE DEF B, n
<1>4. l = After(B, ":", z)
  BY DEF B
<1>4a. B \in Seq(Tokens) /\ z \in Seq(Tokens) /\ ":" \in Tokens
  BY <1>1, <1>2, MarkTokens
<1>5. /\ l \in Seq(Tokens) /\ Len(l) = Len(B) + 1 + Len(z)
      /\ l[Len(B) + 1] = ":"
  <2>1. /\ After(B, ":", z) \in Seq(Tokens) /\ Len(After(B, ":", z)) = Len(B) + 1 + Len(z)
        /\ After(B, ":", z)[Len(B) + 1] = ":"
    BY <1>4a, AfterTokens
  <2>. QED
    BY <1>4, <2>1
<1>6. \A i \in 1..Len(B) : l[i] = B[i]
  <2>1. \A i \in 1..Len(B) : After(B, ":", z)[i] = B[i]
    BY <1>4a, AfterTokens
  <2>. QED
    BY <1>4, <2>1
<1>7. \A i \in 1..Len(z) : l[Len(B) + 1 + i] = z[i]
  <2>1. \A i \in 1..Len(z) : After(B, ":", z)[Len(B) + 1 + i] = z[i]
    BY <1>4a, AfterTokens
  <2>. QED
    BY <1>4, <2>1
<1>8. Len(l) = n + 3 + Len(z) /\ l[1] = "[" /\ l[n + 2] = "]" /\ l[n + 3] = ":"
  <2>1. 1 \in 1..Len(B) /\ n + 2 \in 1..Len(B) /\ Len(B) + 1 = n + 3
    BY <1>1
  <2>. QED
    BY <1>1, <1>2, <1>5, <1>6, <2>1
<1>9. ASSUME NEW i \in 1..Len(l), l[i] = "]" PROVE i = n + 2
  <2>1. CASE i \in 2..(n + 1)
    <3>1. i - 1 \in 1..n /\ (i - 1) + 1 = i /\ i \in 1..Len(B)
      BY <1>1, <2>1
    <3>2. B[(i - 1) + 1] = a[i - 1]
      BY <1>1, <3>1
    <3>. QED
      BY <1>3, <1>6, <1>9, <3>1, <3>2
  <2>2. CASE i > n + 3
    <3>1. i - (n + 3) \in 1..Len(z) /\ Len(B) + 1 + (i - (n + 3)) = i
      BY <1>1, <1>2, <1>8, <2>2
    <3>2. l[Len(B) + 1 + (i - (n + 3))] = z[i - (n + 3)]
      BY <1>7, <3>1
    <3>. QED
      BY <1>3, <1>9, <3>1, <3>2
  <2>3. i # 1 /\ i # n + 3
    BY <1>8, <1>9
  <2>. QED
    BY <1>1, <1>8, <2>1, <2>2, <2>3
<1>10. Cuts(l, <<"]", ":">>) = {n + 2}
  <2>1. Cuts(l, <<"]", ":">>) = {i \in 1..(Len(l) - 1) : l[i] = "]" /\ l[i + 1] = ":"}
    BY <1>5, PairCuts
  <2>2. \A i \in 1..(Len(l) - 1) : l[i] = "]" => i = n + 2
    <3>1. \A i \in 1..(Len(l) - 1) : i \in 1..Len(l)
      BY <1>1, <1>2, <1>8
    <3>. QED
      BY <1>9, <3>1
  <2>3. n + 2 \in 1..(Len(l) - 1) /\ (n + 2) + 1 = n + 3
    BY <1>1, <1>2, <1>8
  <2>. QED
    BY <1>8, <2>1, <2>2, <2>3
<1>11. Has(l, <<"[">>)
  <2>1. Cuts(l, <<"[">>) = {i \in 1..Len(l) : l[i] = "["}
    BY <1>5, MarkCuts
  <2>2. 1 \in 1..Len(l)
    BY <1>1, <1>2, <1>8
  <2>. QED
    BY <1>8, <2>1, <2>2 DEF Has
<1>. QED
  BY <1>2, <1>5, <1>10, <1>11 DEF n

LEMMA V6Split ==
  ASSUME NEW a \in Seq(V6Tokens), NEW z \in Seq(V6Tokens),
         NEW l, l = After(Bracketed(a), ":", z)
  PROVE  /\ Has(l, <<"]", ":">>) /\ Len(Split(l, <<"]", ":">>)) = 2
         /\ Split(l, <<"]", ":">>)[1] = Opened(a)
         /\ Split(l, <<"]", ":">>)[2] = z
<1>. DEFINE n == Len(a)
            sep == <<"]", ":">>
            x == Opened(a)
            B == Bracketed(a)
<1>1. l \in Seq(Tokens) /\ z \in Seq(Tokens) /\ Cuts(l, sep) = {n + 2}
  BY V6Tail
<1>2. Len(sep) \in Nat \ {0} /\ Len(sep) = 2
  OBVIOUS
<1>3. /\ x \in Seq(Tokens) /\ B \in Seq(Tokens) /\ n \in Nat
      /\ Len(x) = n + 1 /\ Len(B) = n + 2
  BY BracketedTokens
<1>4. B = x \o <<"]">>
  BY DEF Bracketed, Opened
<1>. HIDE DEF sep, x, B
<1>5. /\ Len(Split(l, sep)) = 2
      /\ Split(l, sep)[1] = SubSeq(l, 1, (n + 2) - 1)
      /\ Split(l, sep)[2] = SubSeq(l, (n + 2) + Len(sep), Len(l))
  <2>. DEFINE c == n + 2
  <2>1. Cuts(l, sep) = {c}
    BY <1>1
  <2>. HIDE DEF c
  <2>2. /\ Len(Split(l, sep)) = 2
        /\ Split(l, sep)[1] = SubSeq(l, 1, c - 1)
        /\ Split(l, sep)[2] = SubSeq(l, c + Len(sep), Len(l))
    <3>1. l \in Seq(Tokens) /\ Len(sep) \in Nat \ {0} /\ Cuts(l, sep) = {c}
      BY <1>1, <1>2, <2>1
    <3>. QED
      BY <3>1, SplitOnce
  <2>. QED
    BY <2>2 DEF c
<1>6. l = After(B, ":", z)
  BY DEF B
<1>7. SubSeq(l, 1, n + 1) = x
  <2>. DEFINE w == <<":">> \o z
  <2>1. w \in Seq(Tokens)
    <3>1. <<":">> \in Seq(Tokens)
      BY MarkTokens
    <3>. QED
      BY <1>1, <3>1, ConcatProperties
  <2>2. l = B \o w
    <3>1. <<":">> \in Seq(Tokens)
      BY MarkTokens
    <3>. DEFINE c == <<":">>
    <3>2. c \in Seq(Tokens) /\ B \in Seq(Tokens) /\ z \in Seq(Tokens)
      BY <1>1, <1>3, <3>1
    <3>. HIDE DEF c
    <3>3. (B \o c) \o z = B \o (c \o z)
      BY <3>2, ConcatAssociative
    <3>. QED
      BY <1>6, <3>3 DEF After, c
  <2>. HIDE DEF w
  <2>3. l = After(x, "]", w)
    BY <1>4, <2>2 DEF After
  <2>4. SubSeq(After(x, "]", w), 1, Len(x)) = x
    BY <1>3, <2>1, MarkTokens, BeforeSubSeq
  <2>. QED
    BY <1>3, <2>3, <2>4
<1>8. SubSeq(l, n + 4, Len(l)) = z
  <2>1. Len(z) \in Nat /\ Len(l) = Len(B) + 1 + Len(z)
    <3>1. /\ Len(After(B, ":", z)) = Len(B) + 1 + Len(z) /\ Len(z) \in Nat
      <4>1. B \in Seq(Tokens) /\ z \in Seq(Tokens) /\ ":" \in Tokens
        BY <1>1, <1>3, MarkTokens
      <4>. QED
        BY <4>1, AfterTokens
    <3>. QED
      BY <1>6, <3>1
  <2>2. SubSeq(z, 1, Len(z)) = z
    BY <1>1, SubSeqFull
  <2>3. CASE Len(z) >= 1
    <3>. DEFINE k == Len(z)
    <3>1. 1 \in Nat /\ k \in Nat /\ 1 <= 1 /\ k <= Len(z)
      BY <2>1
    <3>. HIDE DEF k
    <3>2. Piece(After(B, ":", z), Len(B) + 1 + 1, Len(B) + 1 + k) = Piece(z, 1, k)
      <4>1. B \in Seq(Tokens) /\ z \in Seq(Tokens) /\ ":" \in Tokens
        BY <1>1, <1>3, MarkTokens
      <4>. QED
        BY <3>1, <4>1, AfterSubSeq
    <3>3. Len(B) + 1 + 1 = n + 4 /\ Len(B) + 1 + k = Len(l)
      BY <1>3, <2>1 DEF k
    <3>. QED
      BY <1>6, <2>2, <3>2, <3>3 DEF Piece, k
  <2>4. CASE Len(z) = 0
    <3>1. z = <<>>
      BY <1>1, <2>4, EmptySeq
    <3>2. SubSeq(l, n + 4, Len(l)) = <<>>
      <4>. DEFINE lo == n + 4
                  hi == Len(l)
      <4>1. lo \in Int /\ hi \in Int /\ hi < lo
        BY <1>3, <2>1, <2>4
      <4>. HIDE DEF lo, hi
      <4>2. SubSeq(l, lo, hi) = <<>>
        BY <4>1, SubSeqEmpty
      <4>. QED
        BY <4>2 DEF lo, hi
    <3>. QED
      BY <3>1, <3>2
  <2>. QED
    BY <2>1, <2>3, <2>4
<1>9. (n + 2) - 1 = n + 1 /\ (n + 2) + Len(sep) = n + 4
  BY <1>2, <1>3
<1>10. Has(l, sep)
  BY <1>1 DEF Has
<1>. QED
  BY <1>5, <1>7, <1>8, <1>9, <1>10 DEF sep, x

\* Colons are counted in the address, and after it.
LEMMA V6Colons ==
  ASSUME NEW a \in Seq(V6Tokens), NEW z \in Seq(V6Tokens),
         NEW l, l = After(Bracketed(a), ":", z)
  PROVE  /\ Cardinality(Cuts(l, <<":">>)) \in Nat
         /\ Cardinality(Cuts(l, <<":">>))
              >= Cardinality(Cuts(Bracketed(a), <<":">>)) + 1 + Cardinality(Cuts(z, <<":">>))
         /\ Cardinality(Cuts(Bracketed(a), <<":">>)) >= Cardinality(Cuts(a, <<":">>))
         /\ Cardinality(Cuts(Bracketed(a), <<":">>)) \in Nat
         /\ Cardinality(Cuts(z, <<":">>)) \in Nat
         /\ Cardinality(Cuts(a, <<":">>)) \in Nat
<1>. DEFINE B == Bracketed(a)
            n == Len(a)
            b == Len(B) + 1
            CL == Cuts(l, <<":">>)
            CB == Cuts(B, <<":">>)
            CA == Cuts(a, <<":">>)
            CZ == Cuts(z, <<":">>)
<1>1. /\ B \in Seq(Tokens) /\ n \in Nat /\ Len(B) = n + 2
      /\ \A i \in 1..n : B[i + 1] = a[i]
  BY BracketedTokens
<1>2. l \in Seq(Tokens) /\ z \in Seq(Tokens) /\ Len(z) \in Nat
  <2>1. l \in Seq(Tokens) /\ z \in Seq(Tokens)
    BY V6Tail
  <2>. QED
    BY <2>1
<1>. HIDE DEF B
<1>3. l = After(B, ":", z)
  BY DEF B
<1>4. B \in Seq(Tokens) /\ z \in Seq(Tokens) /\ ":" \in Tokens
  BY <1>1, <1>2, MarkTokens
<1>5. Len(l) = b + Len(z) /\ l[b] = ":"
  <2>1. /\ Len(After(B, ":", z)) = Len(B) + 1 + Len(z)
        /\ After(B, ":", z)[Len(B) + 1] = ":"
    BY <1>4, AfterTokens
  <2>. QED
    BY <1>3, <2>1
<1>6. \A i \in 1..Len(B) : l[i] = B[i]
  <2>1. \A i \in 1..Len(B) : After(B, ":", z)[i] = B[i]
    BY <1>4, AfterTokens
  <2>. QED
    BY <1>3, <2>1
<1>7. \A i \in 1..Len(z) : l[b + i] = z[i]
  <2>1. \A i \in 1..Len(z) : After(B, ":", z)[Len(B) + 1 + i] = z[i]
    BY <1>4, AfterTokens
  <2>. QED
    BY <1>3, <2>1
<1>8. CB = {i \in 1..Len(B) : B[i] = ":"}
  BY <1>1, MarkCuts
<1>9. CL = {i \in 1..Len(l) : l[i] = ":"}
  BY <1>2, MarkCuts
<1>10. CA = {i \in 1..Len(a) : a[i] = ":"}
  BY MarkCuts
<1>11. CZ = {i \in 1..Len(z) : z[i] = ":"}
  BY <1>2, MarkCuts
<1>12. b \in Nat /\ b = n + 3
  BY <1>1
<1>. HIDE DEF b, CL, CB, CA, CZ, n
<1>13. /\ IsFiniteSet(CL) /\ IsFiniteSet(CB) /\ IsFiniteSet(CA) /\ IsFiniteSet(CZ)
       /\ CA \in SUBSET Nat /\ CZ \in SUBSET Nat
       /\ Cardinality(CL) \in Nat /\ Cardinality(CB) \in Nat
       /\ Cardinality(CA) \in Nat /\ Cardinality(CZ) \in Nat
  <2>1. /\ IsFiniteSet(1..Len(l)) /\ IsFiniteSet(1..Len(B))
        /\ IsFiniteSet(1..Len(a)) /\ IsFiniteSet(1..Len(z))
    <3>1. 1 \in Int /\ Len(l) \in Int /\ Len(B) \in Int /\ Len(a) \in Int /\ Len(z) \in Int
      BY <1>1, <1>2
    <3>. QED
      BY <3>1, FS_Interval
  <2>2. CL \subseteq 1..Len(l) /\ CB \subseteq 1..Len(B) /\ CA \subseteq 1..Len(a) /\ CZ \subseteq 1..Len(z)
    BY <1>8, <1>9, <1>10, <1>11
  <2>3. IsFiniteSet(CL) /\ IsFiniteSet(CB) /\ IsFiniteSet(CA) /\ IsFiniteSet(CZ)
    BY <2>1, <2>2, FS_Subset
  <2>4. CA \in SUBSET Nat /\ CZ \in SUBSET Nat
    BY <2>2
  <2>. QED
    BY <2>3, <2>4, FS_CardinalityType
<1>14. Cardinality(CB) >= Cardinality(CA)
  <2>1. IsFiniteSet(Shift(CA, 1)) /\ Cardinality(Shift(CA, 1)) = Cardinality(CA)
    BY <1>13, ShiftCount
  <2>2. ASSUME NEW i \in CA PROVE 1 + i \in CB
    <3>1. i \in 1..n /\ a[i] = ":"
      BY <1>10 DEF n
    <3>2. 1 + i = i + 1 /\ i + 1 \in 1..Len(B)
      BY <1>1, <3>1
    <3>. QED
      BY <1>1, <1>8, <3>1, <3>2
  <2>3. Shift(CA, 1) \subseteq CB
    BY <2>2 DEF Shift
  <2>. QED
    BY <1>13, <2>1, <2>3, FS_Subset
<1>15. Cardinality(CL) >= Cardinality(CB) + 1 + Cardinality(CZ)
  <2>. DEFINE U == CB \cup {b}
              W == Shift(CZ, b)
  <2>1. IsFiniteSet(W) /\ Cardinality(W) = Cardinality(CZ)
    BY <1>12, <1>13, ShiftCount
  <2>2. IsFiniteSet(U) /\ Cardinality(U) = Cardinality(CB) + 1
    <3>1. b \notin CB
      BY <1>1, <1>8, <1>12
    <3>. QED
      BY <1>13, <3>1, FS_AddElement
  <2>3. CB \cup {b} \subseteq CL
    <3>1. ASSUME NEW i \in CB PROVE i \in CL
      <4>1. i \in 1..Len(B) /\ B[i] = ":"
        BY <1>8
      <4>2. i \in 1..Len(l)
        BY <1>1, <1>2, <1>5, <1>12, <4>1
      <4>. QED
        BY <1>6, <1>9, <4>1, <4>2
    <3>2. b \in CL
      BY <1>2, <1>5, <1>9, <1>12, <1>1
    <3>. QED
      BY <3>1, <3>2
  <2>4. W \subseteq CL
    <3>1. ASSUME NEW i \in CZ PROVE b + i \in CL
      <4>1. i \in 1..Len(z) /\ z[i] = ":"
        BY <1>11
      <4>2. b + i \in 1..Len(l)
        <5>1. Len(l) = b + Len(z) /\ b \in Nat /\ Len(z) \in Nat
          BY <1>2, <1>5, <1>12
        <5>. QED
          BY <4>1, <5>1
      <4>. QED
        BY <1>7, <1>9, <4>1, <4>2
    <3>. QED
      BY <3>1 DEF Shift
  <2>5. U \cap W = {}
    <3>1. \A i \in CB : i < b
      BY <1>1, <1>8, <1>12
    <3>2. \A i \in CZ : i \in Nat \ {0}
      BY <1>11
    <3>3. \A i \in CZ : b + i > b
      BY <1>12, <3>2
    <3>4. \A i \in W : i > b
      BY <3>3 DEF Shift
    <3>5. \A i \in U : ~(i > b)
      BY <1>12, <3>1, <1>8
    <3>. QED
      BY <3>4, <3>5
  <2>. HIDE DEF U, W
  <2>6. Cardinality(U \cup W) = Cardinality(U) + Cardinality(W)
    <3>1. Cardinality(U \cup W) = Cardinality(U) + Cardinality(W) - Cardinality(U \cap W)
      BY <2>1, <2>2, FS_Union
    <3>2. Cardinality(U \cap W) = 0
      BY <2>5, FS_EmptySet
    <3>. QED
      BY <1>13, <2>1, <2>2, <3>1, <3>2
  <2>7. Cardinality(U \cup W) <= Cardinality(CL)
    <3>1. U \cup W \subseteq CL
      BY <2>3, <2>4 DEF U
    <3>. QED
      BY <1>13, <3>1, FS_Subset
  <2>. QED
    BY <1>13, <2>1, <2>2, <2>6, <2>7
<1>. QED
  BY <1>13, <1>14, <1>15 DEF CL, CB, CA, CZ, B

LEMMA BuiltAlone ==
  ASSUME NEW h \in Seq(Tokens), NEW p \in Seq(Tokens)
  PROVE  buildProxyString(<<>>, <<>>, h, p) = After(h, ":", p)
<1>1. <<>> \o h = h
  BY ConcatEmptySeq
<1>. QED
  BY <1>1 DEF buildProxyString, After

Cat(x, y) == x \o y

LEMMA ConcatAfter ==
  ASSUME NEW T, NEW m \in T, NEW x \in Seq(T), NEW y \in Seq(T), NEW z \in Seq(T)
  PROVE  Cat(x, After(y, m, z)) = After(Cat(x, y), m, z)
<1>. DEFINE c == <<m>>
            d == y \o c
<1>1. c \in Seq(T)
  OBVIOUS
<1>. HIDE DEF c
<1>2. d \in Seq(T)
  BY <1>1, ConcatProperties
<1>3. (x \o y) \o c = x \o (y \o c)
  BY <1>1, ConcatAssociative
<1>. HIDE DEF d
<1>4. (x \o d) \o z = x \o (d \o z)
  BY <1>2, ConcatAssociative
<1>. QED
  BY <1>3, <1>4 DEF After, Cat, c, d

LEMMA AfterConcat ==
  ASSUME NEW T, NEW m \in T, NEW x \in Seq(T), NEW y \in Seq(T), NEW z \in Seq(T)
  PROVE  Cat(After(x, m, y), z) = After(x, m, Cat(y, z))
<1>. DEFINE d == x \o <<m>>
<1>1. d \in Seq(T)
  BY ConcatProperties
<1>. HIDE DEF d
<1>2. (d \o y) \o z = d \o (y \o z)
  BY <1>1, ConcatAssociative
<1>. QED
  BY <1>2 DEF After, Cat, d

\* A short address is nothing, or words, on each side of its two colons.
LEMMA ShortParts ==
  ASSUME NEW a, Short(a)
  PROVE  \E b, c \in Seq(Words) : a = After(b, ":", After(<<>>, ":", c))
<1>1. PICK b, c \in Seq(Words) : a = (b \o <<":", ":">>) \o c
  BY DEF Short
<1>2. ":" \in V6Tokens /\ b \in Seq(V6Tokens) /\ c \in Seq(V6Tokens)
  BY DEF V6Tokens
<1>. DEFINE m == <<":">>
<1>3. b \o <<":", ":">> = After(b, ":", m)
  BY <1>2, AfterPair
<1>4. m \in Seq(V6Tokens) /\ After(<<>>, ":", c) = m \o c
  <2>1. <<>> \o m = m
    BY ConcatEmptySeq
  <2>. QED
    BY <1>2, <2>1 DEF After
<1>. HIDE DEF m
<1>5. Cat(After(b, ":", m), c) = After(b, ":", Cat(m, c))
  BY <1>2, <1>4, AfterConcat
<1>. QED
  BY <1>1, <1>3, <1>4, <1>5 DEF Cat

LEMMA V6Addresses ==
  ASSUME NEW a \in V6
  PROVE  /\ a \in Seq(V6Tokens) /\ Cardinality(Cuts(a, <<":">>)) >= 2
         /\ CanonV6[a] \in V6
<1>1. a \in Seq(V6Tokens) /\ CanonV6[a] \in V6
  BY FilterAssumption DEF V6Tokens
<1>2. CASE Short(a)
  <2>1. PICK b, c \in Seq(Words) : a = After(b, ":", After(<<>>, ":", c))
    BY <1>2, ShortParts
  <2>2. /\ ":" \in V6Tokens /\ b \in Seq(V6Tokens \ {":"}) /\ c \in Seq(V6Tokens \ {":"})
        /\ <<>> \in Seq(V6Tokens \ {":"})
    BY FilterAssumption DEF V6Tokens, Marks
  <2>3. Len(Split(a, <<":">>)) = 3
    <3>. DEFINE z == <<>>
    <3>1. a = After(b, ":", After(z, ":", c)) /\ z \in Seq(V6Tokens \ {":"})
      BY <2>1, <2>2
    <3>. HIDE DEF z
    <3>. QED
      BY <2>2, <3>1, ThreeFields
  <2>4. /\ Len(Split(a, <<":">>)) = Cardinality(Cuts(a, <<":">>)) + 1
        /\ Cardinality(Cuts(a, <<":">>)) \in Nat
    <3>. DEFINE sep == <<":">>
    <3>1. Len(sep) \in Nat \ {0}
      OBVIOUS
    <3>. HIDE DEF sep
    <3>. QED
      BY <1>1, <3>1, SplitFields, CutsBounds DEF sep
  <2>. DEFINE k == Cardinality(Cuts(a, <<":">>))
  <2>5. k \in Nat /\ 3 = k + 1
    BY <2>3, <2>4
  <2>. HIDE DEF k
  <2>6. k >= 2
    BY <2>5
  <2>. QED
    BY <1>1, <2>6 DEF k
<1>3. CASE ~Short(a)
  <2>. DEFINE k == Cardinality(Cuts(a, <<":">>))
  <2>1. k >= 3
    BY <1>3, FilterAssumption
  <2>2. k \in Nat
    <3>. DEFINE sep == <<":">>
    <3>1. Len(sep) \in Nat \ {0}
      OBVIOUS
    <3>. HIDE DEF sep
    <3>. QED
      BY <1>1, <3>1, CutsBounds DEF sep
  <2>. HIDE DEF k
  <2>3. k >= 2
    BY <2>1, <2>2
  <2>. QED
    BY <1>1, <2>3 DEF k
<1>. QED
  BY <1>2, <1>3

LEMMA V6AddrPort ==
  ASSUME NEW a \in V6, NEW p \in Ports
  PROVE  /\ ParseAddrPort(After(Bracketed(a), ":", <<p>>))
         /\ After(Bracketed(a), ":", <<p>>) = Bracketed(a) \o <<":", p>>
<1>1. Bracketed(a) \in Seq(Tokens) /\ p \in Tokens /\ ":" \in Tokens
  <2>1. a \in Seq(V6Tokens) /\ p \in Words
    BY V6Addresses, PortTokens
  <2>. QED
    BY <2>1, BracketedTokens, WordTokens, MarkTokens
<1>. DEFINE B == Bracketed(a)
<1>. HIDE DEF B
<1>2. After(B, ":", <<p>>) = B \o <<":", p>>
  <2>1. B \in Seq(Tokens)
    BY <1>1 DEF B
  <2>. QED
    BY <1>1, <2>1, AfterPair
<1>3. B \in {Bracketed(b) : b \in V6}
  BY DEF B
<1>4. B \o <<":", p>> \in AddrPorts
  BY <1>3 DEF AddrPorts
<1>. QED
  BY <1>2, <1>4 DEF ParseAddrPort, B

\* filterv6 on an address and what follows it.
LEMMA V6Filter ==
  ASSUME NEW a \in V6, NEW z \in Seq(V6Tokens), NEW l, l = After(Bracketed(a), ":", z),
         NEW bare, bare = buildProxyString(<<>>, <<>>, Bracketed(a), Split(z, <<":">>)[1]),
         ParseAddrPort(bare)
  PROVE  /\ Len(Split(z, <<":">>)) = 1 => filterv6(l) = Ok(Canon(bare))
         /\ Len(Split(z, <<":">>)) = 3 =>
              filterv6(l) = Ok(buildProxyString(Split(z, <<":">>)[2], Split(z, <<":">>)[3],
                                                Bracketed(a), Split(z, <<":">>)[1]))
<1>. DEFINE split == Split(l, <<"]", ":">>)
            rest == Split(z, <<":">>)
<1>1. a \in Seq(V6Tokens)
  BY V6Addresses
<1>2. Len(split) = 2
  BY <1>1, V6Split
<1>3. split[1] = Opened(a)
  BY <1>1, V6Split
<1>4. split[2] = z
  BY <1>1, V6Split
<1>5. Append(Opened(a), "]") = Bracketed(a)
  BY <1>1, BracketedTokens
<1>. HIDE DEF split
<1>6. filterv6(l) =
        LET r == Split(split[2], <<":">>)
            addr == Append(split[1], "]")
            b == buildProxyString(<<>>, <<>>, addr, r[1])
        IN  CASE Len(split) < 2 -> No
              [] Len(split) >= 2 /\ ~ParseAddrPort(b) -> Ok(<<>>)
              [] Len(split) >= 2 /\ ParseAddrPort(b) ->
                   CASE Len(r) = 1 -> Ok(Canon(b))
                     [] Len(r) = 2 -> Panic
                     [] OTHER -> Ok(buildProxyString(r[2], r[3], addr, r[1]))
  BY Zenon DEF filterv6, split
<1>7. filterv6(l) =
        CASE Len(rest) = 1 -> Ok(Canon(bare))
          [] Len(rest) = 2 -> Panic
          [] OTHER -> Ok(buildProxyString(rest[2], rest[3], Bracketed(a), rest[1]))
  <2>1. buildProxyString(<<>>, <<>>, Append(split[1], "]"), Split(split[2], <<":">>)[1]) = bare
    BY <1>3, <1>4, <1>5
  <2>. HIDE DEF rest
  <2>2. ~(Len(split) < 2) /\ Len(split) >= 2
    BY <1>2
  <2>. QED
    BY <1>3, <1>4, <1>5, <1>6, <2>1, <2>2 DEF rest
<1>. HIDE DEF rest
<1>8. Len(rest) = 1 => filterv6(l) = Ok(Canon(bare))
  BY <1>7
<1>9. Len(rest) = 3 => filterv6(l) = Ok(buildProxyString(rest[2], rest[3], Bracketed(a), rest[1]))
  BY <1>7
<1>. QED
  BY <1>8, <1>9 DEF rest

\* A line of five fields or more is for filterv6.
LEMMA V6Line ==
  ASSUME NEW a \in Seq(V6Tokens), NEW z \in Seq(V6Tokens),
         NEW l, l = After(Bracketed(a), ":", z),
         Cardinality(Cuts(Bracketed(a), <<":">>)) + Cardinality(Cuts(z, <<":">>)) >= 3
  PROVE  filter(l) = filterv6(l)
<1>1. l \in Seq(Tokens) /\ Has(l, <<"[">>)
  BY V6Tail
<1>2. Has(l, <<"]", ":">>)
  BY V6Split
<1>. DEFINE cb == Cardinality(Cuts(Bracketed(a), <<":">>))
            cz == Cardinality(Cuts(z, <<":">>))
            cl == Cardinality(Cuts(l, <<":">>))
<1>3. cl \in Nat /\ cb \in Nat /\ cz \in Nat /\ cl >= cb + 1 + cz /\ cb + cz >= 3
  BY V6Colons
<1>. HIDE DEF cb, cz
<1>4. Len(Split(l, <<":">>)) = cl + 1
  <2>. DEFINE sep == <<":">>
  <2>1. Len(sep) \in Nat \ {0}
    OBVIOUS
  <2>. HIDE DEF sep, cl
  <2>2. Len(Split(l, sep)) = Cardinality(Cuts(l, sep)) + 1
    BY <1>1, <2>1, SplitFields
  <2>. QED
    BY <2>2 DEF sep, cl
<1>. HIDE DEF cl
<1>5. /\ Len(Split(l, <<":">>)) # 1 /\ Len(Split(l, <<":">>)) # 2
      /\ Len(Split(l, <<":">>)) # 3 /\ Len(Split(l, <<":">>)) # 4
  <2>1. cl \in Nat /\ cl >= 4
    BY <1>3
  <2>2. cl + 1 # 1 /\ cl + 1 # 2 /\ cl + 1 # 3 /\ cl + 1 # 4
    BY <2>1
  <2>. QED
    BY <1>4, <2>2
<1>. QED
  BY <1>1, <1>2, <1>5 DEF filter

LEMMA V6Read ==
  ASSUME NEW a \in V6, NEW p \in Ports,
         Cardinality(Cuts(Bracketed(a), <<":">>)) # 2,
         NEW l, l = After(Bracketed(a), ":", <<p>>)
  PROVE  filter(l) = Ok(Canon(l))
<1>. DEFINE B == Bracketed(a)
            z == <<p>>
<1>1. a \in Seq(V6Tokens) /\ Cardinality(Cuts(a, <<":">>)) >= 2
  BY V6Addresses
<1>2. p \in Words /\ ":" \in V6Tokens /\ p # ":"
  BY PortTokens, WordTokens DEF V6Tokens
<1>3. z \in Seq(V6Tokens) /\ z \in Seq(V6Tokens \ {":"}) /\ z \in Seq(Tokens)
  BY <1>2 DEF V6Tokens, Tokens
<1>4. B \in Seq(Tokens)
  BY <1>1, BracketedTokens
<1>. HIDE DEF z
<1>5. Cardinality(Cuts(z, <<":">>)) = 0 /\ Len(Split(z, <<":">>)) = 1 /\ Split(z, <<":">>)[1] = z
  BY <1>2, <1>3, NoMark
<1>6. Cardinality(Cuts(B, <<":">>)) \in Nat /\ Cardinality(Cuts(B, <<":">>)) >= 3
  <2>1. /\ Cardinality(Cuts(B, <<":">>)) >= Cardinality(Cuts(a, <<":">>))
        /\ Cardinality(Cuts(B, <<":">>)) \in Nat /\ Cardinality(Cuts(a, <<":">>)) \in Nat
    BY <1>1, <1>3, V6Colons
  <2>. QED
    BY <1>1, <2>1
<1>7. l = After(B, ":", z)
  BY DEF z
<1>8. filter(l) = filterv6(l)
  <2>1. Cardinality(Cuts(B, <<":">>)) + Cardinality(Cuts(z, <<":">>)) >= 3
    BY <1>5, <1>6
  <2>. QED
    BY <1>1, <1>3, <1>7, <2>1, V6Line
<1>9. buildProxyString(<<>>, <<>>, B, z) = l
  <2>. HIDE DEF B
  <2>. QED
    BY <1>3, <1>4, <1>7, BuiltAlone
<1>10. ParseAddrPort(l)
  BY V6AddrPort
<1>11. filterv6(l) = Ok(Canon(l))
  BY <1>3, <1>5, <1>7, <1>9, <1>10, V6Filter
<1>. QED
  BY <1>8, <1>11

LEMMA V6AuthRead ==
  ASSUME NEW a \in V6, NEW p \in Ports, NEW u \in Words, NEW q \in Words,
         NEW l, l = After(Bracketed(a), ":", After(<<p>>, ":", After(<<u>>, ":", <<q>>)))
  PROVE  filter(l) = Ok(User(<<u>>, <<q>>, Bracketed(a), <<p>>))
<1>. DEFINE B == Bracketed(a)
            n == <<p>>
            v == <<u>>
            w == <<q>>
            uq == After(v, ":", w)
            z == After(n, ":", uq)
<1>1. a \in Seq(V6Tokens) /\ Cardinality(Cuts(a, <<":">>)) >= 2
  BY V6Addresses
<1>2. p \in Words /\ ":" \in V6Tokens /\ p # ":" /\ u # ":" /\ q # ":"
  BY PortTokens, WordTokens DEF V6Tokens
<1>3. /\ n \in Seq(V6Tokens \ {":"}) /\ v \in Seq(V6Tokens \ {":"}) /\ w \in Seq(V6Tokens \ {":"})
      /\ n \in Seq(Tokens) /\ v \in Seq(Tokens) /\ w \in Seq(Tokens)
      /\ n \in Seq(V6Tokens) /\ v \in Seq(V6Tokens) /\ w \in Seq(V6Tokens)
      /\ v # <<>> /\ w # <<>>
  BY <1>2 DEF V6Tokens, Tokens
<1>4. B \in Seq(Tokens)
  BY <1>1, BracketedTokens
<1>. HIDE DEF n, v, w
<1>5. uq \in Seq(V6Tokens) /\ z \in Seq(V6Tokens)
  <2>1. uq \in Seq(V6Tokens)
    BY <1>2, <1>3, AfterTyped
  <2>. HIDE DEF uq
  <2>2. n \in Seq(V6Tokens) /\ ":" \in V6Tokens
    BY <1>2, <1>3
  <2>3. z \in Seq(V6Tokens)
    BY <2>1, <2>2, AfterTyped
  <2>. QED
    BY <2>1, <2>3
<1>6. /\ Len(Split(z, <<":">>)) = 3 /\ Split(z, <<":">>)[1] = n
      /\ Split(z, <<":">>)[2] = v /\ Split(z, <<":">>)[3] = w
  <2>1. /\ n \in Seq(V6Tokens \ {":"}) /\ v \in Seq(V6Tokens \ {":"}) /\ w \in Seq(V6Tokens \ {":"})
        /\ ":" \in V6Tokens
    BY <1>2, <1>3
  <2>. QED
    BY <2>1, ThreeFields
<1>7. Cardinality(Cuts(z, <<":">>)) >= 1 /\ Cardinality(Cuts(z, <<":">>)) \in Nat
  <2>. DEFINE sep == <<":">>
              c == Cardinality(Cuts(z, sep))
  <2>1. Len(sep) \in Nat \ {0}
    OBVIOUS
  <2>2. z \in Seq(V6Tokens) /\ Len(Split(z, sep)) = 3
    BY <1>5, <1>6
  <2>. HIDE DEF sep, z
  <2>3. Len(Split(z, sep)) = c + 1
    BY <2>1, <2>2, SplitFields
  <2>4. c \in Nat
    BY <2>1, <2>2, CutsBounds
  <2>. HIDE DEF c
  <2>5. c >= 1
    <3>1. c + 1 = 3
      BY <2>2, <2>3
    <3>. QED
      BY <2>4, <3>1
  <2>. QED
    BY <2>4, <2>5 DEF c, sep
<1>8. l = After(B, ":", z)
  BY DEF n, v, w
<1>. HIDE DEF z, uq
<1>9. Cardinality(Cuts(B, <<":">>)) \in Nat /\ Cardinality(Cuts(B, <<":">>)) >= 2
  <2>1. /\ Cardinality(Cuts(B, <<":">>)) >= Cardinality(Cuts(a, <<":">>))
        /\ Cardinality(Cuts(B, <<":">>)) \in Nat /\ Cardinality(Cuts(a, <<":">>)) \in Nat
    BY <1>1, <1>5, V6Colons
  <2>. QED
    BY <1>1, <2>1
<1>10. filter(l) = filterv6(l)
  <2>1. Cardinality(Cuts(B, <<":">>)) + Cardinality(Cuts(z, <<":">>)) >= 3
    BY <1>7, <1>9
  <2>. QED
    BY <1>1, <1>5, <1>8, <2>1, V6Line
<1>11. /\ buildProxyString(<<>>, <<>>, B, n) = After(B, ":", n)
       /\ buildProxyString(v, w, B, n) = User(v, w, B, n)
  <2>. HIDE DEF B
  <2>. QED
    BY <1>3, <1>4, BuiltAlone, MarkTokens, Built
<1>12. ParseAddrPort(After(B, ":", n))
  BY V6AddrPort DEF n
<1>13. filterv6(l) = Ok(User(v, w, B, n))
  BY <1>5, <1>6, <1>8, <1>11, <1>12, V6Filter
<1>. QED
  BY <1>10, <1>13 DEF v, w, n

-----------------------------------------------------------------------------
(* filter reads every documented line as the endpoint of its proxy.        *)

LEMMA WordHost ==
  ASSUME NEW h \in Seq(Words), Len(h) = 1
  PROVE  \E w \in Words : h = <<w>>
<1>1. h[1] \in Words /\ h = <<h[1]>>
  OBVIOUS
<1>. QED
  BY <1>1

LEMMA AuthParts ==
  ASSUME NEW p \in Proxies, p.auth # <<>>
  PROVE  \E u, q \in Words : p.auth = After(<<u>>, ":", <<q>>)
<1>. DEFINE s == p.auth
<1>1. s \in Seq(Tokens) /\ Len(s) = 3 /\ s[1] \in Words /\ s[2] = ":" /\ s[3] \in Words
  BY FilterAssumption
<1>. HIDE DEF s
<1>. DEFINE u == s[1]
            q == s[3]
            t == After(<<u>>, ":", <<q>>)
<1>2. <<u>> \in Seq(Tokens) /\ <<q>> \in Seq(Tokens) /\ ":" \in Tokens
  BY <1>1, WordTokens, MarkTokens
<1>. DEFINE x == <<u>>
            y == <<q>>
<1>3. Len(x) = 1 /\ Len(y) = 1 /\ x[1] = u /\ y[1] = q
  OBVIOUS
<1>4. x \in Seq(Tokens) /\ y \in Seq(Tokens) /\ ":" \in Tokens
  BY <1>2
<1>. HIDE DEF x, y, u, q
<1>5. /\ After(x, ":", y) \in Seq(Tokens)
      /\ Len(After(x, ":", y)) = Len(x) + 1 + Len(y)
      /\ After(x, ":", y)[Len(x) + 1] = ":"
  BY <1>4, AfterTokens
<1>6. \A i \in 1..Len(x) : After(x, ":", y)[i] = x[i]
  BY <1>4, AfterTokens
<1>7. \A i \in 1..Len(y) : After(x, ":", y)[Len(x) + 1 + i] = y[i]
  BY <1>4, AfterTokens
<1>. DEFINE r == After(x, ":", y)
<1>8. r \in Seq(Tokens) /\ Len(r) = 3 /\ r[1] = u /\ r[2] = ":" /\ r[3] = q
  <2>1. 1 \in 1..Len(x) /\ 1 \in 1..Len(y) /\ 1 + 1 = 2 /\ 2 + 1 = 3
    BY <1>3
  <2>. QED
    BY <1>3, <1>5, <1>6, <1>7, <2>1
<1>. HIDE DEF r
<1>9. s = r
  <2>1. \A i \in 1..3 : s[i] = r[i]
    <3>1. s[1] = r[1] /\ s[2] = r[2] /\ s[3] = r[3]
      BY <1>1, <1>8 DEF u, q
    <3>. QED
      BY <3>1
  <2>. QED
    BY <1>1, <1>8, <2>1, SeqEqual
<1>. QED
  BY <1>1, <1>9 DEF r, x, y, u, q, s

LEMMA HostKinds ==
  ASSUME NEW p \in Proxies
  PROVE  /\ p.port \in Ports
         /\ \/ \E w \in Words : p.host = <<w>> /\ ~Has(p.host, <<"[">>)
            \/ \E a \in V6 : p.host = Bracketed(a) /\ Has(p.host, <<"[">>)
<1>1. p.port \in Ports
  BY FilterAssumption
<1>2. CASE Len(p.host) = 1 /\ p.host \in Seq(Words)
  <2>1. PICK w \in Words : p.host = <<w>>
    BY <1>2, WordHost
  <2>2. <<w>> \in Seq(Tokens \ {"["}) /\ "[" \in Tokens
    BY WordTokens, MarkTokens
  <2>. DEFINE h == <<w>>
  <2>3. h \in Seq(Tokens \ {"["})
    BY <2>2
  <2>. HIDE DEF h
  <2>4. ~Has(h, <<"[">>)
    BY <2>2, <2>3, NoMark
  <2>. QED
    BY <1>1, <2>1, <2>4 DEF h
<1>3. CASE \E a \in V6 : p.host = Bracketed(a)
  <2>1. PICK a \in V6 : p.host = Bracketed(a)
    BY <1>3
  <2>. DEFINE B == Bracketed(a)
  <2>2. B \in Seq(Tokens) /\ B[1] = "[" /\ Len(B) = Len(a) + 2 /\ Len(a) \in Nat
    <3>1. a \in Seq(V6Tokens)
      BY V6Addresses
    <3>. QED
      BY <3>1, BracketedTokens
  <2>. HIDE DEF B
  <2>3. Has(B, <<"[">>)
    <3>1. Cuts(B, <<"[">>) = {i \in 1..Len(B) : B[i] = "["}
      BY <2>2, MarkCuts
    <3>2. 1 \in 1..Len(B)
      BY <2>2
    <3>. QED
      BY <2>2, <3>1, <3>2 DEF Has
  <2>. QED
    BY <1>1, <2>1, <2>3 DEF B
<1>4. (Len(p.host) = 1 /\ p.host \in Seq(Words)) \/ \E a \in V6 : p.host = Bracketed(a)
  BY FilterAssumption
<1>. QED
  BY <1>2, <1>3, <1>4

LEMMA ShortFields ==
  ASSUME NEW m, NEW o \in Seq(Tokens \ {m}), NEW e \in Seq(Tokens \ {m}),
         NEW c \in Seq(Tokens \ {m}), NEW n \in Seq(Tokens \ {m}), m \in Tokens,
         NEW s, s = After(o, m, After(e, m, After(c, m, n)))
  PROVE  /\ Len(Split(After(o, m, After(e, m, c)), <<m>>)) = 3
         /\ Split(After(o, m, After(e, m, c)), <<m>>)[3] = c
         /\ Len(Split(s, <<m>>)) = 4
         /\ Split(s, <<m>>)[1] = o /\ Split(s, <<m>>)[2] = e
         /\ Split(s, <<m>>)[3] = c /\ Split(s, <<m>>)[4] = n
<1>1. /\ Len(Split(s, <<m>>)) = 4
      /\ Split(s, <<m>>)[1] = o /\ Split(s, <<m>>)[2] = e
      /\ Split(s, <<m>>)[3] = c /\ Split(s, <<m>>)[4] = n
  BY FourFields
<1>2. /\ Len(Split(After(o, m, After(e, m, c)), <<m>>)) = 3
      /\ Split(After(o, m, After(e, m, c)), <<m>>)[1] = o
      /\ Split(After(o, m, After(e, m, c)), <<m>>)[2] = e
      /\ Split(After(o, m, After(e, m, c)), <<m>>)[3] = c
  BY ThreeFields
<1>. QED
  BY <1>1, <1>2

ShortSplit(o, e, c, n, s) ==
  /\ Len(Split(After(o, ":", After(e, ":", c)), <<":">>)) = 3
  /\ Split(After(o, ":", After(e, ":", c)), <<":">>)[3] = c
  /\ Len(Split(s, <<":">>)) = 4
  /\ Split(s, <<":">>)[1] = o /\ Split(s, <<":">>)[2] = e
  /\ Split(s, <<":">>)[3] = c /\ Split(s, <<":">>)[4] = n

LEMMA ShortColons ==
  ASSUME NEW o \in Seq(Tokens \ {":"}), NEW e \in Seq(Tokens \ {":"}),
         NEW c \in Seq(Tokens \ {":"}), NEW n \in Seq(Tokens \ {":"}),
         NEW s, s = After(o, ":", After(e, ":", After(c, ":", n)))
  PROVE  ShortSplit(o, e, c, n, s)
<1>1. ":" \in Tokens
  BY MarkTokens
<1>2. /\ Len(Split(After(o, ":", After(e, ":", c)), <<":">>)) = 3
      /\ Split(After(o, ":", After(e, ":", c)), <<":">>)[3] = c
      /\ Len(Split(s, <<":">>)) = 4
      /\ Split(s, <<":">>)[1] = o /\ Split(s, <<":">>)[2] = e
      /\ Split(s, <<":">>)[3] = c /\ Split(s, <<":">>)[4] = n
  BY <1>1, ShortFields
<1>. QED
  BY <1>2 DEF ShortSplit

\* The colons of a short address and the one of its port make four fields, the
\* second of them empty.
LEMMA ShortRead ==
  ASSUME NEW a \in V6, Short(a), NEW p \in Ports, NEW l, l = After(Bracketed(a), ":", <<p>>)
  PROVE  /\ Cardinality(Cuts(Bracketed(a), <<":">>)) = 2
         /\ filter(l) = Ok(Split(Bracketed(a), <<":">>)[3] \o <<":", p>>)
<1>1. PICK b, d \in Seq(Words) : a = After(b, ":", After(<<>>, ":", d))
  BY ShortParts
<1>. DEFINE o == Opened(b)
            c == d \o <<"]">>
            z == <<>>
            n == <<p>>
            B == Bracketed(a)
<1>2. /\ o \in Seq(Tokens) /\ o \in Seq(Tokens \ {":"}) /\ z \in Seq(Tokens \ {":"})
      /\ z \in Seq(Tokens)
  <2>1. b \in Seq(Tokens \ {":"}) /\ <<"[">> \in Seq(Tokens \ {":"})
    BY FilterAssumption DEF Tokens, Marks
  <2>2. o \in Seq(Tokens \ {":"})
    BY <2>1, ConcatProperties DEF Opened
  <2>3. \A t \in Seq(Tokens \ {":"}) : t \in Seq(Tokens)
    OBVIOUS
  <2>4. z \in Seq(Tokens \ {":"})
    BY EmptySeq
  <2>. HIDE DEF o, z
  <2>. QED
    BY <2>2, <2>3, <2>4
<1>3. c \in Seq(Tokens) /\ c \in Seq(Tokens \ {":"}) /\ c # <<>>
  <2>. DEFINE k == <<"]">>
  <2>1. d \in Seq(Tokens \ {":"}) /\ k \in Seq(Tokens \ {":"}) /\ Len(k) = 1
    BY FilterAssumption DEF Tokens, Marks
  <2>. HIDE DEF k
  <2>2. d \o k \in Seq(Tokens \ {":"}) /\ Len(d \o k) = Len(d) + 1
    <3>1. d \o k \in Seq(Tokens \ {":"}) /\ Len(d \o k) = Len(d) + Len(k)
      BY <2>1, ConcatProperties
    <3>. QED
      BY <2>1, <3>1
  <2>3. d \o k # <<>> /\ d \o k \in Seq(Tokens)
    <3>. DEFINE dk == d \o k
    <3>1. dk \in Seq(Tokens \ {":"}) /\ Len(dk) = Len(d) + 1 /\ Len(d) \in Nat
      BY <2>1, <2>2
    <3>. HIDE DEF dk
    <3>2. dk # <<>> /\ dk \in Seq(Tokens)
      BY <3>1
    <3>. QED
      BY <3>2 DEF dk
  <2>. QED
    BY <2>2, <2>3 DEF k
<1>4. n \in Seq(Tokens) /\ n \in Seq(Tokens \ {":"}) /\ isNumber(n) /\ ":" \in Tokens /\ "@" \in Tokens
      /\ p \in Tokens
  BY PortTokens, WordTokens, MarkTokens
<1>5. B = After(o, ":", After(z, ":", c))
  <2>. DEFINE s == After(z, ":", d)
              x == <<"[">>
              k == <<"]">>
  <2>1. b \in Seq(Tokens) /\ d \in Seq(Tokens) /\ x \in Seq(Tokens) /\ k \in Seq(Tokens)
    BY DEF Tokens, Marks
  <2>2. B = (x \o After(b, ":", s)) \o k
    BY <1>1 DEF Bracketed
  <2>. HIDE DEF x, k, z
  <2>3. s \in Seq(Tokens)
    BY <1>2, <1>4, <2>1, AfterTyped
  <2>4. Cat(s, k) = After(z, ":", Cat(d, k))
    BY <1>2, <1>4, <2>1, AfterConcat
  <2>. HIDE DEF s
  <2>5. Cat(x, After(b, ":", s)) = After(Cat(x, b), ":", s)
    BY <1>4, <2>1, <2>3, ConcatAfter
  <2>6. Cat(x, b) = o
    BY DEF x, Opened, Cat
  <2>. HIDE DEF o
  <2>7. Cat(After(o, ":", s), k) = After(o, ":", Cat(s, k))
    BY <1>2, <1>4, <2>1, <2>3, AfterConcat
  <2>. QED
    BY <2>2, <2>4, <2>5, <2>6, <2>7 DEF Cat, k
<1>. DEFINE r == After(z, ":", c)
<1>6. r \in Seq(Tokens)
  <2>. HIDE DEF z, c
  <2>. QED
    BY <1>2, <1>3, <1>4, AfterTyped
<1>. HIDE DEF o, c, z, n, B
<1>8. l = After(o, ":", After(z, ":", After(c, ":", n)))
  <2>1. l = After(After(o, ":", r), ":", n)
    BY <1>5 DEF B, n
  <2>2. After(r, ":", n) = After(z, ":", After(c, ":", n))
    BY <1>2, <1>3, <1>4, AfterAfter
  <2>. HIDE DEF r
  <2>3. After(After(o, ":", r), ":", n) = After(o, ":", After(r, ":", n))
    BY <1>2, <1>4, <1>6, AfterAfter
  <2>. QED
    BY <2>1, <2>2, <2>3
<1>. DEFINE f == Split(l, <<":">>)
<1>9. /\ Len(Split(After(o, ":", After(z, ":", c)), <<":">>)) = 3
      /\ Split(After(o, ":", After(z, ":", c)), <<":">>)[3] = c
      /\ Len(Split(l, <<":">>)) = 4
      /\ Split(l, <<":">>)[1] = o /\ Split(l, <<":">>)[2] = z
      /\ Split(l, <<":">>)[3] = c /\ Split(l, <<":">>)[4] = n
  <2>1. /\ o \in Seq(Tokens \ {":"}) /\ z \in Seq(Tokens \ {":"})
        /\ c \in Seq(Tokens \ {":"}) /\ n \in Seq(Tokens \ {":"})
    BY <1>2, <1>3, <1>4
  <2>2. ShortSplit(o, z, c, n, l)
    BY <1>8, <2>1, ShortColons
  <2>. QED
    BY <2>2, Zenon DEF ShortSplit
<1>7. Len(Split(B, <<":">>)) = 3 /\ Split(B, <<":">>)[3] = c
  BY <1>5, <1>9
<1>10. filter(l) = filterFour(l, f)
  BY <1>9 DEF filter
<1>11. buildProxyString(o, z, c, n) = After(c, ":", n)
  <2>1. /\ ":" \in Tokens /\ "@" \in Tokens
        /\ o \in Seq(Tokens) /\ z \in Seq(Tokens) /\ c \in Seq(Tokens) /\ n \in Seq(Tokens)
    BY <1>2, <1>3, <1>4
  <2>2. buildProxyString(o, z, c, n) =
          IF o # <<>> /\ z # <<>> THEN User(o, z, c, n) ELSE After(c, ":", n)
    BY <2>1, Built
  <2>. QED
    BY <2>2 DEF z
<1>. HIDE DEF f
<1>12. filterFour(l, f) = Ok(After(c, ":", n))
  <2>1. ~isNumber(z) /\ isNumber(n) /\ IsDomainName(c)
    BY <1>3, <1>4 DEF isNumber, IsDomainName, z
  <2>. QED
    BY <1>9, <1>11, <2>1 DEF filterFour, f
<1>13. c \o <<":", p>> = After(c, ":", n)
  BY <1>3, <1>4, AfterPair DEF n
<1>14. Cardinality(Cuts(B, <<":">>)) = 2
  <2>1. B \in Seq(Tokens)
    <3>1. a \in Seq(V6Tokens)
      BY V6Addresses
    <3>. QED
      BY <3>1, BracketedTokens DEF B
  <2>. DEFINE k == Cardinality(Cuts(B, <<":">>))
  <2>2. k \in Nat /\ Len(Split(B, <<":">>)) = k + 1
    <3>. DEFINE sep == <<":">>
    <3>1. Len(sep) \in Nat \ {0}
      OBVIOUS
    <3>. HIDE DEF sep
    <3>. QED
      BY <2>1, <3>1, SplitFields, CutsBounds DEF sep
  <2>3. 3 = k + 1
    BY <1>7, <2>2
  <2>. HIDE DEF k
  <2>4. k = 2
    BY <2>2, <2>3
  <2>. QED
    BY <2>4 DEF k
<1>. QED
  BY <1>7, <1>10, <1>12, <1>13, <1>14 DEF B

\* The host of two colons is such an address.
LEMMA ColonsShort ==
  ASSUME NEW p \in Proxies, TwoColons(p)
  PROVE  \E a \in V6 : p.host = Bracketed(a) /\ Short(a)
<1>1. Cardinality(Cuts(p.host, <<":">>)) = 2
  BY DEF TwoColons
<1>2. CASE \E w \in Words : p.host = <<w>>
  <2>1. PICK w \in Words : p.host = <<w>>
    BY <1>2
  <2>. DEFINE h == <<w>>
  <2>2. h \in Seq(Tokens \ {":"}) /\ ":" \in Tokens
    BY WordTokens, MarkTokens
  <2>. HIDE DEF h
  <2>3. Cardinality(Cuts(h, <<":">>)) = 0
    BY <2>2, NoMark
  <2>. QED
    BY <1>1, <2>1, <2>3 DEF h
<1>3. CASE \E a \in V6 : p.host = Bracketed(a)
  <2>1. PICK a \in V6 : p.host = Bracketed(a)
    BY <1>3
  <2>. DEFINE z == <<>>
              k == Cardinality(Cuts(a, <<":">>))
              j == Cardinality(Cuts(Bracketed(a), <<":">>))
  <2>2. k \in Nat /\ j \in Nat /\ j >= k
    <3>1. a \in Seq(V6Tokens) /\ z \in Seq(V6Tokens)
      BY V6Addresses, EmptySeq
    <3>. HIDE DEF z
    <3>. QED
      BY <3>1, V6Colons
  <2>3. j = 2
    BY <1>1, <2>1
  <2>4. Short(a) \/ k >= 3
    BY FilterAssumption
  <2>. HIDE DEF k, j
  <2>5. ~(k >= 3)
    BY <2>2, <2>3
  <2>. QED
    BY <2>1, <2>4, <2>5
<1>. QED
  BY <1>2, <1>3, HostKinds

LEMMA EndpointRead ==
  ASSUME NEW p \in Proxies, NEW l \in Spellings(p), ~TwoColons(p)
  PROVE  filter(l) = Ok(Endpoint(p))
<1>. DEFINE h == p.host
            n == <<p.port>>
            at == p.host \o <<":", p.port>>
<1>1. p.port \in Ports /\ p.port \in Words /\ p.port \in Tokens /\ n \in Seq(Tokens)
  BY HostKinds, PortTokens, WordTokens
<1>2. h \in Seq(Tokens)
  <2>1. ASSUME NEW w \in Words PROVE <<w>> \in Seq(Tokens)
    BY WordTokens
  <2>2. ASSUME NEW a \in V6 PROVE Bracketed(a) \in Seq(Tokens)
    <3>1. a \in Seq(V6Tokens)
      BY V6Addresses
    <3>. QED
      BY <3>1, BracketedTokens
  <2>. QED
    BY <2>1, <2>2, HostKinds
<1>3. at = After(h, ":", n)
  <2>. HIDE DEF h
  <2>1. h \o <<":", p.port>> = After(h, ":", <<p.port>>)
    BY <1>1, <1>2, MarkTokens, AfterPair
  <2>. QED
    BY <2>1 DEF h
<1>4. CASE p.auth = <<>>
  <2>1. l = at
    BY <1>4 DEF Spellings
  <2>2. CASE \E w \in Words : p.host = <<w>> /\ ~Has(p.host, <<"[">>)
    <3>1. PICK w \in Words : p.host = <<w>> /\ ~Has(p.host, <<"[">>)
      BY <2>2
    <3>2. Endpoint(p) = at
      BY <1>4, <3>1 DEF Endpoint
    <3>3. filter(After(<<w>>, ":", <<p.port>>)) = Ok(After(<<w>>, ":", <<p.port>>))
      BY <1>1, NamedRead
    <3>. QED
      BY <1>3, <2>1, <3>1, <3>2, <3>3
  <2>3. CASE \E a \in V6 : p.host = Bracketed(a) /\ Has(p.host, <<"[">>)
    <3>1. PICK a \in V6 : p.host = Bracketed(a) /\ Has(p.host, <<"[">>)
      BY <2>3
    <3>2. Endpoint(p) = Canon(at)
      BY <1>4, <3>1 DEF Endpoint
    <3>3. Cardinality(Cuts(Bracketed(a), <<":">>)) # 2
      BY <1>4, <3>1 DEF TwoColons
    <3>4. at = After(Bracketed(a), ":", <<p.port>>)
      BY <1>3, <3>1
    <3>5. filter(at) = Ok(Canon(at))
      BY <1>1, <3>3, <3>4, V6Read
    <3>. QED
      BY <2>1, <3>2, <3>5
  <2>. QED
    BY <2>2, <2>3, HostKinds
<1>5. CASE p.auth # <<>>
  <2>1. PICK u, q \in Words : p.auth = After(<<u>>, ":", <<q>>)
    BY <1>5, AuthParts
  <2>2. p.auth \in Seq(Tokens)
    <3>1. <<u>> \in Seq(Tokens) /\ <<q>> \in Seq(Tokens) /\ ":" \in Tokens
      BY WordTokens, MarkTokens
    <3>2. After(<<u>>, ":", <<q>>) \in Seq(Tokens)
      BY <3>1, AfterTyped
    <3>. QED
      BY <2>1, <3>2
  <2>3. \/ l = After(at, ":", p.auth)
        \/ l = After(p.auth, "@", at) /\ ~Has(p.host, <<"[">>)
    <3>1. l \in {(at \o <<":">>) \o p.auth}
                 \cup IF Has(p.host, <<"[">>) THEN {} ELSE {(p.auth \o <<"@">>) \o at}
      BY <1>5, Zenon DEF Spellings
    <3>. HIDE DEF at
    <3>2. \/ l = (at \o <<":">>) \o p.auth
          \/ l = (p.auth \o <<"@">>) \o at /\ ~Has(p.host, <<"[">>)
      BY <3>1, Zenon
    <3>. QED
      BY <3>2, Zenon DEF After
  <2>4. Endpoint(p) = User(<<u>>, <<q>>, h, n)
    <3>. DEFINE s == p.auth
                r == After(s, "@", h)
    <3>1. Endpoint(p) = r \o <<":", p.port>>
      BY <1>5 DEF Endpoint, After
    <3>2. s \in Seq(Tokens) /\ h \in Seq(Tokens) /\ n \in Seq(Tokens) /\ "@" \in Tokens /\ ":" \in Tokens
      BY <1>1, <1>2, <2>2, MarkTokens
    <3>. HIDE DEF s, h
    <3>3. r \in Seq(Tokens)
      BY <3>2, AfterTyped
    <3>4. r \o <<":", p.port>> = After(r, ":", <<p.port>>)
      <4>. HIDE DEF r
      <4>. QED
        BY <1>1, <3>2, <3>3, AfterPair
    <3>5. After(r, ":", n) = After(s, "@", After(h, ":", n))
      <4>. HIDE DEF n
      <4>. QED
        BY <3>2, AfterAfter
    <3>6. s = After(<<u>>, ":", <<q>>)
      BY <2>1 DEF s
    <3>. QED
      BY <3>1, <3>4, <3>5, <3>6 DEF User
  <2>5. CASE \E w \in Words : p.host = <<w>> /\ ~Has(p.host, <<"[">>)
    <3>1. PICK w \in Words : p.host = <<w>>
      BY <2>5
    <3>2. filter(User(<<u>>, <<q>>, <<w>>, <<p.port>>)) = Ok(User(<<u>>, <<q>>, <<w>>, <<p.port>>))
      BY <1>1, NamedAtRead
    <3>3. filter(After(After(<<w>>, ":", <<p.port>>), ":", After(<<u>>, ":", <<q>>)))
            = Ok(User(<<u>>, <<q>>, <<w>>, <<p.port>>))
      BY <1>1, NamedAfterRead
    <3>4. CASE l = After(at, ":", p.auth)
      BY <1>3, <2>1, <2>4, <3>1, <3>3, <3>4
    <3>5. CASE l = After(p.auth, "@", at)
      <4>1. l = User(<<u>>, <<q>>, h, n)
        BY <1>3, <2>1, <3>5 DEF User
      <4>. QED
        BY <2>4, <3>1, <3>2, <4>1
    <3>. QED
      BY <2>3, <3>4, <3>5
  <2>6. CASE \E a \in V6 : p.host = Bracketed(a) /\ Has(p.host, <<"[">>)
    <3>1. PICK a \in V6 : p.host = Bracketed(a) /\ Has(p.host, <<"[">>)
      BY <2>6
    <3>2. l = After(After(h, ":", n), ":", p.auth)
      BY <1>3, <2>3, <3>1
    <3>3. After(After(h, ":", n), ":", p.auth) = After(h, ":", After(n, ":", p.auth))
      <4>. DEFINE s == p.auth
      <4>1. s \in Seq(Tokens) /\ h \in Seq(Tokens) /\ n \in Seq(Tokens) /\ ":" \in Tokens
        BY <1>1, <1>2, <2>2, MarkTokens
      <4>. HIDE DEF s, h, n
      <4>2. After(After(h, ":", n), ":", s) = After(h, ":", After(n, ":", s))
        BY <4>1, AfterAfter
      <4>. QED
        BY <4>2 DEF s
    <3>4. l = After(Bracketed(a), ":", After(<<p.port>>, ":", After(<<u>>, ":", <<q>>)))
      BY <2>1, <3>1, <3>2, <3>3
    <3>5. filter(l) = Ok(User(<<u>>, <<q>>, Bracketed(a), <<p.port>>))
      BY <1>1, <3>4, V6AuthRead
    <3>. QED
      BY <2>4, <3>1, <3>5
  <2>. QED
    BY <2>5, <2>6, HostKinds
<1>. QED
  BY <1>4, <1>5

LEMMA SpellingRead ==
  ASSUME NEW p \in Proxies, NEW l \in Spellings(p)
  PROVE  filter(l) = Ok(Record(p))
<1>1. CASE ~TwoColons(p)
  <2>1. filter(l) = Ok(Endpoint(p))
    BY <1>1, EndpointRead
  <2>. QED
    BY <1>1, <2>1 DEF Record
<1>2. CASE TwoColons(p)
  <2>1. PICK a \in V6 : p.host = Bracketed(a) /\ Short(a)
    BY <1>2, ColonsShort
  <2>. DEFINE at == p.host \o <<":", p.port>>
  <2>2. l = at
    BY <1>2 DEF Spellings, TwoColons
  <2>3. p.port \in Ports
    BY HostKinds
  <2>4. at = After(Bracketed(a), ":", <<p.port>>)
    BY <2>1, <2>3, V6AddrPort
  <2>5. filter(at) = Ok(Split(Bracketed(a), <<":">>)[3] \o <<":", p.port>>)
    BY <2>1, <2>3, <2>4, ShortRead
  <2>. QED
    BY <1>2, <2>1, <2>2, <2>5 DEF Record
<1>. QED
  BY <1>1, <1>2

LEMMA SpellingIsLine ==
  ASSUME NEW p \in Proxies, NEW l \in Spellings(p)
  PROVE  l \in Lines
BY DEF Lines

-----------------------------------------------------------------------------
(* What netip reads and writes.                                            *)

Addresses == {<<b>> : b \in V4} \cup {Bracketed(b) : b \in V6}
AddrPort(a, p) == a \o <<":", p>>

\* An address and its port is a word or an IPv6 address with a port after it.
LEMMA AddrPortKinds ==
  ASSUME NEW s, ParseAddrPort(s)
  PROVE  \E p \in Ports : \/ \E b \in V4 : s = After(<<b>>, ":", <<p>>)
                          \/ \E b \in V6 : s = After(Bracketed(b), ":", <<p>>)
<1>1. PICK a \in {<<b>> : b \in V4} \cup {Bracketed(b) : b \in V6}, p \in Ports : s = a \o <<":", p>>
  <2>1. AddrPorts = {AddrPort(a, p) : a \in Addresses, p \in Ports}
    BY DEF AddrPorts, AddrPort, Addresses
  <2>2. s \in {AddrPort(a, p) : a \in Addresses, p \in Ports}
    BY <2>1 DEF ParseAddrPort
  <2>3. \E a \in Addresses, p \in Ports : s = AddrPort(a, p)
    BY <2>2
  <2>. QED
    BY <2>3 DEF AddrPort, Addresses
<1>2. CASE \E b \in V4 : a = <<b>>
  <2>1. PICK b \in V4 : a = <<b>>
    BY <1>2
  <2>2. b \in Words /\ p \in Words
    BY FilterAssumption
  <2>. DEFINE x == <<b>>
  <2>3. x \in Seq(Tokens) /\ p \in Tokens /\ ":" \in Tokens
    BY <2>2, WordTokens, MarkTokens
  <2>. HIDE DEF x
  <2>4. x \o <<":", p>> = After(x, ":", <<p>>)
    BY <2>3, AfterPair
  <2>. QED
    BY <1>1, <2>1, <2>4 DEF x
<1>3. CASE \E b \in V6 : a = Bracketed(b)
  <2>1. PICK b \in V6 : a = Bracketed(b)
    BY <1>3
  <2>2. After(Bracketed(b), ":", <<p>>) = Bracketed(b) \o <<":", p>>
    BY V6AddrPort
  <2>. QED
    BY <1>1, <2>1, <2>2
<1>. QED
  BY <1>1, <1>2, <1>3

LEMMA V6Canon ==
  ASSUME NEW b \in V6, NEW p \in Ports, NEW s, s = After(Bracketed(b), ":", <<p>>)
  PROVE  /\ Has(s, <<"]">>)
         /\ Canon(s) = After(Bracketed(CanonV6[b]), ":", <<p>>)
<1>. DEFINE B == Bracketed(b)
            n == Len(b)
            z == <<p>>
<1>1. b \in Seq(V6Tokens) /\ CanonV6[b] \in V6
  BY V6Addresses
<1>2. /\ B \in Seq(Tokens) /\ n \in Nat /\ Len(B) = n + 2 /\ B[n + 2] = "]"
      /\ \A i \in 1..n : B[i + 1] = b[i]
  BY <1>1, BracketedTokens
<1>3. p \in Words /\ p \in Tokens /\ ":" \in Tokens /\ "]" \in Tokens
  BY PortTokens, WordTokens, MarkTokens
<1>4. z \in Seq(Tokens) /\ Len(z) = 1 /\ z[1] = p
  BY <1>3
<1>4a. b \in Seq(Tokens)
  <2>1. V6Tokens \subseteq Tokens
    BY DEF V6Tokens, Tokens, Marks
  <2>. QED
    BY <1>1, <2>1
<1>. HIDE DEF B, z
<1>5. s = After(B, ":", z)
  BY DEF B, z
<1>5a. B \in Seq(Tokens) /\ z \in Seq(Tokens) /\ ":" \in Tokens
  BY <1>2, <1>3, <1>4
<1>6. s \in Seq(Tokens) /\ Len(s) = n + 4
  <2>1. After(B, ":", z) \in Seq(Tokens) /\ Len(After(B, ":", z)) = Len(B) + 1 + Len(z)
    BY <1>5a, AfterTokens
  <2>. QED
    BY <1>2, <1>4, <1>5, <2>1
<1>7. \A i \in 1..(n + 2) : s[i] = B[i]
  <2>1. \A i \in 1..Len(B) : After(B, ":", z)[i] = B[i]
    BY <1>5a, AfterTokens
  <2>. QED
    BY <1>2, <1>5, <2>1
<1>8. s[n + 4] = p
  <2>1. \A i \in 1..Len(z) : After(B, ":", z)[Len(B) + 1 + i] = z[i]
    BY <1>5a, AfterTokens
  <2>2. 1 \in 1..Len(z) /\ Len(B) + 1 + 1 = n + 4
    BY <1>2, <1>4
  <2>. QED
    BY <1>4, <1>5, <2>1, <2>2
<1>9. Has(s, <<"]">>)
  <2>1. Cuts(s, <<"]">>) = {i \in 1..Len(s) : s[i] = "]"}
    BY <1>6, MarkCuts
  <2>2. n + 2 \in 1..Len(s) /\ n + 2 \in 1..(n + 2)
    BY <1>2, <1>6
  <2>. QED
    BY <1>2, <1>7, <2>1, <2>2 DEF Has
<1>10. SubSeq(s, 2, Len(s) - 3) = b
  <2>. DEFINE hi == Len(s) - 3
              t == SubSeq(s, 2, hi)
  <2>1. hi = n + 1 /\ hi \in Int /\ 2 \in Int
    BY <1>2, <1>6
  <2>2. \A i \in 2..hi : s[i] \in Tokens
    BY <1>2, <1>6, <2>1
  <2>. HIDE DEF hi
  <2>3. /\ t \in Seq(Tokens) /\ Len(t) = IF 2 <= hi THEN hi - 2 + 1 ELSE 0
        /\ \A i \in 1..(hi - 2 + 1) : t[i] = s[2 + i - 1]
    BY <2>1, <2>2, SubSeqProperties
  <2>. HIDE DEF t
  <2>4. Len(t) = n
    BY <1>2, <2>1, <2>3
  <2>5. ASSUME NEW i \in 1..n PROVE t[i] = b[i]
    <3>1. i \in 1..(hi - 2 + 1) /\ 2 + i - 1 = i + 1 /\ i + 1 \in 1..(n + 2)
      BY <1>2, <2>1
    <3>2. t[i] = s[i + 1]
      <4>1. t[i] = s[2 + i - 1]
        BY <2>3, <3>1
      <4>. QED
        BY <3>1, <4>1
    <3>. QED
      BY <1>2, <1>7, <3>1, <3>2
  <2>6. t = b
    BY <1>4a, <2>3, <2>4, <2>5, SeqEqual
  <2>. QED
    BY <2>6 DEF t, hi
<1>11. Canon(s) = Bracketed(CanonV6[b]) \o <<":", p>>
  BY <1>6, <1>8, <1>9, <1>10 DEF Canon
<1>12. After(Bracketed(CanonV6[b]), ":", <<p>>) = Bracketed(CanonV6[b]) \o <<":", p>>
  BY <1>1, V6AddrPort
<1>. QED
  BY <1>9, <1>11, <1>12

LEMMA CanonIs ==
  ASSUME NEW s, ParseAddrPort(s)
  PROVE  /\ s \in Seq(Tokens) /\ Canon(s) \in Seq(Tokens) /\ Canon(s) # <<>>
         /\ ParseAddrPort(Canon(s))
         /\ Has(s, <<"]">>) \/ Canon(s) = s
<1>1. PICK p \in Ports : \/ \E b \in V4 : s = After(<<b>>, ":", <<p>>)
                         \/ \E b \in V6 : s = After(Bracketed(b), ":", <<p>>)
  BY AddrPortKinds
<1>2. p \in Words /\ <<p>> \in Seq(Tokens) /\ ":" \in Tokens
  BY PortTokens, WordTokens, MarkTokens
<1>. DEFINE z == <<p>>
<1>3. CASE \E b \in V4 : s = After(<<b>>, ":", z)
  <2>1. PICK b \in V4 : s = After(<<b>>, ":", z)
    BY <1>3
  <2>2. b \in Words
    BY FilterAssumption
  <2>. DEFINE x == <<b>>
  <2>3. x \in Seq(Tokens) /\ x \in Seq(Tokens \ {"]"}) /\ z \in Seq(Tokens \ {"]"})
    BY <1>2, <2>2, WordTokens
  <2>4. z \in Seq(Tokens) /\ ":" \in Tokens \ {"]"} /\ "]" \in Tokens
    BY <1>2, MarkTokens
  <2>. HIDE DEF x, z
  <2>5. After(x, ":", z) \in Seq(Tokens) /\ After(x, ":", z) # <<>>
    BY <1>2, <2>3, <2>4, AfterTyped
  <2>6. After(x, ":", z) \in Seq(Tokens \ {"]"})
    BY <2>3, <2>4, AfterTyped
  <2>. DEFINE r == After(x, ":", z)
  <2>7. ~Has(r, <<"]">>)
    <3>1. r \in Seq(Tokens \ {"]"}) /\ "]" \in Tokens
      BY <2>4, <2>6
    <3>. HIDE DEF r
    <3>. QED
      BY <3>1, NoMark
  <2>8. s = r
    BY <2>1 DEF x
  <2>. HIDE DEF r
  <2>9. Canon(s) = s
    BY <2>7, <2>8 DEF Canon
  <2>. QED
    BY <2>5, <2>8, <2>9 DEF r
<1>4. CASE \E b \in V6 : s = After(Bracketed(b), ":", z)
  <2>1. PICK b \in V6 : s = After(Bracketed(b), ":", z)
    BY <1>4
  <2>. DEFINE c == CanonV6[b]
  <2>2. Has(s, <<"]">>) /\ Canon(s) = After(Bracketed(c), ":", <<p>>)
    BY <2>1, V6Canon
  <2>3. c \in V6
    BY V6Addresses
  <2>. HIDE DEF c
  <2>4. ParseAddrPort(After(Bracketed(c), ":", <<p>>))
    BY <2>3, V6AddrPort
  <2>5. ASSUME NEW a \in V6
        PROVE  After(Bracketed(a), ":", z) \in Seq(Tokens) /\ After(Bracketed(a), ":", z) # <<>>
    <3>1. a \in Seq(V6Tokens)
      BY V6Addresses
    <3>2. Bracketed(a) \in Seq(Tokens) /\ z \in Seq(Tokens) /\ ":" \in Tokens
      BY <1>2, <3>1, BracketedTokens
    <3>. HIDE DEF z
    <3>. QED
      BY <3>2, AfterTyped
  <2>. QED
    BY <2>1, <2>2, <2>3, <2>4, <2>5
<1>. QED
  BY <1>1, <1>3, <1>4

-----------------------------------------------------------------------------
(* The tokens of an endpoint are tokens of its line.                       *)

\* The fields of a line, in the words of Split alone.
LEMMA SplitTyped ==
  ASSUME NEW T, NEW s \in Seq(T), NEW sep, Len(sep) \in Nat \ {0}
  PROVE  /\ Len(Split(s, sep)) \in Nat \ {0}
         /\ \A k \in 1..Len(Split(s, sep)) : Split(s, sep)[k] \in Seq(T)
<1>1. Split(s, sep) \in Seq(Seq(T))
  BY SplitFields
<1>2. Len(Split(s, sep)) = Cardinality(Cuts(s, sep)) + 1
  BY SplitFields
<1>3. Cardinality(Cuts(s, sep)) \in Nat
  BY CutsBounds
<1>. HIDE DEF Cuts
<1>4. Len(Split(s, sep)) \in Nat \ {0}
  BY <1>2, <1>3
<1>. QED
  BY <1>1, <1>4

LEMMA SplitMark ==
  ASSUME NEW T, NEW s \in Seq(T), NEW m
  PROVE  /\ Len(Split(s, <<m>>)) \in Nat \ {0}
         /\ Len(Split(s, <<m>>)) = Cardinality(Cuts(s, <<m>>)) + 1
         /\ Cardinality(Cuts(s, <<m>>)) \in Nat
         /\ \A k \in 1..Len(Split(s, <<m>>)) : Split(s, <<m>>)[k] \in Seq(T \ {m})
         /\ Has(s, <<m>>) => Len(Split(s, <<m>>)) >= 2
         /\ ~Has(s, <<m>>) => Len(Split(s, <<m>>)) = 1
<1>. DEFINE sep == <<m>>
            n == Cardinality(Cuts(s, sep))
<1>1. Len(sep) \in Nat \ {0}
  OBVIOUS
<1>2. ASSUME NEW k \in 1..(n + 1) PROVE Split(s, sep)[k] \in Seq(T \ {m})
  BY SplitMarkFree
<1>. HIDE DEF sep
<1>3. Len(Split(s, sep)) = n + 1
  BY <1>1, SplitFields
<1>4. n \in Nat
  BY <1>1, CutsBounds
<1>5. IsFiniteSet(Cuts(s, sep))
  BY <1>1, CutsBounds
<1>6. Has(s, sep) => n # 0
  BY <1>5, FS_EmptySet DEF Has
<1>7. ~Has(s, sep) => n = 0
  BY FS_EmptySet DEF Has
<1>. HIDE DEF n
<1>8. /\ Len(Split(s, sep)) \in Nat \ {0}
      /\ Has(s, sep) => Len(Split(s, sep)) >= 2
      /\ ~Has(s, sep) => Len(Split(s, sep)) = 1
  BY <1>3, <1>4, <1>6, <1>7
<1>. QED
  BY <1>2, <1>3, <1>4, <1>8 DEF sep, n

\* What filterv6 makes of the two sides of a bracket.
V6Halves(l) == Split(l, <<"]", ":">>)
V6Rest(l) == Split(V6Halves(l)[2], <<":">>)
V6Addr(l) == Append(V6Halves(l)[1], "]")
V6Bare(l) == buildProxyString(<<>>, <<>>, V6Addr(l), V6Rest(l)[1])

LEMMA V6Cases ==
  ASSUME NEW l, Len(V6Halves(l)) \in Nat
  PROVE  filterv6(l) =
           IF Len(V6Halves(l)) < 2 THEN No
           ELSE IF ~ParseAddrPort(V6Bare(l)) THEN Ok(<<>>)
           ELSE IF Len(V6Rest(l)) = 1 THEN Ok(Canon(V6Bare(l)))
           ELSE IF Len(V6Rest(l)) = 2 THEN Panic
           ELSE Ok(buildProxyString(V6Rest(l)[2], V6Rest(l)[3], V6Addr(l), V6Rest(l)[1]))
<1>1. filterv6(l) =
        CASE Len(V6Halves(l)) < 2 -> No
          [] Len(V6Halves(l)) >= 2 /\ ~ParseAddrPort(V6Bare(l)) -> Ok(<<>>)
          [] Len(V6Halves(l)) >= 2 /\ ParseAddrPort(V6Bare(l)) ->
               CASE Len(V6Rest(l)) = 1 -> Ok(Canon(V6Bare(l)))
                 [] Len(V6Rest(l)) = 2 -> Panic
                 [] OTHER -> Ok(buildProxyString(V6Rest(l)[2], V6Rest(l)[3], V6Addr(l), V6Rest(l)[1]))
  BY Zenon DEF filterv6, V6Halves, V6Rest, V6Addr, V6Bare
<1>2. Len(V6Halves(l)) < 2 \/ Len(V6Halves(l)) >= 2
  OBVIOUS
<1>3. ~(Len(V6Halves(l)) < 2 /\ Len(V6Halves(l)) >= 2)
  OBVIOUS
<1>. QED
  BY <1>1, <1>2, <1>3

LEMMA V6Parts ==
  ASSUME NEW T, "]" \in T, NEW l \in Seq(T)
  PROVE  /\ Len(V6Halves(l)) \in Nat
         /\ Len(V6Halves(l)) >= 2 =>
              /\ V6Halves(l)[2] \in Seq(T) /\ V6Addr(l) \in Seq(T)
              /\ Len(V6Rest(l)) \in Nat \ {0}
              /\ \A k \in 1..Len(V6Rest(l)) : V6Rest(l)[k] \in Seq(T) /\ V6Rest(l)[k] \in Seq(T \ {":"})
<1>. DEFINE sep == <<"]", ":">>
            split == Split(l, sep)
<1>1. Len(sep) \in Nat \ {0}
  OBVIOUS
<1>2. split = V6Halves(l)
  BY DEF V6Halves
<1>. HIDE DEF sep
<1>3. Len(split) \in Nat \ {0}
  BY <1>1, SplitTyped
<1>4. \A k \in 1..Len(split) : split[k] \in Seq(T)
  BY <1>1, SplitTyped
<1>. HIDE DEF split
<1>5. ASSUME Len(split) >= 2
      PROVE  /\ split[2] \in Seq(T) /\ V6Addr(l) \in Seq(T)
             /\ Len(V6Rest(l)) \in Nat \ {0}
             /\ \A k \in 1..Len(V6Rest(l)) : V6Rest(l)[k] \in Seq(T) /\ V6Rest(l)[k] \in Seq(T \ {":"})
  <2>1. split[1] \in Seq(T) /\ split[2] \in Seq(T)
    <3>1. 1 \in 1..Len(split) /\ 2 \in 1..Len(split)
      BY <1>3, <1>5
    <3>. QED
      BY <1>4, <3>1
  <2>2. V6Addr(l) \in Seq(T)
    BY <1>2, <2>1 DEF V6Addr
  <2>. DEFINE b == split[2]
  <2>3. b \in Seq(T)
    BY <2>1
  <2>4. V6Rest(l) = Split(b, <<":">>)
    BY <1>2 DEF V6Rest
  <2>. HIDE DEF b
  <2>5. Len(Split(b, <<":">>)) \in Nat \ {0}
    BY <2>3, SplitMark
  <2>6. \A k \in 1..Len(Split(b, <<":">>)) : Split(b, <<":">>)[k] \in Seq(T \ {":"})
    BY <2>3, SplitMark
  <2>7. \A t \in Seq(T \ {":"}) : t \in Seq(T)
    OBVIOUS
  <2>. QED
    BY <2>1, <2>2, <2>4, <2>5, <2>6, <2>7
<1>. QED
  BY <1>2, <1>3, <1>5

LEMMA V6FilterTyped ==
  ASSUME NEW T, ":" \in T, "@" \in T, "]" \in T, NEW l \in Seq(T),
         \A s : ParseAddrPort(s) => Canon(s) \in Seq(T)
  PROVE  filterv6(l).ep \in Seq(T)
<1>. DEFINE n == Len(V6Halves(l))
            r == Len(V6Rest(l))
<1>1. n \in Nat
  BY V6Parts
<1>2. CASE n < 2
  <2>1. filterv6(l) = No
    BY <1>1, <1>2, V6Cases
  <2>. QED
    BY <2>1 DEF No
<1>3. CASE n >= 2
  <2>1. V6Addr(l) \in Seq(T)
    BY <1>3, V6Parts
  <2>2. r \in Nat \ {0}
    BY <1>3, V6Parts
  <2>3. \A k \in 1..r : V6Rest(l)[k] \in Seq(T)
    BY <1>3, V6Parts
  <2>. HIDE DEF r
  <2>4. ASSUME r # 1, r # 2
        PROVE  buildProxyString(V6Rest(l)[2], V6Rest(l)[3], V6Addr(l), V6Rest(l)[1]) \in Seq(T)
    <3>1. 1 \in 1..r /\ 2 \in 1..r /\ 3 \in 1..r
      BY <2>2, <2>4
    <3>2. V6Rest(l)[1] \in Seq(T) /\ V6Rest(l)[2] \in Seq(T) /\ V6Rest(l)[3] \in Seq(T)
      BY <2>3, <3>1
    <3>. QED
      BY <2>1, <3>2, Built
  <2>5. filterv6(l) = IF ~ParseAddrPort(V6Bare(l)) THEN Ok(<<>>)
                      ELSE IF r = 1 THEN Ok(Canon(V6Bare(l)))
                      ELSE IF r = 2 THEN Panic
                      ELSE Ok(buildProxyString(V6Rest(l)[2], V6Rest(l)[3], V6Addr(l), V6Rest(l)[1]))
    <3>1. ~(n < 2)
      BY <1>1, <1>3
    <3>. QED
      BY <1>1, <3>1, V6Cases DEF r
  <2>6. <<>> \in Seq(T)
    BY EmptySeq
  <2>7. ParseAddrPort(V6Bare(l)) => Canon(V6Bare(l)) \in Seq(T)
    OBVIOUS
  <2>. DEFINE B == buildProxyString(V6Rest(l)[2], V6Rest(l)[3], V6Addr(l), V6Rest(l)[1])
              C == Canon(V6Bare(l))
              P == ParseAddrPort(V6Bare(l))
  <2>. HIDE DEF B, C, P
  <2>8. filterv6(l) = IF ~P THEN Ok(<<>>) ELSE IF r = 1 THEN Ok(C) ELSE IF r = 2 THEN Panic ELSE Ok(B)
    BY <2>5 DEF B, C, P
  <2>9. (P => C \in Seq(T)) /\ (r # 1 /\ r # 2 => B \in Seq(T))
    BY <2>4, <2>7 DEF B, C, P
  <2>. QED
    BY <2>6, <2>8, <2>9 DEF Ok, Panic
<1>. QED
  BY <1>1, <1>2, <1>3

LEMMA AfterHas ==
  ASSUME NEW T, NEW m \in T, NEW x \in Seq(T), NEW y \in Seq(T)
  PROVE  /\ Has(After(x, m, y), <<m>>)
         /\ Len(x) + 1 \in Cuts(After(x, m, y), <<m>>)
<1>. DEFINE s == After(x, m, y)
<1>1. /\ s \in Seq(T) /\ Len(x) \in Nat /\ Len(y) \in Nat
      /\ Len(s) = Len(x) + 1 + Len(y) /\ s[Len(x) + 1] = m
  BY AfterTokens
<1>. HIDE DEF s
<1>2. Cuts(s, <<m>>) = {i \in 1..Len(s) : s[i] = m}
  BY <1>1, MarkCuts
<1>3. Len(x) + 1 \in 1..Len(s)
  BY <1>1
<1>4. Len(x) + 1 \in Cuts(s, <<m>>)
  BY <1>1, <1>2, <1>3
<1>. QED
  BY <1>4 DEF Has, s

LEMMA AddrPortColon ==
  ASSUME NEW s, ParseAddrPort(s)
  PROVE  Has(s, <<":">>)
<1>1. PICK p \in Ports : \/ \E b \in V4 : s = After(<<b>>, ":", <<p>>)
                         \/ \E b \in V6 : s = After(Bracketed(b), ":", <<p>>)
  BY AddrPortKinds
<1>2. <<p>> \in Seq(Tokens) /\ ":" \in Tokens
  BY PortTokens, WordTokens, MarkTokens
<1>3. ASSUME NEW x \in Seq(Tokens) PROVE Has(After(x, ":", <<p>>), <<":">>)
  <2>. DEFINE z == <<p>>
  <2>1. z \in Seq(Tokens) /\ ":" \in Tokens
    BY <1>2
  <2>. HIDE DEF z
  <2>2. Has(After(x, ":", z), <<":">>)
    BY <2>1, AfterHas
  <2>. QED
    BY <2>2 DEF z
<1>4. ASSUME NEW b \in V4 PROVE <<b>> \in Seq(Tokens)
  <2>1. b \in Words
    BY FilterAssumption
  <2>. QED
    BY <2>1, WordTokens
<1>5. ASSUME NEW b \in V6 PROVE Bracketed(b) \in Seq(Tokens)
  <2>1. b \in Seq(V6Tokens)
    BY V6Addresses
  <2>. QED
    BY <2>1, BracketedTokens
<1>. QED
  BY <1>1, <1>3, <1>4, <1>5

\* What filterThree makes of the two sides of an at sign.
At(l) == Split(l, <<"@">>)
Auth(l) == Split(At(l)[1], <<":">>)
Serv(l) == Split(At(l)[2], <<":">>)

LEMMA ThreeCases ==
  ASSUME NEW l
  PROVE  filterThree(l) =
           IF ~Has(l, <<"@">>) \/ ~Has(At(l)[1], <<":">>) THEN No
           ELSE IF IsDomainName(Serv(l)[1]) /\ Len(Serv(l)) < 2 THEN Panic
           ELSE IF (IsDomainName(Serv(l)[1]) /\ isNumber(Serv(l)[2])) \/ ParseAddrPort(At(l)[2])
           THEN Ok(buildProxyString(Auth(l)[1], Auth(l)[2], Serv(l)[1], Serv(l)[2]))
           ELSE filterv6(l)
<1>1. filterThree(l) =
        CASE ~Has(l, <<"@">>) \/ ~Has(At(l)[1], <<":">>) -> No
          [] OTHER ->
               IF IsDomainName(Serv(l)[1]) /\ Len(Serv(l)) < 2 THEN Panic
               ELSE IF (IsDomainName(Serv(l)[1]) /\ isNumber(Serv(l)[2])) \/ ParseAddrPort(At(l)[2])
               THEN Ok(buildProxyString(Auth(l)[1], Auth(l)[2], Serv(l)[1], Serv(l)[2]))
               ELSE filterv6(l)
  BY Zenon DEF filterThree, At, Auth, Serv
<1>. QED
  BY <1>1

\* There are two fields at least on a side with a colon.
LEMMA ThreeParts ==
  ASSUME NEW T, NEW l \in Seq(T), Has(l, <<"@">>), Has(At(l)[1], <<":">>)
  PROVE  /\ At(l)[2] \in Seq(T)
         /\ Auth(l)[1] \in Seq(T) /\ Auth(l)[1] \in Seq(T \ {":"})
         /\ Auth(l)[2] \in Seq(T) /\ Auth(l)[2] \in Seq(T \ {":"})
         /\ Len(Serv(l)) \in Nat \ {0}
         /\ Len(Serv(l)) = Cardinality(Cuts(At(l)[2], <<":">>)) + 1
         /\ Has(At(l)[2], <<":">>) <=> Len(Serv(l)) >= 2
         /\ Serv(l)[1] \in Seq(T) /\ Serv(l)[1] \in Seq(T \ {":"})
         /\ Len(Serv(l)) >= 2 => Serv(l)[2] \in Seq(T) /\ Serv(l)[2] \in Seq(T \ {":"})
         /\ Serv(l)[1] \in Seq(T \ {":", "@"})
         /\ Len(Serv(l)) >= 2 => Serv(l)[2] \in Seq(T \ {":", "@"})
<1>1. Len(At(l)) \in Nat \ {0} /\ Len(At(l)) >= 2
  BY SplitMark DEF At
<1>2. \A k \in 1..Len(At(l)) : At(l)[k] \in Seq(T \ {"@"})
  BY SplitMark DEF At
<1>3. \A t \in Seq(T \ {"@"}) : t \in Seq(T)
  OBVIOUS
<1>4. \A t \in Seq(T \ {":"}) : t \in Seq(T)
  OBVIOUS
<1>. DEFINE x == At(l)[1]
            y == At(l)[2]
<1>5. x \in Seq(T) /\ y \in Seq(T) /\ y \in Seq(T \ {"@"})
  <2>1. 1 \in 1..Len(At(l)) /\ 2 \in 1..Len(At(l))
    BY <1>1
  <2>. QED
    BY <1>2, <1>3, <2>1
<1>6. Auth(l) = Split(x, <<":">>) /\ Serv(l) = Split(y, <<":">>) /\ Has(x, <<":">>)
  BY DEF Auth, Serv
<1>. HIDE DEF x, y
<1>7. Len(Split(x, <<":">>)) \in Nat \ {0} /\ Len(Split(x, <<":">>)) >= 2
  BY <1>5, <1>6, SplitMark
<1>8. \A k \in 1..Len(Split(x, <<":">>)) : Split(x, <<":">>)[k] \in Seq(T \ {":"})
  BY <1>5, SplitMark
<1>9. /\ Len(Split(y, <<":">>)) \in Nat \ {0}
      /\ Has(y, <<":">>) => Len(Split(y, <<":">>)) >= 2
      /\ ~Has(y, <<":">>) => Len(Split(y, <<":">>)) = 1
      /\ Len(Split(y, <<":">>)) = Cardinality(Cuts(y, <<":">>)) + 1
  BY <1>5, SplitMark
<1>10. \A k \in 1..Len(Split(y, <<":">>)) :
         Split(y, <<":">>)[k] \in Seq(T \ {":"}) /\ Split(y, <<":">>)[k] \in Seq(T \ {":", "@"})
  <2>1. \A k \in 1..Len(Split(y, <<":">>)) : Split(y, <<":">>)[k] \in Seq((T \ {"@"}) \ {":"})
    BY <1>5, SplitMark
  <2>2. (T \ {"@"}) \ {":"} = T \ {":", "@"}
    OBVIOUS
  <2>3. \A t \in Seq(T \ {":", "@"}) : t \in Seq(T \ {":"})
    OBVIOUS
  <2>. QED
    BY <2>1, <2>2, <2>3
<1>11. Auth(l)[1] \in Seq(T \ {":"}) /\ Auth(l)[2] \in Seq(T \ {":"})
  <2>1. 1 \in 1..Len(Split(x, <<":">>)) /\ 2 \in 1..Len(Split(x, <<":">>))
    BY <1>7
  <2>. QED
    BY <1>6, <1>8, <2>1
<1>12. Serv(l)[1] \in Seq(T \ {":"}) /\ Serv(l)[1] \in Seq(T \ {":", "@"})
  <2>1. 1 \in 1..Len(Split(y, <<":">>))
    BY <1>9
  <2>. QED
    BY <1>6, <1>10, <2>1
<1>13. Len(Serv(l)) >= 2 =>
         Serv(l)[2] \in Seq(T \ {":"}) /\ Serv(l)[2] \in Seq(T \ {":", "@"})
  <2>1. Len(Split(y, <<":">>)) >= 2 => 2 \in 1..Len(Split(y, <<":">>))
    BY <1>9
  <2>. QED
    BY <1>6, <1>10, <2>1
<1>14. /\ Len(Serv(l)) \in Nat \ {0}
       /\ Len(Serv(l)) = Cardinality(Cuts(y, <<":">>)) + 1
       /\ Has(y, <<":">>) <=> Len(Serv(l)) >= 2
  <2>. DEFINE n == Len(Split(y, <<":">>))
  <2>1. /\ n \in Nat \ {0} /\ n = Cardinality(Cuts(y, <<":">>)) + 1
        /\ Has(y, <<":">>) => n >= 2
        /\ ~Has(y, <<":">>) => n = 1
    BY <1>9
  <2>2. Len(Serv(l)) = n
    BY <1>6
  <2>. HIDE DEF n
  <2>3. n >= 2 => n # 1
    BY <2>1
  <2>. QED
    BY <2>1, <2>2, <2>3
<1>. QED
  BY <1>4, <1>5, <1>11, <1>12, <1>13, <1>14 DEF y

LEMMA FilterCases ==
  ASSUME NEW l, NEW f, f = Split(l, <<":">>)
  PROVE  /\ Len(f) = 1 => filter(l) = No
         /\ Len(f) = 2 => filter(l) = filterTwo(l, f)
         /\ Len(f) = 3 => filter(l) = filterThree(l)
         /\ Len(f) = 4 => filter(l) = filterFour(l, f)
         /\ Len(f) \notin 1..4 => filter(l) = No \/ filter(l) = filterv6(l)
<1>1. filter(l) =
        CASE Len(f) = 1 -> No
          [] Len(f) = 2 -> filterTwo(l, f)
          [] Len(f) = 3 -> filterThree(l)
          [] Len(f) = 4 -> filterFour(l, f)
          [] OTHER -> IF Has(l, <<"[">>) /\ Has(l, <<"]", ":">>) THEN filterv6(l) ELSE No
  BY Zenon DEF filter
<1>. DEFINE A == filterTwo(l, f)
            B == filterThree(l)
            C == filterFour(l, f)
            D == filterv6(l)
            n == Len(f)
<1>. HIDE DEF A, B, C, D, n
<1>2. filter(l) =
        CASE n = 1 -> No [] n = 2 -> A [] n = 3 -> B [] n = 4 -> C
          [] OTHER -> IF Has(l, <<"[">>) /\ Has(l, <<"]", ":">>) THEN D ELSE No
  BY <1>1 DEF A, B, C, D, n
<1>3. n = 1 => filter(l) = No
  BY <1>2
<1>4. n = 2 => filter(l) = A
  BY <1>2
<1>5. n = 3 => filter(l) = B
  BY <1>2
<1>6. n = 4 => filter(l) = C
  BY <1>2
<1>7. n \notin 1..4 => filter(l) = No \/ filter(l) = D
  BY <1>2
<1>. QED
  BY <1>3, <1>4, <1>5, <1>6, <1>7 DEF A, B, C, D, n

LEMMA FilterTyped ==
  ASSUME NEW T, ":" \in T, "@" \in T, NEW l \in Seq(T),
         \A s \in Seq(T) : ParseAddrPort(s) => Canon(s) \in Seq(T),
         filterv6(l).ep \in Seq(T)
  PROVE  filter(l).ep \in Seq(T)
<1>. DEFINE sep == <<":">>
            f == Split(l, sep)
<1>1. Len(f) \in Nat \ {0}
  BY SplitMark
<1>2. \A k \in 1..Len(f) : f[k] \in Seq(T)
  <2>1. Len(sep) \in Nat \ {0}
    OBVIOUS
  <2>. HIDE DEF sep
  <2>. QED
    BY <2>1, SplitTyped
<1>3. No.ep \in Seq(T) /\ Panic.ep \in Seq(T) /\ \A e \in Seq(T) : Ok(e).ep \in Seq(T)
  BY EmptySeq DEF No, Panic, Ok
<1>. HIDE DEF f
<1>4. CASE Len(f) = 2
  <2>1. filterTwo(l, f).ep \in Seq(T)
    <3>1. filterTwo(l, f) = Ok(l) \/ (ParseAddrPort(l) /\ filterTwo(l, f) = Ok(Canon(l))) \/ filterTwo(l, f) = No
      BY DEF filterTwo
    <3>. QED
      BY <1>3, <3>1
  <2>2. filter(l) = filterTwo(l, f)
    BY <1>4, FilterCases DEF f
  <2>. QED
    BY <2>1, <2>2
<1>5. CASE Len(f) = 3
  <2>1. filter(l) = filterThree(l)
    BY <1>5, FilterCases DEF f
  <2>2. CASE ~Has(l, <<"@">>) \/ ~Has(At(l)[1], <<":">>)
    <3>1. filterThree(l) = No
      BY <2>2, ThreeCases
    <3>. QED
      BY <1>3, <2>1, <3>1
  <2>3. CASE Has(l, <<"@">>) /\ Has(At(l)[1], <<":">>)
    <3>. DEFINE e == buildProxyString(Auth(l)[1], Auth(l)[2], Serv(l)[1], Serv(l)[2])
    <3>1. \/ filterThree(l) = Panic \/ filterThree(l) = filterv6(l)
          \/ /\ filterThree(l) = Ok(e)
             /\ ~(IsDomainName(Serv(l)[1]) /\ Len(Serv(l)) < 2)
             /\ (IsDomainName(Serv(l)[1]) /\ isNumber(Serv(l)[2])) \/ ParseAddrPort(At(l)[2])
      BY <2>3, ThreeCases
    <3>2. Auth(l)[1] \in Seq(T) /\ Auth(l)[2] \in Seq(T) /\ Serv(l)[1] \in Seq(T)
      BY <2>3, ThreeParts
    <3>3. Len(Serv(l)) \in Nat \ {0} /\ (Len(Serv(l)) >= 2 => Serv(l)[2] \in Seq(T))
      BY <2>3, ThreeParts
    <3>4. ParseAddrPort(At(l)[2]) => Len(Serv(l)) >= 2
      BY <2>3, ThreeParts, AddrPortColon
    <3>5. Serv(l)[2] \in Seq(T) => e \in Seq(T)
      BY <3>2, Built
    <3>. HIDE DEF e
    <3>. QED
      BY <1>3, <2>1, <3>1, <3>3, <3>4, <3>5
  <2>. QED
    BY <2>2, <2>3
<1>6. CASE Len(f) = 4
  <2>1. filter(l) = filterFour(l, f)
    BY <1>6, FilterCases DEF f
  <2>2. f[1] \in Seq(T) /\ f[2] \in Seq(T) /\ f[3] \in Seq(T) /\ f[4] \in Seq(T)
    <3>1. 1 \in 1..Len(f) /\ 2 \in 1..Len(f) /\ 3 \in 1..Len(f) /\ 4 \in 1..Len(f)
      BY <1>6
    <3>. QED
      BY <1>2, <3>1
  <2>. DEFINE a == buildProxyString(f[3], f[4], f[1], f[2])
              b == buildProxyString(f[1], f[2], f[3], f[4])
  <2>3. a \in Seq(T) /\ b \in Seq(T)
    BY <2>2, Built
  <2>4. filterFour(l, f) = Ok(a) \/ filterFour(l, f) = Ok(b) \/ filterFour(l, f) = filterv6(l)
    BY DEF filterFour
  <2>. HIDE DEF a, b
  <2>. QED
    BY <1>3, <2>1, <2>3, <2>4
<1>7. CASE Len(f) # 2 /\ Len(f) # 3 /\ Len(f) # 4
  <2>1. filter(l) = No \/ filter(l) = filterv6(l)
    <3>1. f = Split(l, <<":">>)
      BY DEF f
    <3>2. Len(f) = 1 \/ Len(f) \notin 1..4
      BY <1>1, <1>7
    <3>. QED
      BY <3>1, <3>2, FilterCases
  <2>. QED
    BY <1>3, <2>1
<1>. QED
  BY <1>4, <1>5, <1>6, <1>7

-----------------------------------------------------------------------------
(* What filter takes can be dialled.                                       *)

LEMMA PlainTokens ==
  ASSUME NEW l \in Seq(Tokens)
  PROVE  Plain(l) <=> l \in Seq(Tokens \ {"[", "]"})
<1>1. Cuts(l, <<"[">>) = {i \in 1..Len(l) : l[i] = "["}
  BY MarkCuts
<1>2. Cuts(l, <<"]">>) = {i \in 1..Len(l) : l[i] = "]"}
  BY MarkCuts
<1>3. Plain(l) <=> \A i \in 1..Len(l) : l[i] # "[" /\ l[i] # "]"
  BY <1>1, <1>2 DEF Plain, Has
<1>4. (\A i \in 1..Len(l) : l[i] # "[" /\ l[i] # "]") <=> l \in Seq(Tokens \ {"[", "]"})
  OBVIOUS
<1>. QED
  BY <1>3, <1>4

\* The words that are no number but a port.
Clean == Words \ (Numbers \ Ports)

LEMMA FieldsDialable ==
  ASSUME NEW h \in Seq(Clean), NEW p \in Seq(Clean), h # <<>>, isNumber(p)
  PROVE  HostPort(After(h, ":", p))
<1>1. /\ ":" \in Tokens /\ h \in Seq(Tokens \ {":"}) /\ p \in Seq(Tokens \ {":"})
      /\ h \in Seq(Words)
  BY FilterAssumption DEF Clean, Tokens, Marks
<1>2. /\ Len(Split(After(h, ":", p), <<":">>)) = 2
      /\ Split(After(h, ":", p), <<":">>)[1] = h /\ Split(After(h, ":", p), <<":">>)[2] = p
  BY <1>1, TwoFields
<1>3. Len(p) = 1 /\ p[1] \in Ports
  BY DEF isNumber, Clean
<1>. QED
  BY <1>1, <1>2, <1>3 DEF HostPort

\* The fields of a line with no mark but colons and at signs, and no number but ports.
LEMMA CleanLine ==
  ASSUME NEW l \in Seq(Tokens), ~NoPort(l), Plain(l)
  PROVE  /\ l \in Seq(Clean \cup {":", "@"})
         /\ ~Has(l, <<"@">>) => l \in Seq(Clean \cup {":"})
<1>1. l \in Seq(Tokens \ {"[", "]"})
  BY PlainTokens
<1>2. \A i \in 1..Len(l) : l[i] \notin Numbers \ Ports
  BY DEF NoPort
<1>3. \A t \in Tokens \ {"[", "]"} : t \notin Numbers \ Ports => t \in Clean \cup {":", "@"}
  BY DEF Tokens, Marks, Clean
<1>4. \A i \in 1..Len(l) : l[i] \in Clean \cup {":", "@"}
  BY <1>1, <1>2, <1>3
<1>5. l \in Seq(Clean \cup {":", "@"})
  <2>1. Len(l) \in Nat /\ l = [i \in 1..Len(l) |-> l[i]]
    OBVIOUS
  <2>. QED
    BY <1>4, <2>1
<1>6. ASSUME ~Has(l, <<"@">>) PROVE l \in Seq(Clean \cup {":"})
  <2>1. \A i \in 1..Len(l) : l[i] # "@"
    <3>1. Cuts(l, <<"@">>) = {i \in 1..Len(l) : l[i] = "@"}
      BY MarkCuts
    <3>. QED
      BY <1>6, <3>1 DEF Has
  <2>. QED
    BY <1>5, <2>1
<1>. QED
  BY <1>5, <1>6

LEMMA UserDialable ==
  ASSUME NEW u \in Seq(Tokens \ {":"}), NEW q \in Seq(Tokens \ {":"}),
         NEW h \in Seq(Tokens), NEW p \in Seq(Tokens),
         u # <<>>, q # <<>>, HostPort(After(h, ":", p))
  PROVE  Dialable(User(u, q, h, p))
<1>. DEFINE x == After(u, ":", q)
            y == After(h, ":", p)
            e == User(u, q, h, p)
            i == Len(x) + 1
<1>1. ":" \in Tokens /\ "@" \in Tokens /\ u \in Seq(Tokens) /\ q \in Seq(Tokens)
  BY MarkTokens
<1>2. x \in Seq(Tokens) /\ y \in Seq(Tokens) /\ y # <<>>
  BY <1>1, AfterTyped
<1>3. /\ Len(Split(x, <<":">>)) = 2
      /\ Split(x, <<":">>)[1] = u /\ Split(x, <<":">>)[2] = q
  BY <1>1, TwoFields
<1>4. e = After(x, "@", y)
  BY DEF User
<1>. HIDE DEF x, e
<1>5. HostPort(y)
  OBVIOUS
<1>. HIDE DEF y
<1>6. i \in Cuts(e, <<"@">>)
  BY <1>1, <1>2, <1>4, AfterHas
<1>7. Len(x) \in Nat /\ Len(y) \in Nat \ {0}
  BY <1>2, EmptySeq
<1>8. Len(e) = Len(x) + 1 + Len(y)
  <2>1. Len(After(x, "@", y)) = Len(x) + 1 + Len(y)
    BY <1>1, <1>2, AfterTokens
  <2>. QED
    BY <1>4, <2>1
<1>9. SubSeq(e, 1, i - 1) = x
  <2>1. SubSeq(After(x, "@", y), 1, Len(x)) = x
    BY <1>1, <1>2, BeforeSubSeq
  <2>2. i - 1 = Len(x)
    BY <1>7
  <2>. QED
    BY <1>4, <2>1, <2>2
<1>10. SubSeq(e, i + 1, Len(e)) = y
  <2>. DEFINE k == Len(y)
  <2>1. 1 \in Nat /\ k \in Nat /\ 1 <= 1 /\ 1 <= k /\ k <= Len(y)
    BY <1>7
  <2>. HIDE DEF k
  <2>2. Piece(After(x, "@", y), Len(x) + 1 + 1, Len(x) + 1 + k) = Piece(y, 1, k)
    BY <1>1, <1>2, <2>1, AfterSubSeq
  <2>3. i + 1 = Len(x) + 1 + 1 /\ Len(e) = Len(x) + 1 + k
    BY <1>7, <1>8 DEF k
  <2>4. SubSeq(y, 1, Len(y)) = y
    BY <1>2, SubSeqFull
  <2>. QED
    BY <1>4, <2>2, <2>3, <2>4 DEF Piece, k
<1>. DEFINE X(j) == SubSeq(e, 1, j - 1)
            Y(j) == SubSeq(e, j + 1, Len(e))
<1>11. X(i) = x /\ Y(i) = y
  BY <1>9, <1>10
<1>. HIDE DEF i, X, Y
<1>12. \E j \in Cuts(e, <<"@">>) :
         /\ HostPort(Y(j))
         /\ Len(Split(X(j), <<":">>)) = 2
         /\ Split(X(j), <<":">>)[1] # <<>> /\ Split(X(j), <<":">>)[2] # <<>>
  <2>1. /\ Len(Split(X(i), <<":">>)) = 2
        /\ Split(X(i), <<":">>)[1] # <<>> /\ Split(X(i), <<":">>)[2] # <<>>
    BY <1>3, <1>11
  <2>. QED
    BY <1>5, <1>6, <1>11, <2>1, Zenon
<1>13. Dialable(e)
  BY <1>12, Zenon DEF Dialable, X, Y
<1>. QED
  BY <1>13 DEF e

LEMMA BuiltDialable ==
  ASSUME NEW u \in Seq(Tokens \ {":"}), NEW q \in Seq(Tokens \ {":"}),
         NEW h \in Seq(Tokens), NEW p \in Seq(Tokens),
         HostPort(After(h, ":", p))
  PROVE  Dialable(buildProxyString(u, q, h, p)) /\ buildProxyString(u, q, h, p) # <<>>
<1>. DEFINE e == buildProxyString(u, q, h, p)
<1>1. ":" \in Tokens /\ "@" \in Tokens /\ u \in Seq(Tokens) /\ q \in Seq(Tokens)
  BY MarkTokens
<1>2. e # <<>>
  BY <1>1, Built
<1>3. e = IF u # <<>> /\ q # <<>> THEN User(u, q, h, p) ELSE After(h, ":", p)
  BY <1>1, Built
<1>. HIDE DEF e
<1>4. CASE u # <<>> /\ q # <<>>
  <2>1. Dialable(User(u, q, h, p))
    BY <1>4, UserDialable
  <2>. QED
    BY <1>2, <1>3, <1>4, <2>1 DEF e
<1>5. CASE ~(u # <<>> /\ q # <<>>)
  BY <1>2, <1>3, <1>5 DEF e, Dialable
<1>. QED
  BY <1>4, <1>5

\* What becomes of a line: what is taken can be dialled, or it is of the kinds that
\* slip through.
Taken(l, e) ==
  Dialable(e) \/ MarkInName(l) \/ NoPort(l) \/ (e = <<>> /\ Has(l, <<"]", ":">>))
Judged(l, r) == r.says \in {"ok", "no", "panic"} /\ (r.says = "ok" => Taken(l, r.ep))

LEMMA JudgedCases ==
  ASSUME NEW l
  PROVE  /\ Judged(l, No) /\ Judged(l, Panic)
         /\ \A e : Taken(l, e) => Judged(l, Ok(e))
         /\ \A e : Dialable(e) => Judged(l, Ok(e))
         /\ Has(l, <<"]", ":">>) => Judged(l, Ok(<<>>))
BY DEF Judged, Taken, No, Ok, Panic

LEMMA V6Judged ==
  ASSUME NEW l \in Seq(Tokens)
  PROVE  Judged(l, filterv6(l))
<1>. DEFINE n == Len(V6Halves(l))
            r == Len(V6Rest(l))
<1>1. n \in Nat /\ "]" \in Tokens /\ ":" \in Tokens /\ "@" \in Tokens
  BY V6Parts, MarkTokens
<1>2. CASE n < 2
  <2>1. filterv6(l) = No
    BY <1>1, <1>2, V6Cases
  <2>. QED
    BY <2>1, JudgedCases
<1>3. CASE n >= 2
  <2>. DEFINE a == V6Addr(l)
              f == V6Rest(l)
              b == V6Bare(l)
              e == buildProxyString(f[2], f[3], a, f[1])
  <2>1. a \in Seq(Tokens)
    BY <1>1, <1>3, V6Parts
  <2>2. r \in Nat \ {0} /\ V6Halves(l)[2] \in Seq(Tokens)
    BY <1>1, <1>3, V6Parts
  <2>3. \A k \in 1..r : f[k] \in Seq(Tokens) /\ f[k] \in Seq(Tokens \ {":"})
    BY <1>1, <1>3, V6Parts
  <2>4. Has(l, <<"]", ":">>)
    <3>. DEFINE sep == <<"]", ":">>
    <3>1. Len(sep) \in Nat \ {0}
      OBVIOUS
    <3>. HIDE DEF sep
    <3>2. ~Has(l, sep) => Len(Split(l, sep)) = 1
      <4>1. ~Has(l, sep) => Split(l, sep) = <<l>>
        BY <3>1, SplitNone
      <4>. QED
        BY <4>1
    <3>3. Len(Split(l, sep)) # 1
      <4>1. Len(Split(l, sep)) = n
        BY DEF sep, V6Halves
      <4>. HIDE DEF n
      <4>2. n # 1
        BY <1>1, <1>3
      <4>. QED
        BY <4>1, <4>2
    <3>. QED
      BY <3>2, <3>3 DEF sep
  <2>5. f[1] \in Seq(Tokens)
    <3>1. 1 \in 1..r
      BY <2>2
    <3>. QED
      BY <2>3, <3>1
  <2>6. b = After(a, ":", f[1])
    <3>1. b = buildProxyString(<<>>, <<>>, a, f[1])
      BY DEF V6Bare
    <3>. HIDE DEF a, f, b
    <3>. QED
      BY <2>1, <2>5, <3>1, BuiltAlone
  <2>8. filterv6(l) = IF ~ParseAddrPort(b) THEN Ok(<<>>)
                      ELSE IF r = 1 THEN Ok(Canon(b))
                      ELSE IF r = 2 THEN Panic
                      ELSE Ok(e)
    <3>1. ~(n < 2)
      BY <1>1, <1>3
    <3>. QED
      BY <1>1, <3>1, V6Cases
  <2>9. ParseAddrPort(b) => Canon(b) # <<>> /\ Dialable(Canon(b))
    BY CanonIs DEF Dialable, HostPort
  <2>10. ParseAddrPort(b) /\ r # 1 /\ r # 2 => e # <<>> /\ Dialable(e)
    <3>. SUFFICES ASSUME ParseAddrPort(b), r # 1, r # 2
                  PROVE  e # <<>> /\ Dialable(e)
      OBVIOUS
    <3>1. f[2] \in Seq(Tokens \ {":"}) /\ f[3] \in Seq(Tokens \ {":"})
      <4>. HIDE DEF r, f
      <4>1. 2 \in 1..r /\ 3 \in 1..r
        BY <2>2
      <4>. QED
        BY <2>3, <4>1
    <3>2. HostPort(After(a, ":", f[1]))
      BY <2>6 DEF HostPort
    <3>. HIDE DEF a, f
    <3>. QED
      BY <2>1, <2>5, <3>1, <3>2, BuiltDialable
  <2>. HIDE DEF a, b, e, f, r
  <2>. QED
    BY <2>4, <2>8, <2>9, <2>10, JudgedCases
<1>. QED
  BY <1>1, <1>2, <1>3

\* A field has no more marks than its line.
LEMMA SubSeqCuts ==
  ASSUME NEW T, NEW s \in Seq(T), NEW m, NEW a \in Nat \ {0}, NEW b \in 0..Len(s),
         NEW t, t = Piece(s, a, b)
  PROVE  /\ Cardinality(Cuts(t, <<m>>)) <= Cardinality(Cuts(s, <<m>>))
         /\ Cardinality(Cuts(t, <<m>>)) \in Nat /\ Cardinality(Cuts(s, <<m>>)) \in Nat
<1>0. Len(s) \in Nat /\ a \in Int /\ b \in Int /\ \A i \in a..b : s[i] \in T
  OBVIOUS
<1>1. /\ t \in Seq(T) /\ Len(t) = IF a <= b THEN b - a + 1 ELSE 0
      /\ \A i \in 1..(b - a + 1) : t[i] = s[a + i - 1]
  <2>1. t = SubSeq(s, a, b)
    BY DEF Piece
  <2>2. /\ SubSeq(s, a, b) \in Seq(T)
        /\ Len(SubSeq(s, a, b)) = IF a <= b THEN b - a + 1 ELSE 0
        /\ \A i \in 1..(b - a + 1) : SubSeq(s, a, b)[i] = s[a + i - 1]
    BY <1>0, SubSeqProperties
  <2>. QED
    BY <2>1, <2>2
<1>. DEFINE D == Cuts(t, <<m>>)
            C == Cuts(s, <<m>>)
            k == a - 1
<1>2. D = {i \in 1..Len(t) : t[i] = m}
  <2>1. t \in Seq(T)
    BY <1>1
  <2>. QED
    BY <2>1, MarkCuts
<1>3. C = {i \in 1..Len(s) : s[i] = m}
  BY MarkCuts
<1>4. k \in Nat
  OBVIOUS
<1>. HIDE DEF D, C
<1>5. IsFiniteSet(C) /\ IsFiniteSet(D) /\ D \in SUBSET Nat
  <2>1. Len(s) \in Int /\ Len(t) \in Int /\ 1 \in Int
    BY <1>0, <1>1
  <2>2. IsFiniteSet(1..Len(s)) /\ IsFiniteSet(1..Len(t))
    BY <2>1, FS_Interval
  <2>3. C \subseteq 1..Len(s) /\ D \subseteq 1..Len(t)
    BY <1>2, <1>3
  <2>4. IsFiniteSet(C) /\ IsFiniteSet(D)
    BY <2>2, <2>3, FS_Subset
  <2>5. D \in SUBSET Nat
    BY <2>3
  <2>. QED
    BY <2>4, <2>5
<1>6. ASSUME NEW i \in D PROVE k + i \in C
  <2>1. i \in 1..Len(t) /\ t[i] = m
    BY <1>2
  <2>2. a <= b /\ i \in 1..(b - a + 1)
    BY <1>0, <1>1, <2>1
  <2>3. k + i = a + i - 1 /\ k + i \in 1..Len(s)
    BY <1>0, <2>2
  <2>4. s[a + i - 1] = m
    BY <1>1, <2>1, <2>2
  <2>. QED
    BY <1>3, <2>3, <2>4
<1>. HIDE DEF k
<1>7. Shift(D, k) \subseteq C
  BY <1>6 DEF Shift
<1>8. IsFiniteSet(Shift(D, k)) /\ Cardinality(Shift(D, k)) = Cardinality(D)
  BY <1>4, <1>5, ShiftCount
<1>. QED
  BY <1>5, <1>7, <1>8, FS_Subset, FS_CardinalityType DEF C, D

LEMMA FieldCuts ==
  ASSUME NEW T, NEW s \in Seq(T), NEW m, NEW o, Has(s, <<o>>)
  PROVE  /\ Cardinality(Cuts(Split(s, <<o>>)[2], <<m>>)) <= Cardinality(Cuts(s, <<m>>))
         /\ Cardinality(Cuts(s, <<m>>)) \in Nat
<1>. DEFINE sep == <<o>>
            n == Cardinality(Cuts(s, sep))
            y == Split(s, sep)[2]
            a == From(s, sep, 2)
            c == To(s, sep, 2)
<1>1. Len(sep) \in Nat \ {0}
  OBVIOUS
<1>2. Len(Split(s, sep)) = n + 1 /\ Len(Split(s, sep)) >= 2
  BY SplitMark
<1>. HIDE DEF sep
<1>3. n \in Nat
  BY <1>1, CutsBounds
<1>4. 2 \in 1..(n + 1)
  BY <1>2, <1>3
<1>5. ASSUME NEW k \in 1..(n + 1)
      PROVE  /\ Split(s, sep)[k] = SubSeq(s, From(s, sep, k), To(s, sep, k))
             /\ From(s, sep, k) \in Nat \ {0} /\ To(s, sep, k) \in 0..Len(s)
  BY <1>1, SplitFields
<1>6. y = Piece(s, a, c) /\ a \in Nat \ {0} /\ c \in 0..Len(s)
  BY <1>4, <1>5 DEF Piece
<1>. HIDE DEF a, c, y
<1>7. /\ Cardinality(Cuts(y, <<m>>)) <= Cardinality(Cuts(s, <<m>>))
      /\ Cardinality(Cuts(s, <<m>>)) \in Nat
  BY <1>6, SubSeqCuts
<1>. QED
  BY <1>7 DEF y, sep

\* The address after an at sign is no IPv6 address, in a line of two colons.
LEMMA ThreeNamed ==
  ASSUME NEW l \in Seq(Tokens), Len(Split(l, <<":">>)) = 3,
         Has(l, <<"@">>), Has(At(l)[1], <<":">>), ParseAddrPort(At(l)[2])
  PROVE  IsDomainName(Serv(l)[1]) /\ isNumber(Serv(l)[2])
<1>. DEFINE y == At(l)[2]
            cy == Cardinality(Cuts(y, <<":">>))
            cl == Cardinality(Cuts(l, <<":">>))
<1>1. PICK p \in Ports : \/ \E b \in V4 : y = After(<<b>>, ":", <<p>>)
                         \/ \E b \in V6 : y = After(Bracketed(b), ":", <<p>>)
  BY AddrPortKinds
<1>2. p \in Words /\ isNumber(<<p>>) /\ <<p>> \in Seq(Tokens \ {":"}) /\ ":" \in Tokens
  BY PortTokens, WordTokens, MarkTokens
<1>3. CASE \E b \in V4 : y = After(<<b>>, ":", <<p>>)
  <2>1. PICK b \in V4 : y = After(<<b>>, ":", <<p>>)
    BY <1>3
  <2>2. b \in Words
    BY FilterAssumption
  <2>. DEFINE x == <<b>>
              z == <<p>>
  <2>3. x \in Seq(Tokens \ {":"}) /\ x # <<>> /\ z \in Seq(Tokens \ {":"}) /\ isNumber(z)
    BY <1>2, <2>2, WordTokens
  <2>4. y = After(x, ":", z)
    BY <2>1
  <2>. HIDE DEF x, z, y
  <2>5. Split(After(x, ":", z), <<":">>)[1] = x /\ Split(After(x, ":", z), <<":">>)[2] = z
    BY <1>2, <2>3, TwoFields
  <2>. QED
    BY <2>3, <2>4, <2>5 DEF Serv, IsDomainName, y
<1>4. CASE \E b \in V6 : y = After(Bracketed(b), ":", <<p>>)
  <2>1. PICK b \in V6 : y = After(Bracketed(b), ":", <<p>>)
    BY <1>4
  <2>2. b \in Seq(V6Tokens) /\ Cardinality(Cuts(b, <<":">>)) >= 2
    BY V6Addresses
  <2>3. <<p>> \in Seq(V6Tokens)
    BY <1>2 DEF V6Tokens
  <2>4. cy >= 3 /\ cy \in Nat
    <3>. DEFINE z == <<p>>
                cb == Cardinality(Cuts(Bracketed(b), <<":">>))
                ca == Cardinality(Cuts(b, <<":">>))
                cz == Cardinality(Cuts(z, <<":">>))
    <3>1. z \in Seq(V6Tokens) /\ y = After(Bracketed(b), ":", z)
      BY <2>1, <2>3
    <3>. HIDE DEF z, y
    <3>2. /\ cy \in Nat /\ cb \in Nat /\ ca \in Nat /\ cz \in Nat
          /\ cy >= cb + 1 + cz /\ cb >= ca
      BY <2>2, <3>1, V6Colons
    <3>3. ca >= 2
      BY <2>2
    <3>. HIDE DEF cy, ca, cb, cz
    <3>. QED
      BY <3>2, <3>3
  <2>5. cy <= cl /\ cl \in Nat
    <3>1. Cardinality(Cuts(Split(l, <<"@">>)[2], <<":">>)) <= cl /\ cl \in Nat
      BY FieldCuts
    <3>. QED
      BY <3>1 DEF At
  <2>6. cl = 2
    <3>1. Len(Split(l, <<":">>)) = cl + 1
      BY SplitMark
    <3>. HIDE DEF cl
    <3>2. cl + 1 = 3
      BY <3>1
    <3>. QED
      BY <2>5, <3>2
  <2>. HIDE DEF cl, cy
  <2>. QED
    BY <2>4, <2>5, <2>6
<1>. QED
  BY <1>1, <1>3, <1>4

LEMMA CleanFields ==
  ASSUME NEW l \in Seq(Clean \cup {":"})
  PROVE  \A k \in 1..Len(Split(l, <<":">>)) : Split(l, <<":">>)[k] \in Seq(Clean)
<1>. DEFINE T == Clean \cup {":"}
<1>1. \A k \in 1..Len(Split(l, <<":">>)) : Split(l, <<":">>)[k] \in Seq(T \ {":"})
  BY SplitMark
<1>2. \A t \in Seq(T \ {":"}) : t \in Seq(Clean)
  OBVIOUS
<1>. QED
  BY <1>1, <1>2

LEMMA FilterJudged ==
  ASSUME NEW l \in Seq(Tokens)
  PROVE  Judged(l, filter(l))
<1>. DEFINE f == Split(l, <<":">>)
<1>1. Len(f) \in Nat \ {0}
  BY SplitMark
<1>2. \A k \in 1..Len(f) : f[k] \in Seq(Tokens \ {":"})
  BY SplitMark
<1>3. \A t \in Seq(Tokens \ {":"}) : t \in Seq(Tokens)
  OBVIOUS
<1>4. CASE Len(f) = 2
  <2>1. filter(l) = filterTwo(l, f)
    BY <1>4, FilterCases
  <2>3. IsDomainName(f[1]) /\ isNumber(f[2]) => Taken(l, l)
    <3>. SUFFICES ASSUME IsDomainName(f[1]), isNumber(f[2]), ~MarkInName(l), ~NoPort(l)
                  PROVE  Dialable(l)
      BY DEF Taken
    <3>1. Plain(l) /\ ~Has(l, <<"@">>)
      <4>. HIDE DEF f
      <4>1. MarkInName(l) <=> (Len(f) <= 4 /\ ~Plain(l)) \/ (Len(f) \in {2, 4} /\ Has(l, <<"@">>))
        BY DEF MarkInName, f
      <4>. QED
        BY <1>4, <4>1
    <3>2. l \in Seq(Clean \cup {":"})
      BY <3>1, CleanLine
    <3>3. f[1] \in Seq(Clean) /\ f[2] \in Seq(Clean)
      BY <1>4, <3>2, CleanFields
    <3>4. /\ f[1] \in Seq(Words) \ {<<>>}
          /\ Len(f[2]) = 1 /\ f[2][1] \in Ports
      BY <3>3 DEF Clean, IsDomainName, isNumber
    <3>. QED
      BY <1>4, <3>4 DEF Dialable, HostPort
  <2>4. ParseAddrPort(l) => Dialable(Canon(l))
    BY CanonIs DEF Dialable, HostPort
  <2>. HIDE DEF f
  <2>5. \/ IsDomainName(f[1]) /\ isNumber(f[2]) /\ filterTwo(l, f) = Ok(l)
        \/ ParseAddrPort(l) /\ filterTwo(l, f) = Ok(Canon(l))
        \/ filterTwo(l, f) = No
    BY DEF filterTwo
  <2>. QED
    BY <2>1, <2>3, <2>4, <2>5, JudgedCases
<1>5. CASE Len(f) = 3
  <2>1. filter(l) = filterThree(l)
    BY <1>5, FilterCases
  <2>2. CASE ~Has(l, <<"@">>) \/ ~Has(At(l)[1], <<":">>)
    <3>1. filterThree(l) = No
      BY <2>2, ThreeCases
    <3>. QED
      BY <2>1, <3>1, JudgedCases
  <2>3. CASE Has(l, <<"@">>) /\ Has(At(l)[1], <<":">>)
    <3>. DEFINE u == Auth(l)[1]
                q == Auth(l)[2]
                h == Serv(l)[1]
                p == Serv(l)[2]
                n == Len(Serv(l))
                e == buildProxyString(u, q, h, p)
                named == IsDomainName(h)
    <3>1. \/ named /\ n < 2 /\ filterThree(l) = Panic
          \/ filterThree(l) = filterv6(l)
          \/ /\ ~(named /\ n < 2)
             /\ (named /\ isNumber(p)) \/ ParseAddrPort(At(l)[2])
             /\ filterThree(l) = Ok(e)
      BY <2>3, ThreeCases
    <3>2. u \in Seq(Tokens \ {":"}) /\ q \in Seq(Tokens \ {":"}) /\ h \in Seq(Tokens \ {":"})
      BY <2>3, ThreeParts
    <3>3. n \in Nat \ {0} /\ (n >= 2 => p \in Seq(Tokens \ {":"}))
      BY <2>3, ThreeParts
    <3>6. ParseAddrPort(At(l)[2]) => named /\ isNumber(p)
      BY <1>5, <2>3, ThreeNamed
    <3>7. named /\ isNumber(p) /\ n >= 2 => Taken(l, e)
      <4>. SUFFICES ASSUME named, isNumber(p), n >= 2, ~MarkInName(l), ~NoPort(l)
                    PROVE  Dialable(e)
        BY DEF Taken
      <4>. DEFINE T == Clean \cup {":", "@"}
      <4>1. l \in Seq(T)
        <5>. HIDE DEF f
        <5>1. MarkInName(l) <=> (Len(f) <= 4 /\ ~Plain(l)) \/ (Len(f) \in {2, 4} /\ Has(l, <<"@">>))
          BY DEF MarkInName, f
        <5>2. Plain(l)
          BY <1>5, <5>1
        <5>. QED
          BY <5>2, CleanLine
      <4>. HIDE DEF T
      <4>2. h \in Seq(T \ {":", "@"}) /\ p \in Seq(T \ {":", "@"})
        BY <2>3, <4>1, ThreeParts
      <4>3. \A t \in Seq(T \ {":", "@"}) : t \in Seq(Clean) /\ t \in Seq(Tokens)
        BY DEF T, Clean, Tokens
      <4>4. h # <<>>
        BY DEF IsDomainName
      <4>. HIDE DEF u, q, h, p
      <4>5. HostPort(After(h, ":", p))
        BY <4>2, <4>3, <4>4, FieldsDialable
      <4>. QED
        BY <3>2, <4>2, <4>3, <4>5, BuiltDialable
    <3>8. n < 2 \/ n >= 2
      <4>. HIDE DEF n
      <4>. QED
        BY <3>3
    <3>. HIDE DEF e, n, named, p
    <3>. QED
      BY <2>1, <3>1, <3>6, <3>7, <3>8, V6Judged, JudgedCases
  <2>. QED
    BY <2>2, <2>3
<1>6. CASE Len(f) = 4
  <2>1. filter(l) = filterFour(l, f)
    BY <1>6, FilterCases
  <2>2. /\ f[1] \in Seq(Tokens \ {":"}) /\ f[2] \in Seq(Tokens \ {":"})
        /\ f[3] \in Seq(Tokens \ {":"}) /\ f[4] \in Seq(Tokens \ {":"})
    <3>. HIDE DEF f
    <3>1. 1 \in 1..Len(f) /\ 2 \in 1..Len(f) /\ 3 \in 1..Len(f) /\ 4 \in 1..Len(f)
      BY <1>6
    <3>. QED
      BY <1>2, <3>1
  <2>3. ASSUME NEW u \in Seq(Tokens \ {":"}), NEW q \in Seq(Tokens \ {":"}),
               NEW h \in Seq(Clean), NEW p \in Seq(Clean), IsDomainName(h), isNumber(p)
        PROVE  Dialable(buildProxyString(u, q, h, p))
    <3>1. HostPort(After(h, ":", p))
      BY <2>3, FieldsDialable DEF IsDomainName
    <3>2. h \in Seq(Tokens) /\ p \in Seq(Tokens)
      BY DEF Clean, Tokens
    <3>. QED
      BY <3>1, <3>2, BuiltDialable
  <2>4. ~MarkInName(l) /\ ~NoPort(l) =>
          f[1] \in Seq(Clean) /\ f[2] \in Seq(Clean) /\ f[3] \in Seq(Clean) /\ f[4] \in Seq(Clean)
    <3>. SUFFICES ASSUME ~MarkInName(l), ~NoPort(l)
                  PROVE  /\ f[1] \in Seq(Clean) /\ f[2] \in Seq(Clean)
                         /\ f[3] \in Seq(Clean) /\ f[4] \in Seq(Clean)
      OBVIOUS
    <3>1. Plain(l) /\ ~Has(l, <<"@">>)
      <4>. HIDE DEF f
      <4>1. MarkInName(l) <=> (Len(f) <= 4 /\ ~Plain(l)) \/ (Len(f) \in {2, 4} /\ Has(l, <<"@">>))
        BY DEF MarkInName, f
      <4>. QED
        BY <1>6, <4>1
    <3>2. l \in Seq(Clean \cup {":"})
      BY <3>1, CleanLine
    <3>. QED
      BY <1>6, <3>2, CleanFields
  <2>. HIDE DEF f
  <2>. DEFINE a == buildProxyString(f[3], f[4], f[1], f[2])
              b == buildProxyString(f[1], f[2], f[3], f[4])
  <2>7. /\ IsDomainName(f[1]) /\ isNumber(f[2]) => Taken(l, a)
        /\ IsDomainName(f[3]) /\ isNumber(f[4]) => Taken(l, b)
    <3>1. CASE MarkInName(l) \/ NoPort(l)
      BY <3>1 DEF Taken
    <3>2. CASE ~MarkInName(l) /\ ~NoPort(l)
      <4>1. /\ IsDomainName(f[1]) /\ isNumber(f[2]) => Dialable(a)
            /\ IsDomainName(f[3]) /\ isNumber(f[4]) => Dialable(b)
        BY <2>2, <2>3, <2>4, <3>2
      <4>. QED
        BY <4>1 DEF Taken
    <3>. QED
      BY <3>1, <3>2
  <2>5. \/ IsDomainName(f[1]) /\ isNumber(f[2]) /\ filterFour(l, f) = Ok(a)
        \/ IsDomainName(f[3]) /\ isNumber(f[4]) /\ filterFour(l, f) = Ok(b)
        \/ filterFour(l, f) = filterv6(l)
    BY DEF filterFour
  <2>. HIDE DEF a, b
  <2>. QED
    BY <2>1, <2>5, <2>7, V6Judged, JudgedCases
<1>7. CASE Len(f) # 2 /\ Len(f) # 3 /\ Len(f) # 4
  <2>1. filter(l) = No \/ filter(l) = filterv6(l)
    <3>1. f = Split(l, <<":">>)
      OBVIOUS
    <3>. HIDE DEF f
    <3>2. Len(f) = 1 \/ Len(f) \notin 1..4
      BY <1>1, <1>7
    <3>. QED
      BY <3>1, <3>2, FilterCases
  <2>. QED
    BY <2>1, V6Judged, JudgedCases
<1>. QED
  BY <1>4, <1>5, <1>6, <1>7

\* A line without the marks of an IPv6 address has an endpoint without them.
LEMMA FilterPlain ==
  ASSUME NEW l \in Seq(Tokens), Plain(l)
  PROVE  filter(l).ep \in Seq(Tokens) /\ Plain(filter(l).ep)
<1>. DEFINE T == Tokens \ {"[", "]"}
            sep == <<"]", ":">>
<1>1. l \in Seq(T)
  BY PlainTokens
<1>2. ":" \in T /\ "@" \in T
  BY DEF Tokens, Marks
<1>3. \A t \in Seq(T) : t \in Seq(Tokens)
  OBVIOUS
<1>4. ASSUME NEW s \in Seq(T), ParseAddrPort(s) PROVE Canon(s) \in Seq(T)
  <2>1. s \in Seq(Tokens)
    BY <1>3
  <2>2. ~Has(s, <<"]">>)
    BY <2>1, PlainTokens DEF Plain
  <2>. QED
    BY <2>2 DEF Canon
<1>5. filterv6(l) = No
  <2>1. ~Has(l, sep)
    <3>1. Cuts(l, <<"]", ":">>) = {i \in 1..(Len(l) - 1) : l[i] = "]" /\ l[i + 1] = ":"}
      BY PairCuts
    <3>2. \A i \in 1..(Len(l) - 1) : l[i] # "]"
      BY <1>1
    <3>. QED
      BY <3>1, <3>2 DEF Has
  <2>2. Len(sep) \in Nat \ {0}
    OBVIOUS
  <2>. HIDE DEF sep
  <2>3. Split(l, sep) = <<l>>
    BY <2>1, <2>2, SplitNone
  <2>4. Len(V6Halves(l)) = 1
    BY <2>3 DEF V6Halves, sep
  <2>. DEFINE n == Len(V6Halves(l))
  <2>5. n = 1
    BY <2>4
  <2>6. n \in Nat => (n < 2 => filterv6(l) = No)
    BY V6Cases
  <2>. HIDE DEF n
  <2>. QED
    BY <2>5, <2>6
<1>6. filterv6(l).ep \in Seq(T)
  BY <1>5, EmptySeq DEF No
<1>. HIDE DEF T
<1>7. filter(l).ep \in Seq(T)
  BY <1>1, <1>2, <1>4, <1>6, FilterTyped
<1>. QED
  BY <1>3, <1>7, PlainTokens DEF T

LEMMA FilterTokens ==
  ASSUME NEW l \in Seq(Tokens)
  PROVE  filter(l).ep \in Seq(Tokens)
<1>1. \A s : ParseAddrPort(s) => Canon(s) \in Seq(Tokens)
  BY CanonIs
<1>2. filterv6(l).ep \in Seq(Tokens)
  BY <1>1, MarkTokens, V6FilterTyped
<1>. QED
  BY <1>1, <1>2, MarkTokens, FilterTyped

-----------------------------------------------------------------------------
(* The records.                                                            *)

LEMMA LinesTyped == Lines \subseteq Seq(Tokens)
<1>1. OtherLines \subseteq Seq(Tokens)
  BY FilterAssumption
<1>2. ASSUME NEW p \in Proxies, NEW l \in Spellings(p) PROVE l \in Seq(Tokens)
  <2>. DEFINE h == p.host
              n == <<p.port>>
              a == p.auth
              at == h \o <<":", p.port>>
  <2>1. p.port \in Tokens /\ n \in Seq(Tokens) /\ ":" \in Tokens /\ "@" \in Tokens
    BY HostKinds, PortTokens, WordTokens, MarkTokens
  <2>2. h \in Seq(Tokens)
    <3>1. ASSUME NEW w \in Words PROVE <<w>> \in Seq(Tokens)
      BY WordTokens
    <3>2. ASSUME NEW b \in V6 PROVE Bracketed(b) \in Seq(Tokens)
      <4>1. b \in Seq(V6Tokens)
        BY V6Addresses
      <4>. QED
        BY <4>1, BracketedTokens
    <3>. QED
      BY <3>1, <3>2, HostKinds
  <2>3. a \in Seq(Tokens)
    <3>1. a = <<>> \/ a \in Seq(Tokens)
      BY FilterAssumption
    <3>. QED
      BY <3>1, EmptySeq
  <2>. HIDE DEF h, a
  <2>4. at \in Seq(Tokens)
    <3>1. at = After(h, ":", n)
      BY <2>1, <2>2, AfterPair
    <3>. HIDE DEF n, at
    <3>. QED
      BY <2>1, <2>2, <3>1, AfterTyped
  <2>. HIDE DEF at
  <2>5. l = at \/ l = After(at, ":", a) \/ l = After(a, "@", at)
    <3>1. l \in IF a = <<>> THEN {at}
                ELSE {(at \o <<":">>) \o a}
                       \cup IF Has(h, <<"[">>) THEN {} ELSE {(a \o <<"@">>) \o at}
      BY Zenon DEF Spellings, at, h, a
    <3>2. l = at \/ l = (at \o <<":">>) \o a \/ l = (a \o <<"@">>) \o at
      BY <3>1, Zenon
    <3>. QED
      BY <3>2, Zenon DEF After
  <2>6. After(at, ":", a) \in Seq(Tokens)
    BY <2>1, <2>3, <2>4, AfterTyped
  <2>7. After(a, "@", at) \in Seq(Tokens)
    BY <2>1, <2>3, <2>4, AfterTyped
  <2>. QED
    BY <2>4, <2>5, <2>6, <2>7
<1>. QED
  BY <1>1, <1>2 DEF Lines

LEMMA FilteredLines ==
  ASSUME NEW l \in Lines
  PROVE  /\ l \in Seq(Tokens) /\ Filtered[l] = filter(l)
         /\ Filtered[l].ep \in Seq(Tokens) /\ Judged(l, Filtered[l])
         /\ Plain(l) => Plain(Filtered[l].ep)
<1>1. l \in Seq(Tokens)
  BY LinesTyped
<1>2. Filtered[l] = filter(l)
  BY DEF Filtered
<1>. QED
  BY <1>1, <1>2, FilterTokens, FilterJudged, FilterPlain

\* The inductive invariant: the last line is one there is and filter has said of it
\* what is kept, and if it was taken its endpoint is on record.
RecordsInv ==
  /\ proxyMap \in SUBSET Seq(Tokens)
  /\ last.says = "none" => last.line = <<>>
  /\ last.says # "none" => last.line \in Lines /\ Filtered[last.line].says = last.says
  /\ last.says = "ok" => Filtered[last.line].ep \in proxyMap

LEMMA RecordsInit == Init => RecordsInv
BY DEF Init, RecordsInv, NoLoad

LEMMA RecordsNext == RecordsInv /\ [Next]_vars => RecordsInv'
<1>. SUFFICES ASSUME RecordsInv, [Next]_vars PROVE RecordsInv'
  OBVIOUS
<1>1. CASE \E l \in Lines : LoadSingleProxy(l)
  <2>1. PICK l \in Lines : LoadSingleProxy(l)
    BY <1>1
  <2>. DEFINE r == Filtered[l]
  <2>2. r.ep \in Seq(Tokens) /\ r.says # "none"
    BY FilteredLines DEF Judged
  <2>3. last'.line = l /\ last'.says = r.says
    BY <2>1 DEF LoadSingleProxy
  <2>4. proxyMap' = IF r.says = "ok" THEN proxyMap \cup {r.ep} ELSE proxyMap
    BY <2>1 DEF LoadSingleProxy
  <2>5. proxyMap' \in SUBSET Seq(Tokens) /\ (r.says = "ok" => r.ep \in proxyMap')
    BY <2>2, <2>4 DEF RecordsInv
  <2>. QED
    BY <2>2, <2>3, <2>5 DEF RecordsInv
<1>2. CASE \E f \in Files : LoadMultiLineString(f)
  <2>1. PICK f \in Files : LoadMultiLineString(f)
    BY <1>2
  <2>2. \A i \in DOMAIN f : f[i] \in Seq(Tokens)
    <3>1. f \in Seq(Seq(Tokens))
      BY FilterAssumption
    <3>. QED
      BY <3>1
  <2>. QED
    BY <2>1, <2>2 DEF RecordsInv, LoadMultiLineString
<1>3. CASE ClearSOCKSList
  BY <1>3 DEF RecordsInv, ClearSOCKSList, NoLoad
<1>4. CASE UNCHANGED vars
  BY <1>4 DEF RecordsInv, vars
<1>. QED
  BY <1>1, <1>2, <1>3, <1>4 DEF Next

LEMMA RecordsKept == Spec => []RecordsInv
BY RecordsInit, RecordsNext, PTL DEF Spec

\* Records are lines: no endpoint is made of anything but the tokens of a line,
\* and what filter has taken last is on record.
THEOREM TypeCorrect == Spec => []TypeOK
<1>1. RecordsInv => TypeOK
  <2>. SUFFICES ASSUME RecordsInv PROVE TypeOK
    OBVIOUS
  <2>1. CASE last.says = "none"
    BY <2>1, EmptySeq DEF RecordsInv, TypeOK
  <2>2. CASE last.says # "none"
    <3>1. last.line \in Lines /\ Filtered[last.line].says = last.says
      BY <2>2 DEF RecordsInv
    <3>2. last.line \in Seq(Tokens) /\ last.says \in {"ok", "no", "panic"}
      BY <3>1, FilteredLines DEF Judged
    <3>. QED
      BY <3>2 DEF RecordsInv, TypeOK
  <2>. QED
    BY <2>1, <2>2
<1>. QED
  BY <1>1, RecordsKept, PTL

\* Whenever LoadSingleProxy has been given a documented line, of whatever proxy,
\* it has taken it, and what is on record is the endpoint of the proxy; of a short
\* IPv6 address without a user, what follows its colons.
THEOREM FormatsAreRead == Spec => []FormatsRead
<1>1. RecordsInv => FormatsRead
  <2>. SUFFICES ASSUME RecordsInv, NEW p \in Proxies, NEW l \in Spellings(p),
                       last.says # "none", last.line = l
                PROVE  last.says = "ok" /\ Record(p) \in proxyMap
    BY DEF FormatsRead
  <2>1. Filtered[l] = Ok(Record(p))
    BY SpellingRead, SpellingIsLine DEF Filtered
  <2>2. Filtered[l].says = "ok" /\ Filtered[l].ep = Record(p)
    BY <2>1 DEF Ok
  <2>. QED
    BY <2>2 DEF RecordsInv
<1>. QED
  BY <1>1, RecordsKept, PTL

\* What LoadSingleProxy takes can be dialled, unless the line has a mark in a
\* name, a number that is no port, or an address netip does not read.
THEOREM TakenAreDialable == Spec => []TakenDialable
<1>1. RecordsInv => TakenDialable
  <2>. SUFFICES ASSUME RecordsInv, last.says = "ok" PROVE TakenDialable
    BY DEF TakenDialable
  <2>. DEFINE l == last.line
  <2>1. l \in Lines /\ Filtered[l].says = "ok"
    BY DEF RecordsInv
  <2>2. Judged(l, Filtered[l]) /\ (Plain(l) => Plain(Filtered[l].ep))
    BY <2>1, FilteredLines
  <2>. HIDE DEF l
  <2>3. Taken(l, Filtered[l].ep)
    BY <2>1, <2>2 DEF Judged
  <2>. QED
    BY <2>2, <2>3, Zenon DEF TakenDialable, Taken, l
<1>. QED
  BY <1>1, RecordsKept, PTL
=============================================================================

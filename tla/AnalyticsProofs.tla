-------------------------- MODULE AnalyticsProofs --------------------------
(***************************************************************************)
(* Of the reads: for any zones whose clocks change by less than half a     *)
(* day, any clicks, windows and presets, days are stepped through rightly  *)
(* (StartsItsDay, StepsByDays), the tile and the chart agree but for what  *)
(* is inserted between their queries (SeriesAddsUp), the counts are those  *)
(* of the window to within an hour (AccurateToAnHour), and there is a bar  *)
(* for each day that has begun before now (BarPerDayInWholeHours).         *)
(*                                                                         *)
(* Of the panel: for any viewers, questions, cache lifetime, interval and  *)
(* flight time, it shows an answer to its own question (OwnAnswer), and    *)
(* one that is not too old (BoundedAge). The age is bounded because there  *)
(* is no gap in what the panel asked: every Poll ticks since it was last   *)
(* shown or given its question, a request set off, and it is still under   *)
(* way, or something that was sent at most Flight before it was has been   *)
(* shown since (Polled).                                                   *)
(*                                                                         *)
(* What the code computes step by step is a function defined by recursion, *)
(* of which a proof knows that it satisfies its equation once something    *)
(* does: each is shown equal to the closed form that satisfies it, at the  *)
(* least argument where it would not be (LeastNatural).                    *)
(***************************************************************************)
EXTENDS AnalyticsReads, Dashboard, FiniteSetTheorems, WellFoundedInduction, TLAPS

-----------------------------------------------------------------------------
(***************************************************************************)
(* Counting.                                                               *)
(***************************************************************************)

\* A set of natural numbers has a least one: what stands for induction.
LEMMA LeastNatural ==
  ASSUME NEW T, T \subseteq Nat, T # {}
  PROVE  \E x \in T : \A y \in T : x <= y
<1> DEFINE R == OpToRel(<, Nat)
<1>1. PICK x \in T : \A y \in T : ~ (<<y, x>> \in R)
  <2>1. IsWellFoundedOn(R, Nat)
    BY NatLessThanWellFounded
  <2> HIDE DEF R
  <2>2. QED  BY <2>1, WFMin
<1>2. ASSUME NEW y \in T, y < x PROVE FALSE
  <2>1. <<y, x>> \in Nat \X Nat /\ <<y, x>>[1] = y /\ <<y, x>>[2] = x
    OBVIOUS
  <2>2. <<y, x>> \in R
    BY <1>2, <2>1, Zenon DEF OpToRel
  <2>3. QED  BY <1>1, <2>2, Zenon
<1> HIDE DEF R
<1>3. QED  BY <1>2

Total(f) == FoldFunction(+, 0, f)

\* What is counted part by part is counted: the fold picks the parts in its own order, and
\* the least set of parts on which it would go wrong is not.
LEMMA CountedInParts ==
  ASSUME NEW R, IsFiniteSet(R), NEW D, IsFiniteSet(D), NEW B \in [R -> D],
         NEW f, f = [x \in D |-> Cardinality({c \in R : B[c] = x})]
  PROVE  Total(f) = Cardinality(R)
<1> DEFINE Of(s) == {c \in R : B[c] \in s}
           First(s) == CHOOSE x \in s : TRUE
           Step(g, s) == IF s = {} THEN 0 ELSE f[First(s)] + g[s \ {First(s)}]
           Count == [s \in SUBSET D |-> Cardinality(Of(s))]
           Iter == CHOOSE g : g = [s \in SUBSET D |-> Step(g, s)]
<1>1. ASSUME NEW s \in SUBSET D
      PROVE  IsFiniteSet(Of(s)) /\ Cardinality(Of(s)) \in Nat /\ IsFiniteSet(s)
             /\ Cardinality(s) \in Nat
  <2>1. Of(s) \in SUBSET R
    OBVIOUS
  <2>2. QED  BY <2>1, FS_Subset, FS_CardinalityType
<1>2. ASSUME NEW s \in SUBSET D, s # {}
      PROVE  /\ First(s) \in s /\ s \ {First(s)} \in SUBSET D
             /\ f[First(s)] \in Nat
             /\ Cardinality(Of(s)) = f[First(s)] + Cardinality(Of(s \ {First(s)}))
             /\ Cardinality(s \ {First(s)}) = Cardinality(s) - 1
  <2> DEFINE x == First(s)
             r == s \ {x}
  <2>1. x \in s
    BY <1>2
  <2> HIDE DEF First, x
  <2>2. r \in SUBSET D /\ {x} \in SUBSET D
    BY <2>1
  <2>3. f[x] = Cardinality(Of({x}))
    BY <2>1, <2>2
  <2>4. Of(s) = Of(r) \cup Of({x}) /\ Of(r) \cap Of({x}) = {}
    BY <2>1
  <2>5. /\ IsFiniteSet(Of(r)) /\ IsFiniteSet(Of({x}))
        /\ Cardinality(Of(r)) \in Nat /\ Cardinality(Of({x})) \in Nat
    BY <1>1, <2>2
  <2> HIDE DEF Of
  <2>6. Cardinality(Of(s)) = Cardinality(Of(r)) + Cardinality(Of({x}))
    <3>1. Cardinality(Of(r) \cup Of({x}))
            = Cardinality(Of(r)) + Cardinality(Of({x})) - Cardinality(Of(r) \cap Of({x}))
      BY <2>5, FS_Union
    <3>2. Cardinality(Of(r) \cap Of({x})) = 0
      BY <2>4, FS_EmptySet
    <3>3. Cardinality(Of(s)) = Cardinality(Of(r) \cup Of({x}))
      BY <2>4, Zenon
    <3>4. QED  BY <2>5, <3>1, <3>2, <3>3
  <2>7. Cardinality(r) = Cardinality(s) - 1
    BY <1>1, <2>1, FS_RemoveElement
  <2>8. QED  BY <2>1, <2>2, <2>3, <2>5, <2>6, <2>7 DEF x
<1>3. Cardinality(Of({})) = 0
  BY FS_EmptySet
<1>4. Count = [s \in SUBSET D |-> Step(Count, s)]
  <2>1. ASSUME NEW s \in SUBSET D PROVE Cardinality(Of(s)) = Step(Count, s)
    <3>1. CASE s = {}
      BY <1>3, <3>1
    <3>2. CASE s # {}
      <4> HIDE DEF First, In
      <4>1. Count[s \ {First(s)}] = Cardinality(Of(s \ {First(s)}))
        BY <1>2, <3>2
      <4> HIDE DEF Count
      <4>2. QED  BY <1>2, <3>2, <4>1
    <3>3. QED  BY <3>1, <3>2
  <2> HIDE DEF Step, Of
  <2>2. QED  BY <2>1
<1>5. Iter = [s \in SUBSET D |-> Step(Iter, s)]
  <2> HIDE DEF Step, Count
  <2>1. \E g : g = [s \in SUBSET D |-> Step(g, s)]
    BY <1>4
  <2>2. QED  BY <2>1
<1> HIDE DEF Iter, Count
<1>6. \A s \in SUBSET D : Iter[s] = Cardinality(Of(s))
  <2> DEFINE Wrong == {s \in SUBSET D : Iter[s] # Cardinality(Of(s))}
             Sizes == {Cardinality(s) : s \in Wrong}
  <2>1. SUFFICES ASSUME Wrong # {} PROVE FALSE
    OBVIOUS
  <2>2. Sizes \subseteq Nat /\ Sizes # {}
    BY <1>1, <2>1
  <2>3. PICK n \in Sizes : \A m \in Sizes : n <= m
    BY <2>2, LeastNatural
  <2>4. PICK s \in Wrong : n = Cardinality(s)
    BY <2>3
  <2> HIDE DEF Sizes
  <2>5. s \in SUBSET D /\ Iter[s] = Step(Iter, s)
    BY <1>5
  <2>6. s # {}
    BY <1>3, <2>4, <2>5
  <2> DEFINE r == s \ {First(s)}
  <2>7. r \in SUBSET D /\ Cardinality(r) = Cardinality(s) - 1 /\ Cardinality(s) \in Nat
    BY <1>1, <1>2, <2>5, <2>6
  <2>8. r \notin Wrong
    <3>1. ASSUME r \in Wrong PROVE FALSE
      <4>1. Cardinality(r) \in Sizes
        BY <3>1 DEF Sizes
      <4>2. QED  BY <2>3, <2>4, <2>7, <4>1
    <3>2. QED  BY <3>1
  <2>9. Iter[r] = Cardinality(Of(r))
    BY <2>7, <2>8
  <2>10. Iter[s] = f[First(s)] + Iter[r]
    BY <2>5, <2>6
  <2> HIDE DEF Of, First
  <2>11. Iter[s] = Cardinality(Of(s))
    BY <1>2, <2>5, <2>6, <2>9, <2>10
  <2>12. QED  BY <2>4, <2>11
<1>7. Total(f) = Iter[D]
  <2>1. DOMAIN f = D
    OBVIOUS
  <2>2. QED  BY <2>1 DEF Total, FoldFunction, FoldFunctionOnSet, MapThenFoldSet, Iter, Step, First
<1>8. Of(D) = R
  OBVIOUS
<1>9. QED  BY <1>6, <1>7, <1>8

\* The image of a finite set.
LEMMA FiniteImage ==
  ASSUME NEW S, IsFiniteSet(S), NEW F
  PROVE  IsFiniteSet({F[x] : x \in S})
<1> DEFINE T == {F[x] : x \in S}
           g == [x \in S |-> F[x]]
<1>1. g \in Surjection(S, T)
  BY DEF Surjection
<1> HIDE DEF g, T
<1>2. IsFiniteSet(T)
  BY <1>1, FS_Surjection
<1>3. QED  BY <1>2 DEF T

-----------------------------------------------------------------------------
(***************************************************************************)
(* Division.                                                               *)
(***************************************************************************)

\* Multiples grow, by d at a time.
LEMMA Products ==
  ASSUME NEW d \in Nat, NEW a \in Int, NEW b \in Int, a <= b
  PROVE  d * a \in Int /\ d * b \in Int /\ d * a <= d * b /\ d * (a + 1) = d * a + d
<1>1. b - a \in Nat
  OBVIOUS
<1> DEFINE e == b - a
<1>2. d * e >= 0 /\ d * e \in Int /\ d * a \in Int
  BY <1>1
<1>3. b = a + e
  OBVIOUS
<1>4. d * b = d * a + d * e
  BY <1>1, <1>3
<1>5. d * (a + 1) = d * a + d
  OBVIOUS
<1> HIDE DEF e
<1>6. QED  BY <1>2, <1>4, <1>5

LEMMA Negated ==
  ASSUME NEW d \in Nat, NEW q \in Int
  PROVE  d * (-q) = -(d * q) /\ d * (-q - 1) = -(d * q) - d
OBVIOUS

\* Quotient and remainder.
LEMMA Divides ==
  ASSUME NEW d \in Nat \ {0}, NEW v \in Int
  PROVE  /\ v \div d \in Int /\ v % d \in 0..d - 1
         /\ d * (v \div d) \in Int /\ v = d * (v \div d) + (v % d)
OBVIOUS

\* There is one quotient.
LEMMA QuotientIs ==
  ASSUME NEW d \in Nat \ {0}, NEW v \in Int, NEW q \in Int, d * q <= v, v < d * q + d
  PROVE  v \div d = q
<1> DEFINE p == v \div d
<1>1. p \in Int /\ d * p \in Int /\ d * p <= v /\ v < d * p + d
  BY Divides
<1> HIDE DEF p
<1>2. CASE p < q
  <2>1. d * (p + 1) <= d * q /\ d * (p + 1) = d * p + d /\ d * q \in Int
    BY <1>1, <1>2, Products
  <2>2. QED  BY <1>1, <2>1
<1>3. CASE q < p
  <2>1. d * (q + 1) <= d * p /\ d * (q + 1) = d * q + d /\ d * q \in Int
    BY <1>1, <1>3, Products
  <2>2. QED  BY <1>1, <2>1
<1>4. QED  BY <1>1, <1>2, <1>3 DEF p

\* And one remainder.
LEMMA RemainderIs ==
  ASSUME NEW d \in Nat \ {0}, NEW v \in Int, NEW q \in Int, NEW r \in 0..d - 1, v = d * q + r
  PROVE  v % d = r /\ v \div d = q
<1> DEFINE m == d * q
<1>1. m \in Int
  OBVIOUS
<1>2. m <= v /\ v < m + d
  BY <1>1
<1>3. v \div d = q
  BY <1>2, QuotientIs
<1> DEFINE p == v \div d
           e == v % d
<1>4. v = m + e /\ e \in Int
  <2>1. v = d * p + e /\ e \in Int
    BY Divides
  <2>2. p = q
    BY <1>3
  <2> HIDE DEF p, e
  <2>3. QED  BY <2>1, <2>2
<1>5. v = m + r
  OBVIOUS
<1> HIDE DEF m
<1>6. QED  BY <1>1, <1>3, <1>4, <1>5

\* A quotient grows with its dividend.
LEMMA QuotientGrows ==
  ASSUME NEW d \in Nat \ {0}, NEW v \in Int, NEW w \in Int, v <= w
  PROVE  v \div d <= w \div d
<1> DEFINE p == v \div d
           q == w \div d
<1>1. p \in Int /\ d * p \in Int /\ d * p <= v /\ v < d * p + d
  BY Divides
<1>2. q \in Int /\ d * q \in Int /\ d * q <= w /\ w < d * q + d
  BY Divides
<1> HIDE DEF p, q
<1>3. CASE q < p
  <2>1. d * (q + 1) <= d * p /\ d * (q + 1) = d * q + d
    BY <1>1, <1>2, <1>3, Products
  <2>2. QED  BY <1>1, <1>2, <2>1
<1>4. QED  BY <1>1, <1>2, <1>3 DEF p, q

\* What has no remainder is a multiple.
LEMMA Multiple ==
  ASSUME NEW d \in Nat \ {0}, NEW v \in Int
  PROVE  v % d = 0 <=> \E q \in Int : v = d * q
<1>1. ASSUME v % d = 0 PROVE \E q \in Int : v = d * q
  <2>1. v \div d \in Int /\ v = d * (v \div d)
    BY <1>1, Divides
  <2>2. QED  BY <2>1
<1>2. ASSUME NEW q \in Int, v = d * q PROVE v % d = 0
  <2>1. d * q \in Int
    OBVIOUS
  <2>2. v \div d = q
    BY <1>2, <2>1, QuotientIs
  <2>3. QED  BY <1>2, <2>1, <2>2, Divides
<1>3. QED  BY <1>1, <1>2

-----------------------------------------------------------------------------
\* The remainder that takes the sign of its dividend, and is made to take none, is the
\* usual one.
LEMMA ModuloIs ==
  ASSUME NEW v \in Int, NEW step \in Nat \ {0}
  PROVE  modulo(v, step) = v % step
<1>1. CASE v >= 0
  <2>1. Remainder(v, step) = v % step
    BY <1>1 DEF Remainder
  <2> DEFINE r == v % step
  <2>2. r \in 0..step - 1
    BY Divides
  <2> HIDE DEF r
  <2>3. (r + step) % step = r
    <3>1. step * 1 = step
      OBVIOUS
    <3>2. (r + step) \div step = 1
      BY <2>2, <3>1, QuotientIs
    <3>3. QED  BY <2>2, <3>1, <3>2, Divides
  <2>4. QED  BY <2>1, <2>3 DEF modulo, r
<1>2. CASE v < 0
  <2> DEFINE r == (-v) % step
             q == (-v) \div step
  <2>1. r \in 0..step - 1 /\ q \in Int /\ step * q \in Int /\ -v = step * q + r
    BY Divides
  <2>2. Remainder(v, step) = -r
    BY <1>2 DEF Remainder
  <2> HIDE DEF r, q
  <2>3. step - r \in Int /\ modulo(v, step) = (step - r) % step
    <3>1. -r + step = step - r
      BY <2>1
    <3>2. QED  BY <2>1, <2>2, <3>1 DEF modulo
  <2>4. CASE r = 0
    <3>1. v = step * (-q) + 0 /\ -q \in Int /\ 0 \in 0..step - 1
      BY <2>1, <2>4, Negated
    <3>2. v % step = 0
      BY <3>1, RemainderIs
    <3>3. step = step * 1 + 0
      OBVIOUS
    <3>4. step % step = 0
      BY <3>1, <3>3, RemainderIs
    <3>5. QED  BY <2>1, <2>3, <2>4, <3>2, <3>4
  <2>5. CASE r # 0
    <3>1. /\ v = step * (-q - 1) + (step - r) /\ -q - 1 \in Int
          /\ step - r \in 0..step - 1
      BY <2>1, <2>5, Negated
    <3>2. v % step = step - r
      BY <3>1, RemainderIs
    <3>3. step - r = step * 0 + (step - r)
      BY <2>1
    <3>4. (step - r) % step = step - r
      BY <2>3, <3>1, <3>3, RemainderIs
    <3>5. QED  BY <2>3, <3>2, <3>4
  <2>6. QED  BY <2>4, <2>5
<1>3. QED  BY <1>1, <1>2

\* floorTo is the multiple at or below.
LEMMA FloorIs ==
  ASSUME NEW v \in Int, NEW step \in Nat \ {0}
  PROVE  /\ floorTo(v, step) = step * (v \div step)
         /\ floorTo(v, step) \in Int
         /\ floorTo(v, step) <= v /\ v < floorTo(v, step) + step
<1> DEFINE q == v \div step
           r == v % step
<1>1. q \in Int /\ r \in 0..step - 1 /\ step * q \in Int /\ v = step * q + r
  BY Divides
<1>2. floorTo(v, step) = v - r
  BY ModuloIs DEF floorTo
<1> HIDE DEF q, r
<1>3. floorTo(v, step) = step * q
  BY <1>1, <1>2
<1>4. QED  BY <1>1, <1>3 DEF q

\* It grows with what is floored.
LEMMA FloorGrows ==
  ASSUME NEW v \in Int, NEW w \in Int, v <= w, NEW step \in Nat \ {0}
  PROVE  floorTo(v, step) <= floorTo(w, step)
<1> DEFINE p == v \div step
           q == w \div step
<1>1. p <= q /\ p \in Int /\ q \in Int
  BY QuotientGrows, Divides
<1>2. floorTo(v, step) = step * p /\ floorTo(w, step) = step * q
  BY FloorIs
<1> HIDE DEF p, q
<1>3. QED  BY <1>1, <1>2, Products

\* Nothing is between a multiple and what is floored to it.
LEMMA FloorIsAbove ==
  ASSUME NEW v \in Int, NEW w \in Int, NEW step \in Nat \ {0}, w % step = 0, w <= v
  PROVE  w <= floorTo(v, step)
<1>1. PICK q \in Int : w = step * q
  BY Multiple
<1>2. w \div step = q
  BY <1>1, QuotientIs
<1> DEFINE p == v \div step
<1>3. q <= p /\ p \in Int /\ floorTo(v, step) = step * p
  BY <1>2, QuotientGrows, Divides, FloorIs
<1> HIDE DEF p
<1>4. QED  BY <1>1, <1>3, Products

-----------------------------------------------------------------------------
(***************************************************************************)
(* Clocks.                                                                  *)
(***************************************************************************)

\* Intl's: the clocks change by less than half a day.
IsZone(z) ==
  /\ z \in [before : Int, after : Int, change : Int]
  /\ 2 * (z.after - z.before) < Day /\ 2 * (z.before - z.after) < Day

\* What a clock on the wall shows.
LEMMA WallIs ==
  ASSUME NEW z, IsZone(z), NEW t \in Int
  PROVE  /\ z.before \in Int /\ z.after \in Int /\ z.change \in Int
         /\ Offset(t, z) \in Int /\ Wall(t, z) \in Int /\ Wall(t, z) = t + Offset(t, z)
         /\ t < z.change => Offset(t, z) = z.before
         /\ t >= z.change => Offset(t, z) = z.after
BY DEF IsZone, Offset, Wall

\* The day on the wall, and its midnight there.
WallDay(t, z) == floorTo(Wall(t, z), Day)

\* The midnight at or before what the wall shows.
LEMMA WallDayIs ==
  ASSUME NEW z, IsZone(z), NEW t \in Int
  PROVE  /\ CivilDay(t, z) \in Int
         /\ WallDay(t, z) = Day * CivilDay(t, z)
         /\ WallDay(t, z) \in Int
         /\ WallDay(t, z) <= Wall(t, z) /\ Wall(t, z) < WallDay(t, z) + Day
<1>1. Wall(t, z) \in Int /\ Day \in Nat \ {0}
  BY WallIs, UnitsDivide
<1>2. QED  BY <1>1, FloorIs, Divides DEF WallDay, CivilDay

\* A day is told by what the wall shows.
LEMMA CivilDayIs ==
  ASSUME NEW z, IsZone(z), NEW t \in Int, NEW k \in Int,
         Day * k <= Wall(t, z), Wall(t, z) < Day * k + Day
  PROVE  CivilDay(t, z) = k
<1>1. Wall(t, z) \in Int /\ Day \in Nat \ {0}
  BY WallIs, UnitsDivide
<1>2. QED  BY <1>1, QuotientIs DEF CivilDay

\* The second look: the start of a day shows midnight, or the clocks had skipped it.
LEMMA StartShows ==
  ASSUME NEW z, IsZone(z), NEW t \in Int
  PROVE  LET s == zonedStartOfDay(t, z)
             d == WallDay(t, z)
         IN /\ s \in Int
            /\ \/ Wall(s, z) = d /\ s <= t
               \/ /\ z.before < z.after /\ z.change <= s /\ s = d - z.before
                  /\ d - z.after < z.change /\ z.change <= t
<1> DEFINE s == zonedStartOfDay(t, z)
           d == WallDay(t, z)
           o == Offset(t, z)
<1>1. /\ z.before \in Int /\ z.after \in Int /\ z.change \in Int
      /\ o \in Int /\ d \in Int /\ d <= t + o
  BY WallIs, WallDayIs
<1>2. d = floorTo(t + o, Day)
  BY WallIs DEF WallDay
<1> HIDE DEF d, o
<1>3. s = IF Offset(d - o, z) = o THEN d - o ELSE d - Offset(d - o, z)
  BY <1>2 DEF zonedStartOfDay, o
<1> HIDE DEF s
<1>4. CASE Offset(d - o, z) = o
  <2>1. s = d - o /\ s \in Int /\ s <= t
    BY <1>1, <1>3, <1>4
  <2>2. Wall(s, z) = d
    BY <1>1, <1>4, <2>1, WallIs
  <2>3. QED  BY <2>1, <2>2 DEF s, d
<1>5. CASE Offset(d - o, z) # o
  <2>1. z.change <= t /\ o = z.after /\ d - o < z.change /\ Offset(d - o, z) = z.before
    <3>1. d - o \in Int /\ d - o <= t
      BY <1>1
    <3>2. /\ t < z.change => o = z.before
          /\ t >= z.change => o = z.after
          /\ d - o < z.change => Offset(d - o, z) = z.before
          /\ d - o >= z.change => Offset(d - o, z) = z.after
      BY <3>1, WallIs DEF o
    <3>3. QED  BY <1>1, <1>5, <3>1, <3>2
  <2>2. s = d - z.before /\ s \in Int
    BY <1>1, <1>3, <1>5, <2>1
  <2>3. CASE s < z.change
    <3>1. Wall(s, z) = d
      BY <1>1, <2>2, <2>3, WallIs
    <3>2. s <= t
      BY <1>1, <2>1, <2>2, <2>3
    <3>3. QED  BY <2>2, <3>1, <3>2 DEF s, d
  <2>4. CASE s >= z.change
    <3>1. z.before < z.after /\ z.change <= s
      BY <1>1, <2>1, <2>2, <2>4
    <3>2. QED  BY <2>1, <2>2, <3>1 DEF s, d
  <2>5. QED  BY <1>1, <2>2, <2>3, <2>4
<1>6. QED  BY <1>4, <1>5

\* Wherever a day begins, it is that day there.
LEMMA StartIsOfTheDay ==
  ASSUME NEW z, IsZone(z), NEW t \in Int
  PROVE  /\ zonedStartOfDay(t, z) \in Int
         /\ CivilDay(zonedStartOfDay(t, z), z) = CivilDay(t, z)
<1> DEFINE s == zonedStartOfDay(t, z)
           k == CivilDay(t, z)
           d == Day * k
<1>1. /\ s \in Int /\ k \in Int /\ d \in Int /\ WallDay(t, z) = d
      /\ Wall(s, z) \in Int /\ Day \in Nat \ {0}
  BY StartShows, WallDayIs, WallIs, UnitsDivide
<1>2. d <= Wall(s, z) /\ Wall(s, z) < d + Day
  <2>1. CASE Wall(s, z) = d
    BY <1>1, <2>1
  <2>2. CASE z.before < z.after /\ z.change <= s /\ s = d - z.before
    <3>1. Wall(s, z) = d - z.before + z.after
      BY <1>1, <2>2, WallIs
    <3>2. 2 * (z.after - z.before) < Day /\ z.before \in Int /\ z.after \in Int
      BY WallIs DEF IsZone
    <3> HIDE DEF s, d
    <3>3. QED  BY <1>1, <2>2, <3>1, <3>2
  <2>3. QED  BY <1>1, <2>1, <2>2, StartShows
<1> HIDE DEF s, k
<1>3. CivilDay(s, z) = k
  BY <1>1, <1>2, CivilDayIs
<1>4. QED  BY <1>1, <1>3 DEF s, k

\* Noon is in the middle of the day that is stepped to, whatever the clocks did.
LEMMA NoonIsWithinTheDay ==
  ASSUME NEW z, IsZone(z), NEW t \in Int, NEW days \in Int
  PROVE  LET noon == zonedStartOfDay(t, z) + days * Day + Day \div 2 IN
         noon \in Int /\ CivilDay(noon, z) = CivilDay(t, z) + days
<1> DEFINE s == zonedStartOfDay(t, z)
           k == CivilDay(t, z)
           h == Day \div 2
           noon == s + days * Day + h
           d == Day * k
           e == days * Day
<1>1. /\ s \in Int /\ k \in Int /\ d \in Int /\ e \in Int /\ WallDay(t, z) = d
      /\ Day \in Nat \ {0}
  BY StartShows, WallDayIs, UnitsDivide
<1>2. h \in Int /\ 2 * h <= Day /\ Day <= 2 * h + 1
  BY UnitsDivide
<1>3. Day * (k + days) = d + e
  BY <1>1
<1>4. /\ z.before \in Int /\ z.after \in Int /\ z.change \in Int
      /\ 2 * (z.after - z.before) < Day /\ 2 * (z.before - z.after) < Day
  BY WallIs DEF IsZone
<1>5. noon \in Int /\ noon = s + e + h
  BY <1>1, <1>2
<1> HIDE DEF h, noon, e
<1>6. /\ Wall(noon, z) = noon + Offset(noon, z) /\ Wall(noon, z) \in Int
      /\ Offset(noon, z) \in {z.before, z.after}
      /\ noon < z.change => Offset(noon, z) = z.before
  BY <1>5, WallIs
<1>7. d + e <= Wall(noon, z) /\ Wall(noon, z) < d + e + Day
  <2>1. CASE Wall(s, z) = d
    <3>1. Wall(s, z) = s + Offset(s, z) /\ Offset(s, z) \in {z.before, z.after}
      BY <1>1, WallIs
    <3> HIDE DEF s, d
    <3>2. QED  BY <1>1, <1>2, <1>4, <1>5, <1>6, <2>1, <3>1
  <2>2. CASE z.before < z.after /\ z.change <= s /\ s = d - z.before
    <3> HIDE DEF s, d
    <3>1. QED  BY <1>1, <1>2, <1>4, <1>5, <1>6, <2>2
  <2>3. QED  BY <1>1, <2>1, <2>2, StartShows
<1>8. k + days \in Int
  BY <1>1
<1>9. CivilDay(noon, z) = k + days
  <2> HIDE DEF d, k
  <2>1. Day * (k + days) <= Wall(noon, z) /\ Wall(noon, z) < Day * (k + days) + Day
    BY <1>3, <1>7
  <2>2. QED  BY <1>5, <1>8, <2>1, CivilDayIs
<1>10. QED  BY <1>5, <1>9 DEF noon, h, e

\* So the step lands on that day, at its start.
LEMMA StepIs ==
  ASSUME NEW z, IsZone(z), NEW t \in Int, NEW days \in Int
  PROVE  /\ addZonedDays(t, days, z) \in Int
         /\ CivilDay(addZonedDays(t, days, z), z) = CivilDay(t, z) + days
BY NoonIsWithinTheDay, StartIsOfTheDay DEF addZonedDays

-----------------------------------------------------------------------------
(***************************************************************************)
(* Where no clock change is across a midnight.                             *)
(***************************************************************************)

\* Every multiple of Day is outside what the clocks skip or repeat.
LEMMA NoMidnightInTheChange ==
  ASSUME NEW z, IsZone(z), ~ChangesAcrossMidnight(z), NEW k \in Int
  PROVE  /\ ~(z.change + z.after <= Day * k /\ Day * k < z.change + z.before)
         /\ ~(z.change + z.before < Day * k /\ Day * k < z.change + z.after)
<1> DEFINE w == Day * k
<1>1. w \in Int /\ w % Day = 0 /\ Day \in Nat \ {0}
  BY Multiple, UnitsDivide
<1>2. z.before \in Int /\ z.after \in Int /\ z.change \in Int
  BY DEF IsZone
<1>3. /\ w \notin z.change + z.after .. z.change + z.before - 1
      /\ w \notin z.change + z.before + 1 .. z.change + z.after - 1
  BY <1>1 DEF ChangesAcrossMidnight
<1> HIDE DEF w
<1>4. /\ ~(z.change + z.after <= w /\ w < z.change + z.before)
      /\ ~(z.change + z.before < w /\ w < z.change + z.after)
  BY <1>1, <1>2, <1>3
<1>5. QED  BY <1>4 DEF w

\* The days go by in order.
LEMMA DaysGoBy ==
  ASSUME NEW z, IsZone(z), ~ChangesAcrossMidnight(z), NEW t \in Int, NEW u \in Int, t <= u
  PROVE  CivilDay(t, z) <= CivilDay(u, z)
<1> DEFINE k == CivilDay(t, z)
           l == CivilDay(u, z)
           d == Day * k
           e == Day * l
<1>1. /\ k \in Int /\ d \in Int /\ d <= Wall(t, z) /\ Wall(t, z) < d + Day
      /\ l \in Int /\ e \in Int /\ e <= Wall(u, z) /\ Wall(u, z) < e + Day
      /\ Day \in Nat \ {0}
  BY WallDayIs, UnitsDivide
<1>2. /\ z.before \in Int /\ z.after \in Int /\ z.change \in Int
      /\ Wall(t, z) \in Int /\ Wall(u, z) \in Int
  BY WallIs
<1>3. ~(z.change + z.after <= d /\ d < z.change + z.before)
  BY <1>1, NoMidnightInTheChange
<1> HIDE DEF k, l
<1>4. CASE l < k
  <2>1. Day * (l + 1) <= d /\ Day * (l + 1) = e + Day
    BY <1>1, <1>4, Products
  <2> HIDE DEF d, e
  <2>2. Wall(u, z) < d
    BY <1>1, <1>2, <2>1
  <2>3. Wall(u, z) < Wall(t, z)
    BY <1>1, <1>2, <2>2
  <2>4. t < z.change /\ z.change <= u
    BY <1>2, <2>3, WallIs
  <2>5. Wall(t, z) = t + z.before /\ Wall(u, z) = u + z.after
    BY <2>4, WallIs
  <2>6. QED  BY <1>1, <1>2, <1>3, <2>2, <2>4, <2>5
<1>5. QED  BY <1>1, <1>4 DEF k, l

\* A day has one first instant.
LEMMA OneFirstInstant ==
  ASSUME NEW z, IsZone(z), ~ChangesAcrossMidnight(z), NEW t \in Int, NEW u \in Int,
         BeginsDay(t, z), BeginsDay(u, z), CivilDay(t, z) = CivilDay(u, z)
  PROVE  t = u
<1>1. CivilDay(t, z) \in Int /\ CivilDay(t - 1, z) \in Int /\ CivilDay(u - 1, z) \in Int
  BY WallDayIs
<1>2. CASE t < u
  <2>1. CivilDay(t, z) <= CivilDay(u - 1, z)
    BY <1>2, DaysGoBy
  <2>2. QED  BY <1>1, <2>1 DEF BeginsDay
<1>3. CASE u < t
  <2>1. CivilDay(u, z) <= CivilDay(t - 1, z)
    BY <1>3, DaysGoBy
  <2>2. QED  BY <1>1, <2>1 DEF BeginsDay
<1>4. QED  BY <1>2, <1>3

\* zonedStartOfDay is the first instant of its day.
LEMMA StartIsTheFirstInstant ==
  ASSUME NEW z, IsZone(z), ~ChangesAcrossMidnight(z), NEW t \in Int
  PROVE  LET s == zonedStartOfDay(t, z) IN
         s \in t - 2 * Day .. t /\ BeginsDay(s, z) /\ CivilDay(s, z) = CivilDay(t, z)
<1> DEFINE s == zonedStartOfDay(t, z)
           k == CivilDay(t, z)
           d == Day * k
<1>1. /\ s \in Int /\ k \in Int /\ d \in Int /\ WallDay(t, z) = d
      /\ d <= Wall(t, z) /\ Wall(t, z) < d + Day /\ Day \in Nat \ {0}
  BY StartShows, WallDayIs, UnitsDivide
<1>2. /\ z.before \in Int /\ z.after \in Int /\ z.change \in Int
      /\ 2 * (z.after - z.before) < Day /\ 2 * (z.before - z.after) < Day
  BY WallIs DEF IsZone
<1>3. /\ ~(z.change + z.after <= d /\ d < z.change + z.before)
      /\ ~(z.change + z.before < d /\ d < z.change + z.after)
  BY <1>1, NoMidnightInTheChange
<1>4. /\ Wall(t, z) = t + Offset(t, z) /\ Wall(s, z) = s + Offset(s, z)
      /\ Wall(s - 1, z) = s - 1 + Offset(s - 1, z)
      /\ t < z.change => Offset(t, z) = z.before
      /\ t >= z.change => Offset(t, z) = z.after
      /\ s < z.change => Offset(s, z) = z.before
      /\ s >= z.change => Offset(s, z) = z.after
      /\ s - 1 < z.change => Offset(s - 1, z) = z.before
      /\ s - 1 >= z.change => Offset(s - 1, z) = z.after
      /\ Wall(t, z) \in Int /\ Wall(s, z) \in Int /\ Wall(s - 1, z) \in Int
  BY <1>1, WallIs
<1>5. /\ CivilDay(s, z) = k
      /\ CivilDay(s - 1, z) \in Int /\ Day * CivilDay(s - 1, z) <= Wall(s - 1, z)
  BY <1>1, StartIsOfTheDay, WallDayIs
<1>6. \/ Wall(s, z) = d /\ s <= t
      \/ /\ z.before < z.after /\ z.change <= s /\ s = d - z.before
         /\ d - z.after < z.change /\ z.change <= t
  BY <1>1, StartShows
<1> HIDE DEF s, d, k
<1>7. s <= t /\ t - s <= 2 * Day /\ Wall(s - 1, z) < d
  BY <1>1, <1>2, <1>3, <1>4, <1>6
<1>8. CivilDay(s - 1, z) < k
  <2> DEFINE j == CivilDay(s - 1, z)
  <2> HIDE DEF j
  <2>1. CASE k <= j
    <3>1. d <= Day * j /\ Day * j \in Int
      BY <1>1, <1>5, <2>1, Products DEF d, j
    <3>2. Day * j <= Wall(s - 1, z)
      BY <1>5 DEF j
    <3>3. QED  BY <1>1, <1>4, <1>7, <3>1, <3>2
  <2>2. QED  BY <1>1, <1>5, <2>1 DEF j
<1>9. QED  BY <1>1, <1>5, <1>7, <1>8 DEF BeginsDay, s, k

\* The reference is the first instant, which there is one of.
LEMMA MidnightIs ==
  ASSUME NEW z, IsZone(z), ~ChangesAcrossMidnight(z), NEW t \in Int
  PROVE  Midnight(t, z) = zonedStartOfDay(t, z)
<1> DEFINE s == zonedStartOfDay(t, z)
           P(u) == BeginsDay(u, z) /\ CivilDay(u, z) = CivilDay(t, z)
<1>1. s \in t - 2 * Day .. t /\ P(s)
  BY StartIsTheFirstInstant
<1>2. ASSUME NEW u \in t - 2 * Day .. t, P(u) PROVE u = s
  BY <1>1, <1>2, UnitsDivide, OneFirstInstant
<1>3. Midnight(t, z) = CHOOSE u \in t - 2 * Day .. t : P(u)
  BY DEF Midnight
<1> HIDE DEF P, s
<1>4. QED  BY <1>1, <1>2, <1>3 DEF s

-----------------------------------------------------------------------------
(***************************************************************************)
(* The state.                                                              *)
(***************************************************************************)
WindowType == [from : Int, to : Int]
ClickType == [id : Nat, at : Int, value : Values]

ReadsTypeOK ==
  /\ zone \in Clocks /\ instant \in Instants
  /\ rows \in [Tables -> SUBSET ClickType] /\ \A table \in Tables : IsFiniteSet(rows[table])
  /\ seen \in [totals : SUBSET ClickType, series : SUBSET ClickType,
               breakdowns : SUBSET ClickType]
  /\ IsFiniteSet(seen.totals) /\ IsFiniteSet(seen.series) /\ IsFiniteSet(seen.breakdowns)

\* What was asked for.
AskedFor(bounds, days) ==
  /\ asked = [window |-> resolveAnalyticsWindow(bounds), days |-> days]
  /\ days = 0 \/ (days \in Presets /\ bounds = presetBounds(days))

IsAsked == asked # NotYet => \E bounds \in WindowType, days \in Nat : AskedFor(bounds, days)

\* What each query returned is of what its table had.
TotalsAre ==
  totals # NotYet => asked # NotYet /\ totals = Cardinality(Rows(seen.totals, asked.window))

SeriesIs ==
  series # NotYet =>
    asked # NotYet /\ series = fillSeries(Points(seen.series, asked.window), asked.window)

BreakdownsAre ==
  breakdowns # NotYet =>
    /\ asked # NotYet
    /\ \E K \in Listed(ByValue(seen.breakdowns, asked.window)) :
         breakdowns = [v \in K |-> ByValue(seen.breakdowns, asked.window)[v]]

Safe == ReadsTypeOK /\ IsAsked /\ TotalsAre /\ SeriesIs /\ BreakdownsAre

LEMMA ConstantsAre ==
  /\ Day \in Nat \ {0} /\ Hour \in Nat \ {0} /\ Day % Hour = 0
  /\ \A z \in Clocks : IsZone(z)
  /\ Instants \subseteq Int /\ Presets \subseteq 1..MaxBuckets
  /\ Custom \subseteq WindowType /\ Times \subseteq Int
  /\ QuarterSpan \in Nat /\ HourSpan \in Nat /\ RawSpan \in Nat /\ RawRetention \in Nat
  /\ MaxSpan \in Nat /\ MaxBuckets \in Nat /\ Kept \in Nat /\ Lag \in Nat
  /\ BreakdownLimit \in Nat /\ RawRetention + Lag <= Kept
BY UnitsDivide, ReadsConstants DEF IsZone, WindowType

\* What a query returns is of its table, the clock and the zone.
LEMMA SameReads ==
  ASSUME zone' = zone, instant' = instant
  PROVE  /\ \A bounds : resolveAnalyticsWindow(bounds)' = resolveAnalyticsWindow(bounds)
         /\ \A days : presetBounds(days)' = presetBounds(days)
         /\ \A S, w : Rows(S, w)' = Rows(S, w) /\ ByValue(S, w)' = ByValue(S, w)
         /\ \A S, w : fillSeries(Points(S, w), w)' = fillSeries(Points(S, w), w)
<1>1. ASSUME NEW bounds
      PROVE  resolveAnalyticsWindow(bounds)' = resolveAnalyticsWindow(bounds)
  BY DEF resolveAnalyticsWindow, sourceForSpan, Granularity
<1>2. ASSUME NEW days PROVE presetBounds(days)' = presetBounds(days)
  BY DEF presetBounds, presetFrom
<1>3. ASSUME NEW v PROVE Walked(v)' = Walked(v)
  BY SMT DEF Walked, firstBucket, nextBucket
<1>4. ASSUME NEW S, NEW v
      PROVE  Rows(S, v)' = Rows(S, v) /\ ByValue(S, v)' = ByValue(S, v)
             /\ Points(S, v)' = Points(S, v)
  BY SMT DEF Rows, BreakdownRows, Raw, Hourly, Daily, Points, ByValue, StoreBucket, RowTime
<1>5. ASSUME NEW S, NEW v PROVE fillSeries(Points(S, v), v)' = fillSeries(Points(S, v), v)
  BY <1>3, <1>4 DEF fillSeries
<1>6. QED  BY <1>1, <1>2, <1>4, <1>5

LEMMA SafeInit == ReadsInit => Safe
BY FS_EmptySet
   DEF ReadsInit, Safe, ReadsTypeOK, IsAsked, TotalsAre, SeriesIs, BreakdownsAre, Tables

\* Nothing changes for what is asked, nor for what is returned.
LEMMA SameAnswer ==
  ASSUME Safe, ReadsTypeOK', zone' = zone, instant' = instant, asked' = asked,
         totals' = totals, series' = series, breakdowns' = breakdowns, seen' = seen
  PROVE  Safe'
<1>1. IsAsked'
  BY SameReads DEF Safe, IsAsked, AskedFor
<1>2. TotalsAre' /\ SeriesIs' /\ BreakdownsAre'
  BY SameReads DEF Safe, TotalsAre, SeriesIs, BreakdownsAre
<1>3. QED  BY <1>1, <1>2 DEF Safe

\* A window is asked for once, and before any query.
LEMMA SafeAsk ==
  ASSUME Safe, NEW bounds \in WindowType, NEW days \in Nat, Ask(bounds, days),
         days = 0 \/ (days \in Presets /\ bounds = presetBounds(days))
  PROVE  Safe'
<1>1. /\ zone' = zone /\ instant' = instant /\ rows' = rows /\ totals' = totals
      /\ series' = series /\ breakdowns' = breakdowns /\ seen' = seen
      /\ asked = NotYet /\ asked' = [window |-> resolveAnalyticsWindow(bounds), days |-> days]
  BY DEF Ask, queries
<1>2. ReadsTypeOK'
  BY <1>1 DEF Safe, ReadsTypeOK
<1>3. IsAsked'
  BY <1>1, SameReads DEF IsAsked, AskedFor
<1>4. totals' = NotYet /\ series' = NotYet /\ breakdowns' = NotYet
  BY <1>1 DEF Safe, TotalsAre, SeriesIs, BreakdownsAre
<1>5. QED  BY <1>2, <1>3, <1>4 DEF Safe, TotalsAre, SeriesIs, BreakdownsAre

\* The bounds of a preset, and of an explicit window.
LEMMA BoundsAre ==
  ASSUME Safe
  PROVE  /\ \A days \in Presets : days \in Nat /\ presetBounds(days) \in WindowType
         /\ \A b \in Custom :
              [from |-> instant + b.from, to |-> instant + b.to] \in WindowType
<1>1. zone \in Clocks /\ IsZone(zone) /\ instant \in Int
  BY ConstantsAre DEF Safe, ReadsTypeOK
<1>2. ASSUME NEW days \in Presets
      PROVE  days \in Nat /\ presetBounds(days) \in WindowType
  <2>1. days \in Nat /\ -(days - 1) \in Int
    BY ConstantsAre
  <2>2. addZonedDays(instant, -(days - 1), zone) \in Int /\ instant - Day \in Int
    BY <1>1, <2>1, StepIs, ConstantsAre
  <2>3. QED  BY <1>1, <2>1, <2>2 DEF presetBounds, presetFrom, WindowType
<1>3. ASSUME NEW b \in Custom
      PROVE  [from |-> instant + b.from, to |-> instant + b.to] \in WindowType
  BY <1>1, ConstantsAre DEF WindowType
<1>4. QED  BY <1>2, <1>3

LEMMA SafeNext == Safe /\ [ReadsNext]_readsVars => Safe'
<1> SUFFICES ASSUME Safe, [ReadsNext]_readsVars PROVE Safe'
  OBVIOUS
<1>1. ReadsTypeOK /\ instant \in Int
  BY ConstantsAre DEF Safe, ReadsTypeOK
<1>2. ASSUME NEW t \in Times, NEW v \in Values, Insert(instant + t, v) PROVE Safe'
  <2> DEFINE c == [id |-> Cardinality(rows["clicks"]), at |-> instant + t, value |-> v]
  <2>1. /\ zone' = zone /\ instant' = instant /\ asked' = asked /\ totals' = totals
        /\ series' = series /\ breakdowns' = breakdowns /\ seen' = seen
        /\ rows' = [rows EXCEPT !["clicks"] = @ \cup {c}]
    BY <1>2 DEF Insert, queries
  <2>2. "clicks" \in Tables
    BY DEF Tables
  <2>3. IsFiniteSet(rows["clicks"]) /\ Cardinality(rows["clicks"]) \in Nat
    BY <1>1, <2>2, FS_CardinalityType DEF ReadsTypeOK
  <2>4. c \in ClickType
    BY <1>1, <2>3, ConstantsAre DEF ClickType
  <2> HIDE DEF c
  <2>5. IsFiniteSet(rows["clicks"] \cup {c})
    BY <2>3, FS_AddElement
  <2>6. ReadsTypeOK'
    BY <1>1, <2>1, <2>2, <2>4, <2>5 DEF ReadsTypeOK
  <2>7. QED  BY <2>1, <2>6, SameAnswer
<1>3. ASSUME NEW table \in Rollups, Roll(table) PROVE Safe'
  <2>1. /\ zone' = zone /\ instant' = instant /\ asked' = asked /\ totals' = totals
        /\ series' = series /\ breakdowns' = breakdowns /\ seen' = seen
        /\ rows' = [rows EXCEPT ![table] = rows["clicks"]]
    BY <1>3 DEF Roll, queries
  <2>2. "clicks" \in Tables /\ table \in Tables
    BY DEF Tables
  <2>3. ReadsTypeOK'
    BY <1>1, <2>1, <2>2 DEF ReadsTypeOK
  <2>4. QED  BY <2>1, <2>3, SameAnswer
<1>4. ASSUME NEW days \in Presets, AskPreset(days) PROVE Safe'
  <2>1. days \in Nat /\ presetBounds(days) \in WindowType /\ Ask(presetBounds(days), days)
    BY <1>4, BoundsAre DEF AskPreset
  <2>2. QED  BY <2>1, SafeAsk
<1>5. ASSUME NEW bounds \in Custom, AskCustom(bounds) PROVE Safe'
  <2> DEFINE b == [from |-> instant + bounds.from, to |-> instant + bounds.to]
  <2>1. b \in WindowType /\ Ask(b, 0)
    BY <1>5, BoundsAre DEF AskCustom
  <2> HIDE DEF b
  <2>2. QED  BY <2>1, SafeAsk
<1>6. ASSUME QueryTotals \/ QuerySeries \/ QueryBreakdowns PROVE Safe'
  <2> DEFINE w == asked.window
  <2>1. /\ zone' = zone /\ instant' = instant /\ rows' = rows /\ asked' = asked
        /\ asked # NotYet
    BY <1>6 DEF QueryTotals, QuerySeries, QueryBreakdowns
  <2>2. TimeTable(w) \in Tables /\ BreakdownTable(w) \in Tables
    BY DEF TimeTable, BreakdownTable, Tables, Rollups
  <2>3. IsAsked'
    BY <2>1, SameReads DEF Safe, IsAsked, AskedFor
  <2>4. CASE QueryTotals
    <3> DEFINE S == rows[TimeTable(w)]
    <3>1. /\ totals' = Cardinality(Rows(S, w)) /\ seen' = [seen EXCEPT !.totals = S]
          /\ series' = series /\ breakdowns' = breakdowns
          /\ S \subseteq ClickType /\ IsFiniteSet(S)
      BY <1>1, <2>2, <2>4 DEF QueryTotals, ReadsTypeOK
    <3> HIDE DEF S
    <3>2. seen'.totals = S /\ seen'.series = seen.series /\ seen'.breakdowns = seen.breakdowns
      BY <1>1, <3>1 DEF ReadsTypeOK
    <3>3. ReadsTypeOK'
      BY <1>1, <2>1, <3>1 DEF ReadsTypeOK
    <3>4. TotalsAre' /\ SeriesIs' /\ BreakdownsAre'
      BY <2>1, <3>1, <3>2, SameReads DEF Safe, TotalsAre, SeriesIs, BreakdownsAre
    <3>5. QED  BY <2>3, <3>3, <3>4 DEF Safe
  <2>5. CASE QuerySeries
    <3> DEFINE S == rows[TimeTable(w)]
    <3>1. /\ series' = fillSeries(Points(S, w), w) /\ seen' = [seen EXCEPT !.series = S]
          /\ totals' = totals /\ breakdowns' = breakdowns
          /\ S \subseteq ClickType /\ IsFiniteSet(S)
      BY <1>1, <2>2, <2>5 DEF QuerySeries, ReadsTypeOK
    <3> HIDE DEF S
    <3>2. seen'.totals = seen.totals /\ seen'.series = S /\ seen'.breakdowns = seen.breakdowns
      BY <1>1, <3>1 DEF ReadsTypeOK
    <3>3. ReadsTypeOK'
      BY <1>1, <2>1, <3>1 DEF ReadsTypeOK
    <3>4. TotalsAre' /\ SeriesIs' /\ BreakdownsAre'
      BY <2>1, <3>1, <3>2, SameReads DEF Safe, TotalsAre, SeriesIs, BreakdownsAre
    <3>5. QED  BY <2>3, <3>3, <3>4 DEF Safe
  <2>6. CASE QueryBreakdowns
    <3> DEFINE S == rows[BreakdownTable(w)]
    <3>1. /\ \E K \in Listed(ByValue(S, w)) : breakdowns' = [v \in K |-> ByValue(S, w)[v]]
          /\ seen' = [seen EXCEPT !.breakdowns = S] /\ totals' = totals /\ series' = series
          /\ S \subseteq ClickType /\ IsFiniteSet(S)
      BY <1>1, <2>2, <2>6 DEF QueryBreakdowns, ReadsTypeOK
    <3> HIDE DEF S
    <3>2. seen'.totals = seen.totals /\ seen'.series = seen.series /\ seen'.breakdowns = S
      BY <1>1, <3>1 DEF ReadsTypeOK
    <3>3. ReadsTypeOK'
      BY <1>1, <2>1, <3>1 DEF ReadsTypeOK
    <3>4. TotalsAre' /\ SeriesIs' /\ BreakdownsAre'
      BY <2>1, <3>1, <3>2, SameReads DEF Safe, TotalsAre, SeriesIs, BreakdownsAre
    <3>5. QED  BY <2>3, <3>3, <3>4 DEF Safe
  <2>7. QED  BY <1>6, <2>4, <2>5, <2>6
<1>7. CASE UNCHANGED readsVars
  <2>1. /\ zone' = zone /\ instant' = instant /\ rows' = rows /\ asked' = asked
        /\ totals' = totals /\ series' = series /\ breakdowns' = breakdowns /\ seen' = seen
    BY <1>7 DEF readsVars
  <2>2. ReadsTypeOK'
    BY <1>1, <2>1 DEF ReadsTypeOK
  <2>3. QED  BY <2>1, <2>2, SameAnswer
<1>8. QED  BY <1>2, <1>3, <1>4, <1>5, <1>6, <1>7 DEF ReadsNext

LEMMA AlwaysSafe == ReadsSpec => []Safe
BY SafeInit, SafeNext, PTL DEF ReadsSpec

-----------------------------------------------------------------------------
(***************************************************************************)
(* The days.                                                               *)
(***************************************************************************)

\* zonedStartOfDay finds the first instant of the day it is asked about, at every instant of
\* every zone, unless the clocks change across a midnight.
THEOREM StartOfDayIsRight == ReadsSpec => []StartsItsDay
<1>1. ASSUME Safe PROVE StartsItsDay
  <2>1. IsZone(zone) /\ instant \in Int
    BY <1>1, ConstantsAre DEF Safe, ReadsTypeOK
  <2>2. QED  BY <2>1, MidnightIs DEF StartsItsDay
<1>2. QED  BY <1>1, AlwaysSafe, PTL

\* addZonedDays goes forward and back by days of the calendar, whatever the clocks do.
THEOREM StepsAreDays == ReadsSpec => []StepsByDays
<1>1. ASSUME Safe PROVE StepsByDays
  <2>1. IsZone(zone) /\ instant \in Int
    BY <1>1, ConstantsAre DEF Safe, ReadsTypeOK
  <2>2. QED  BY <2>1, StepIs DEF StepsByDays
<1>2. QED  BY <1>1, AlwaysSafe, PTL

-----------------------------------------------------------------------------
(***************************************************************************)
(* The counts.                                                             *)
(***************************************************************************)

\* A window is what was asked for, with a step and a table.
LEMMA ConstantWindow ==
  ASSUME NEW bounds \in WindowType
  PROVE  LET w == resolveAnalyticsWindow(bounds) IN
         /\ w.from = bounds.from /\ w.to = bounds.to /\ w.from \in Int /\ w.to \in Int
         /\ w.step \in {1, Hour, Day} /\ w.source = sourceForSpan(bounds)
         /\ w.source \in {"raw", "rollup"}
BY DEF resolveAnalyticsWindow, Granularity, sourceForSpan, WindowType

\* A day begins with an hour.
LEMMA HoursDivideDays ==
  ASSUME NEW t \in Int
  PROVE  /\ floorTo(t, Day) % Hour = 0 /\ floorTo(t, Hour) % Hour = 0
         /\ floorTo(floorTo(t, Hour), Day) = floorTo(t, Day)
<1>1. Day \in Nat \ {0} /\ Hour \in Nat \ {0} /\ Day % Hour = 0
  BY ConstantsAre
<1> DEFINE d == floorTo(t, Day)
           h == floorTo(t, Hour)
<1>2. d \in Int /\ d <= t /\ h \in Int /\ h <= t /\ floorTo(h, Day) <= d
  BY <1>1, FloorIs, FloorGrows
<1>3. d % Day = 0 /\ h % Hour = 0
  <2>1. d = Day * (t \div Day) /\ t \div Day \in Int
    BY <1>1, FloorIs, Divides
  <2>2. h = Hour * (t \div Hour) /\ t \div Hour \in Int
    BY <1>1, FloorIs, Divides
  <2> HIDE DEF d, h
  <2>3. d % Day = 0
    BY <1>1, <1>2, <2>1, Multiple
  <2>4. h % Hour = 0
    BY <1>1, <1>2, <2>2, Multiple
  <2>5. QED  BY <2>3, <2>4
<1>4. d % Hour = 0
  <2>1. PICK k \in Int : Day = Hour * k
    <3>1. Day = Hour * (Day \div Hour) + (Day % Hour) /\ Day \div Hour \in Int
      BY <1>1, Divides
    <3>2. Hour * (Day \div Hour) \in Int
      BY <1>1, <3>1
    <3>3. Day = Hour * (Day \div Hour)
      BY <1>1, <3>1, <3>2
    <3>4. QED  BY <3>1, <3>3
  <2>2. PICK q \in Int : d = Day * q
    <3> HIDE DEF d
    <3>1. QED  BY <1>1, <1>2, <1>3, Multiple
  <2>3. d = Hour * (k * q) /\ k * q \in Int
    <3> HIDE DEF d
    <3>1. (Hour * k) * q = Hour * (k * q)
      BY <1>1
    <3>2. QED  BY <2>1, <2>2, <3>1
  <2> HIDE DEF d
  <2>4. QED  BY <1>1, <1>2, <2>3, Multiple
<1>5. d <= h
  <2> HIDE DEF d
  <2>1. QED  BY <1>1, <1>2, <1>4, FloorIsAbove DEF h
<1>6. d <= floorTo(h, Day)
  <2> HIDE DEF d, h
  <2>1. QED  BY <1>1, <1>2, <1>3, <1>5, FloorIsAbove
<1>7. floorTo(h, Day) \in Int
  <2> HIDE DEF d, h
  <2>1. QED  BY <1>1, <1>2, FloorIs
<1> HIDE DEF d, h
<1>8. floorTo(h, Day) = d
  BY <1>2, <1>6, <1>7
<1>9. QED  BY <1>3, <1>4, <1>8 DEF d, h

\* The windows' clicks: none is left out, and what is counted beside them is near.
LEMMA WindowsClicks ==
  ASSUME Safe, NEW S \in SUBSET ClickType, NEW bounds \in WindowType
  PROVE  LET w == resolveAnalyticsWindow(bounds) IN
         /\ {c \in S : In(c.at, w.from, w.to)} \subseteq Rows(S, w)
         /\ Rows(S, w) \subseteq
              {c \in S : In(c.at, floorTo(w.from, Hour), floorTo(w.to - 1, Hour) + Hour)}
         /\ Rows(S, w) \subseteq BreakdownRows(S, w)
<1> DEFINE w == resolveAnalyticsWindow(bounds)
           lo == floorTo(w.from, Hour)
           hi == floorTo(w.to - 1, Hour)
<1>1. /\ w.from = bounds.from /\ w.to = bounds.to /\ w.from \in Int /\ w.to \in Int
      /\ w.source = sourceForSpan(bounds) /\ w.source \in {"raw", "rollup"}
  BY ConstantWindow
<1>2. instant \in Int /\ Hour \in Nat \ {0} /\ (\A c \in S : c.at \in Int)
  BY ConstantsAre DEF Safe, ReadsTypeOK, ClickType
<1> HIDE DEF w
<1>3. lo \in Int /\ lo <= w.from /\ hi \in Int /\ w.to - 1 < hi + Hour
  <2>1. lo \in Int /\ lo <= w.from
    BY <1>1, FloorIs, ConstantsAre
  <2>2. w.to - 1 \in Int
    BY <1>1
  <2>3. hi \in Int /\ w.to - 1 < hi + Hour
    BY <2>2, FloorIs, ConstantsAre
  <2>4. QED  BY <2>1, <2>3
<1> HIDE DEF lo, hi
<1>4. ASSUME w.source = "raw"
      PROVE  /\ {c \in S : In(c.at, w.from, w.to)} \subseteq Rows(S, w)
             /\ Rows(S, w) \subseteq {c \in S : In(c.at, lo, hi + Hour)}
             /\ Rows(S, w) \subseteq BreakdownRows(S, w)
  <2>1. w.from >= instant - RawRetention
    BY <1>1, <1>4 DEF sourceForSpan
  <2>2. Rows(S, w) = Raw(S, w) /\ BreakdownRows(S, w) = Raw(S, w)
    BY <1>4 DEF Rows, BreakdownRows
  <2>3. ASSUME NEW c \in S, In(c.at, w.from, w.to) PROVE c.at >= instant + Lag - Kept
    BY <1>1, <1>2, <2>1, <2>3, ConstantsAre DEF In
  <2>4. ASSUME NEW c \in S, In(c.at, w.from, w.to) PROVE In(c.at, lo, hi + Hour)
    <3>1. c.at \in Int
      BY <1>2
    <3>2. QED  BY <1>1, <1>2, <1>3, <2>4, <3>1 DEF In
  <2>5. QED  BY <2>2, <2>3, <2>4 DEF Raw
<1>5. ASSUME w.source = "rollup"
      PROVE  /\ {c \in S : In(c.at, w.from, w.to)} \subseteq Rows(S, w)
             /\ Rows(S, w) \subseteq {c \in S : In(c.at, lo, hi + Hour)}
             /\ Rows(S, w) \subseteq BreakdownRows(S, w)
  <2>1. Rows(S, w) = Hourly(S, w) /\ BreakdownRows(S, w) = Daily(S, w)
    BY <1>5 DEF Rows, BreakdownRows
  <2>2. ASSUME NEW c \in S
        PROVE  LET h == floorTo(c.at, Hour) IN
               /\ c.at \in Int /\ h \in Int /\ h % Hour = 0 /\ h <= c.at /\ c.at < h + Hour
               /\ floorTo(h, Day) = floorTo(c.at, Day)
    <3>1. c.at \in Int
      BY <1>2
    <3>2. QED  BY <1>2, <3>1, FloorIs, HoursDivideDays
  <2>3. ASSUME NEW c \in S, In(c.at, w.from, w.to)
        PROVE  In(floorTo(c.at, Hour), floorTo(w.from, Hour), w.to)
    <3> DEFINE h == floorTo(c.at, Hour)
    <3>1. c.at \in Int /\ h \in Int /\ h <= c.at /\ w.from <= c.at /\ c.at < w.to
      BY <2>2, <2>3 DEF In
    <3>2. lo <= h
      BY <1>1, <1>2, <3>1, FloorGrows DEF lo
    <3> HIDE DEF h
    <3>3. lo <= h /\ h < w.to
      BY <1>1, <3>1, <3>2
    <3>4. QED  BY <3>3 DEF In, lo, h
  <2>4. ASSUME NEW c \in S, In(floorTo(c.at, Hour), floorTo(w.from, Hour), w.to)
        PROVE  In(c.at, lo, hi + Hour)
    <3> DEFINE h == floorTo(c.at, Hour)
    <3>1. /\ c.at \in Int /\ h \in Int /\ h % Hour = 0 /\ h <= c.at /\ c.at < h + Hour
          /\ lo <= h /\ h < w.to
      BY <2>2, <2>4 DEF In, lo
    <3> HIDE DEF h
    <3>2. h <= w.to - 1 /\ w.to - 1 \in Int
      BY <1>1, <3>1
    <3>3. h <= hi
      BY <1>2, <3>1, <3>2, FloorIsAbove DEF hi
    <3>4. lo <= c.at /\ c.at < hi + Hour
      BY <1>2, <1>3, <3>1, <3>3
    <3>5. QED  BY <3>4 DEF In
  <2>5. ASSUME NEW c \in S, In(floorTo(c.at, Hour), floorTo(w.from, Hour), w.to)
        PROVE  floorTo(w.from, Day) <= floorTo(c.at, Day)
               /\ floorTo(c.at, Day) <= floorTo(w.to, Day)
    <3> DEFINE h == floorTo(c.at, Hour)
    <3>1. h \in Int /\ floorTo(h, Day) = floorTo(c.at, Day) /\ lo <= h /\ h <= w.to
      <4>1. h \in Int /\ floorTo(h, Day) = floorTo(c.at, Day) /\ lo <= h /\ h < w.to
        BY <2>2, <2>5 DEF In, lo
      <4> HIDE DEF h
      <4>2. QED  BY <1>1, <4>1
    <3>2. floorTo(lo, Day) = floorTo(w.from, Day)
      BY <1>1, HoursDivideDays DEF lo
    <3> HIDE DEF h
    <3>3. floorTo(lo, Day) <= floorTo(h, Day) /\ floorTo(h, Day) <= floorTo(w.to, Day)
      BY <1>1, <1>3, <3>1, ConstantsAre, FloorGrows
    <3>4. QED  BY <3>1, <3>2, <3>3
  <2>6. QED  BY <2>1, <2>3, <2>4, <2>5 DEF Hourly, Daily
<1>6. QED  BY <1>1, <1>4, <1>5 DEF w, lo, hi

\* A part of what is finite counts no more.
LEMMA CountedOrder ==
  ASSUME NEW S, NEW T, IsFiniteSet(T), S \subseteq T
  PROVE  /\ IsFiniteSet(S) /\ Cardinality(S) <= Cardinality(T)
         /\ Cardinality(S) \in Nat /\ Cardinality(T) \in Nat
BY FS_Subset, FS_CardinalityType

\* What is in two finite parts counts no more than they do.
LEMMA CountedApart ==
  ASSUME NEW R, NEW S, NEW T, IsFiniteSet(S), IsFiniteSet(T), R \subseteq S \cup T
  PROVE  Cardinality(R) <= Cardinality(S) + Cardinality(T)
<1>1. IsFiniteSet(S \cup T)
  BY FS_Union
<1>2. Cardinality(S \cup T) = Cardinality(S) + Cardinality(T) - Cardinality(S \cap T)
  BY FS_Union
<1>3. S \cap T \subseteq S
  OBVIOUS
<1>4. /\ Cardinality(S \cap T) \in Nat /\ Cardinality(S) \in Nat /\ Cardinality(T) \in Nat
  BY <1>3, CountedOrder
<1>5. Cardinality(R) <= Cardinality(S \cup T) /\ Cardinality(R) \in Nat
  BY <1>1, CountedOrder
<1>6. QED  BY <1>2, <1>4, <1>5

\* The rows of a window are of what is in the table.
LEMMA RowsAreOfTheTable ==
  ASSUME NEW S, IsFiniteSet(S), NEW w
  PROVE  /\ Rows(S, w) \subseteq S /\ BreakdownRows(S, w) \subseteq S
         /\ IsFiniteSet(Rows(S, w)) /\ IsFiniteSet(BreakdownRows(S, w))
<1>1. Rows(S, w) \subseteq S /\ BreakdownRows(S, w) \subseteq S
  BY DEF Rows, BreakdownRows, Raw, Hourly, Daily
<1>2. QED  BY <1>1, CountedOrder

\* A query's rows are another's, or of clicks that came between them.
LEMMA RowsButForTheLate ==
  ASSUME NEW S, NEW T, NEW w
  PROVE  Rows(S, w) \subseteq Rows(T, w) \cup (S \ T)
BY DEF Rows, Raw, Hourly

\* A breakdown that is not cut adds up to the rows it is of.
LEMMA UncutAddsUp ==
  ASSUME NEW S, IsFiniteSet(S), NEW w, NEW K \in Listed(ByValue(S, w)),
         Cardinality(DOMAIN ByValue(S, w)) <= BreakdownLimit
  PROVE  Total([v \in K |-> ByValue(S, w)[v]]) = Cardinality(BreakdownRows(S, w))
<1> DEFINE R == BreakdownRows(S, w)
           D == {c.value : c \in R}
           B == [c \in R |-> c.value]
           f == [v \in K |-> ByValue(S, w)[v]]
<1>1. DOMAIN ByValue(S, w) = D
  BY DEF ByValue
<1>2. K = D
  BY <1>1 DEF Listed
<1>3. IsFiniteSet(R)
  BY RowsAreOfTheTable
<1>4. f = [v \in D |-> Cardinality({c \in R : B[c] = v})]
  <2>1. ASSUME NEW v \in D PROVE ByValue(S, w)[v] = Cardinality({c \in R : B[c] = v})
    <3>1. {c \in R : B[c] = v} = {c \in R : c.value = v}
      OBVIOUS
    <3>2. ByValue(S, w)[v] = Cardinality({c \in R : c.value = v})
      BY DEF ByValue
    <3>3. QED  BY <3>1, <3>2
  <2> HIDE DEF B, D
  <2>2. QED  BY <1>2, <2>1
<1> HIDE DEF R
<1>5. IsFiniteSet(D)
  <2>1. D = {B[c] : c \in R}
    OBVIOUS
  <2> HIDE DEF B, D
  <2>2. QED  BY <1>3, <2>1, FiniteImage
<1>6. B \in [R -> D]
  OBVIOUS
<1> HIDE DEF B, D, f
<1>7. Total(f) = Cardinality(R)
  BY <1>3, <1>4, <1>5, <1>6, CountedInParts
<1>8. QED  BY <1>7 DEF R, f

\* What the three queries had, and of which window: that of what was asked for.
LEMMA WhatIsAnswered ==
  ASSUME Safe, Answered
  PROVE  /\ \E bounds \in WindowType, days \in Nat : AskedFor(bounds, days)
         /\ TotalsAre /\ totals = Cardinality(Rows(seen.totals, asked.window))
         /\ series = fillSeries(Points(seen.series, asked.window), asked.window)
         /\ \E K \in Listed(ByValue(seen.breakdowns, asked.window)) :
              breakdowns = [v \in K |-> ByValue(seen.breakdowns, asked.window)[v]]
         /\ \A S \in {seen.totals, seen.series, seen.breakdowns} :
              S \in SUBSET ClickType /\ IsFiniteSet(S)
<1>1. /\ \E bounds \in WindowType, days \in Nat : AskedFor(bounds, days)
      /\ TotalsAre /\ totals = Cardinality(Rows(seen.totals, asked.window))
      /\ series = fillSeries(Points(seen.series, asked.window), asked.window)
      /\ \E K \in Listed(ByValue(seen.breakdowns, asked.window)) :
           breakdowns = [v \in K |-> ByValue(seen.breakdowns, asked.window)[v]]
  BY DEF Safe, Answered, IsAsked, TotalsAre, SeriesIs, BreakdownsAre
<1>2. \A S \in {seen.totals, seen.series, seen.breakdowns} :
        S \in SUBSET ClickType /\ IsFiniteSet(S)
  BY DEF Safe, ReadsTypeOK
<1>3. QED  BY <1>1, <1>2, Zenon

\* The totals are of the window, to within the hour it begins and ends in, and no panel of
\* the breakdown that shows every value holds less, but for what its table did not have:
\* whichever tables answer, and whatever is inserted between the queries.
THEOREM CountsAreAccurate == ReadsSpec => []AccurateToAnHour
<1>1. ASSUME Safe, Answered PROVE AccurateToAnHour
  <2> DEFINE w == asked.window
             S == seen.totals
             T == seen.breakdowns
             Wide == {c \in S : In(c.at, floorTo(w.from, Hour), floorTo(w.to - 1, Hour) + Hour)}
             Narrow == {c \in S : In(c.at, w.from, w.to)}
  <2>1. PICK bounds \in WindowType : w = resolveAnalyticsWindow(bounds)
    BY <1>1, WhatIsAnswered DEF AskedFor
  <2>2. totals = Cardinality(Rows(S, w))
    BY <1>1, WhatIsAnswered
  <2>3. S \in SUBSET ClickType /\ T \in SUBSET ClickType /\ IsFiniteSet(S) /\ IsFiniteSet(T)
    BY <1>1, WhatIsAnswered
  <2>4. PICK K \in Listed(ByValue(T, w)) : breakdowns = [v \in K |-> ByValue(T, w)[v]]
    BY <1>1, WhatIsAnswered
  <2>5. /\ Narrow \subseteq Rows(S, w) /\ Rows(S, w) \subseteq Wide
        /\ Rows(S, w) \subseteq BreakdownRows(S, w)
    BY <1>1, <2>1, <2>3, WindowsClicks
  <2>6. Wide \subseteq S /\ IsFiniteSet(Rows(S, w)) /\ IsFiniteSet(BreakdownRows(T, w))
    BY <2>3, RowsAreOfTheTable
  <2>7. BreakdownRows(S, w) \subseteq BreakdownRows(T, w) \cup (S \ T)
    BY DEF BreakdownRows, Raw, Daily
  <2>8. /\ Clicks(S, w.from, w.to) = Cardinality(Narrow)
        /\ Clicks(S, floorTo(w.from, Hour), floorTo(w.to - 1, Hour) + Hour)
             = Cardinality(Wide)
        /\ Late("totals", "breakdowns") = Cardinality(S \ T)
    BY DEF Clicks, Late
  <2>9. S \ T \subseteq S
    OBVIOUS
  <2> HIDE DEF Wide, Narrow, S, T
  <2>10. IsFiniteSet(Wide) /\ IsFiniteSet(S \ T)
    BY <2>3, <2>6, <2>9, CountedOrder
  <2>11. /\ Cardinality(Narrow) <= Cardinality(Rows(S, w))
         /\ Cardinality(Rows(S, w)) <= Cardinality(Wide)
    BY <2>5, <2>6, <2>10, CountedOrder
  <2>12. Rows(S, w) \subseteq BreakdownRows(T, w) \cup (S \ T)
    BY <2>5, <2>7
  <2>13. Cardinality(Rows(S, w)) <= Cardinality(BreakdownRows(T, w)) + Cardinality(S \ T)
    BY <2>6, <2>10, <2>12, CountedApart
  <2>14. Cardinality(DOMAIN ByValue(T, w)) <= BreakdownLimit
           => Total(breakdowns) = Cardinality(BreakdownRows(T, w))
    BY <2>3, <2>4, UncutAddsUp
  <2>15. /\ Clicks(S, w.from, w.to) <= totals
         /\ totals <= Clicks(S, floorTo(w.from, Hour), floorTo(w.to - 1, Hour) + Hour)
         /\ Cardinality(DOMAIN ByValue(T, w)) <= BreakdownLimit
              => totals <= Total(breakdowns) + Late("totals", "breakdowns")
    <3> HIDE DEF w, Total
    <3>1. QED  BY <2>2, <2>8, <2>11, <2>13, <2>14
  <2> HIDE DEF w
  <2>16. Total(breakdowns) = FoldFunction(+, 0, breakdowns)
    BY DEF Total
  <2>17. QED  BY <2>15 DEF AccurateToAnHour, w, S, T, Total
<1>2. Safe => AccurateToAnHour
  BY <1>1 DEF AccurateToAnHour
<1>3. QED  BY <1>2, AlwaysSafe, PTL

-----------------------------------------------------------------------------
(***************************************************************************)
(* The series.                                                             *)
(***************************************************************************)

\* The bucket a click is counted in.
BucketOf(c, w) == StoreBucket(RowTime(c, w), w.step)

\* The buckets of the points, and what is counted in each.
LEMMA PointsAre ==
  ASSUME NEW S, NEW w
  PROVE  /\ DOMAIN Points(S, w) = {BucketOf(c, w) : c \in Rows(S, w)}
         /\ \A b \in DOMAIN Points(S, w) :
              Points(S, w)[b] = Cardinality({c \in Rows(S, w) : BucketOf(c, w) = b})
BY DEF Points, BucketOf

\* The walk is of at most MaxBuckets.
LEMMA WalkedIsFinite ==
  ASSUME NEW w
  PROVE  IsFiniteSet(Walked(w))
<1>1. PICK F : Walked(w) = {b \in {F[i] : i \in 0..MaxBuckets - 1} : b < w.to}
  BY DEF Walked
<1>2. IsFiniteSet(0..MaxBuckets - 1)
  BY ConstantsAre, FS_Interval
<1>3. IsFiniteSet({F[i] : i \in 0..MaxBuckets - 1})
  BY <1>2, FiniteImage
<1>4. Walked(w) \subseteq {F[i] : i \in 0..MaxBuckets - 1}
  BY <1>1
<1>5. QED  BY <1>3, <1>4, CountedOrder

\* The points fillSeries returns add up to the total, though the server's buckets and the
\* store's are computed apart, but for what was inserted between the two queries.
THEOREM SeriesIsComplete == ReadsSpec => []SeriesAddsUp
<1>1. ASSUME Safe, Answered
      PROVE  Total(series) = Cardinality(Rows(seen.series, asked.window))
  <2> DEFINE w == asked.window
             S == seen.series
             R == Rows(S, w)
             P == Points(S, w)
             D == Walked(w) \cup DOMAIN P
             B == [c \in R |-> BucketOf(c, w)]
             f == series
  <2>2. f = fillSeries(P, w)
    BY <1>1, WhatIsAnswered
  <2>3. IsFiniteSet(R)
    BY <1>1, WhatIsAnswered, RowsAreOfTheTable
  <2>9. /\ DOMAIN P = {BucketOf(c, w) : c \in R}
        /\ \A b \in DOMAIN P : P[b] = Cardinality({c \in R : BucketOf(c, w) = b})
    <3> HIDE DEF w, S, B, D, f
    <3>1. DOMAIN P = {BucketOf(c, w) : c \in R}
      BY PointsAre, Zenon
    <3>2. ASSUME NEW b \in DOMAIN P PROVE P[b] = Cardinality({c \in R : BucketOf(c, w) = b})
      BY DEF Points, BucketOf
    <3>3. QED  BY <3>1, <3>2
  <2> HIDE DEF w, S, R
  <2>4. IsFiniteSet(D)
    <3>1. DOMAIN P = {B[c] : c \in R}
      BY <2>9
    <3> HIDE DEF B, P
    <3>2. IsFiniteSet(DOMAIN P)
      BY <2>3, <3>1, FiniteImage
    <3>3. QED  BY <3>2, WalkedIsFinite, FS_Union
  <2>5. B \in [R -> D]
    BY PointsAre DEF R
  <2>6. f = [b \in D |-> Cardinality({c \in R : B[c] = b})]
    <3>1. ASSUME NEW b \in DOMAIN P PROVE P[b] = Cardinality({c \in R : B[c] = b})
      <4>1. {c \in R : B[c] = b} = {c \in R : BucketOf(c, w) = b}
        OBVIOUS
      <4>2. P[b] = Cardinality({c \in R : BucketOf(c, w) = b})
        BY <2>9
      <4>3. QED  BY <4>1, <4>2, Zenon
    <3>2. ASSUME NEW b \in D, b \notin DOMAIN P PROVE Cardinality({c \in R : B[c] = b}) = 0
      <4>1. {c \in R : B[c] = b} = {}
        BY <3>2, <2>9
      <4>2. QED  BY <4>1, FS_EmptySet, Zenon
    <3>3. f = [b \in D |-> IF b \in DOMAIN P THEN P[b] ELSE 0]
      BY <2>2 DEF fillSeries
    <3> HIDE DEF B, P, f
    <3>4. QED  BY <3>1, <3>2, <3>3
  <2> HIDE DEF B, D, f
  <2>7. Total(f) = Cardinality(R)
    BY <2>3, <2>4, <2>5, <2>6, CountedInParts
  <2>8. QED  BY <2>7 DEF f, R, S, w
<1>2. ASSUME Safe, Answered PROVE SeriesAddsUp
  <2> DEFINE w == asked.window
             S == seen.series
             T == seen.totals
  <2>1. /\ totals = Cardinality(Rows(T, w)) /\ Total(series) = Cardinality(Rows(S, w))
        /\ IsFiniteSet(S) /\ IsFiniteSet(T)
    BY <1>1, <1>2, WhatIsAnswered
  <2>2. /\ Late("series", "totals") = Cardinality(S \ T)
        /\ Late("totals", "series") = Cardinality(T \ S)
    BY DEF Late
  <2> HIDE DEF w, S, T
  <2>3. S \ T \subseteq S /\ T \ S \subseteq T
    OBVIOUS
  <2>4. /\ IsFiniteSet(S \ T) /\ IsFiniteSet(T \ S)
        /\ IsFiniteSet(Rows(S, w)) /\ IsFiniteSet(Rows(T, w))
    BY <2>1, <2>3, CountedOrder, RowsAreOfTheTable
  <2>5. Cardinality(Rows(S, w)) <= Cardinality(Rows(T, w)) + Cardinality(S \ T)
    BY <2>4, RowsButForTheLate, CountedApart
  <2>6. Cardinality(Rows(T, w)) <= Cardinality(Rows(S, w)) + Cardinality(T \ S)
    BY <2>4, RowsButForTheLate, CountedApart
  <2>7. /\ Total(series) <= totals + Late("series", "totals")
        /\ totals <= Total(series) + Late("totals", "series")
    <3> HIDE DEF Total
    <3>1. QED  BY <2>1, <2>2, <2>5, <2>6
  <2>8. QED  BY <2>7 DEF SeriesAddsUp, Total
<1>3. Safe => SeriesAddsUp
  BY <1>2 DEF SeriesAddsUp
<1>4. QED  BY <1>3, AlwaysSafe, PTL

-----------------------------------------------------------------------------
(***************************************************************************)
(* A bar for each day.                                                     *)
(***************************************************************************)

\* The day that is so many days from instant's begins.
DayFrom(j) == addZonedDays(instant, j, zone)

Calm == Safe /\ ~ChangesAcrossMidnight(zone)

LEMMA CalmZone ==
  ASSUME Calm
  PROVE  IsZone(zone) /\ ~ChangesAcrossMidnight(zone) /\ instant \in Int
BY ConstantsAre DEF Calm, Safe, ReadsTypeOK

\* A day has one start, from wherever in it one looks.
LEMMA OneStart ==
  ASSUME NEW z, IsZone(z), ~ChangesAcrossMidnight(z), NEW t \in Int, NEW u \in Int,
         CivilDay(t, z) = CivilDay(u, z)
  PROVE  zonedStartOfDay(t, z) = zonedStartOfDay(u, z)
<1> DEFINE r == zonedStartOfDay(t, z)
           s == zonedStartOfDay(u, z)
<1>1. r \in Int /\ BeginsDay(r, z) /\ CivilDay(r, z) = CivilDay(t, z)
  BY StartIsTheFirstInstant, StartIsOfTheDay
<1>2. s \in Int /\ BeginsDay(s, z) /\ CivilDay(s, z) = CivilDay(u, z)
  BY StartIsTheFirstInstant, StartIsOfTheDay
<1> HIDE DEF r, s
<1>3. r = s
  BY <1>1, <1>2, OneFirstInstant
<1>4. QED  BY <1>3 DEF r, s

\* Whichever way a day is reached, it has one start.
LEMMA DayFromIs ==
  ASSUME Calm, NEW j \in Int
  PROVE  /\ DayFrom(j) \in Int /\ CivilDay(DayFrom(j), zone) = CivilDay(instant, zone) + j
         /\ \A t \in Int : CivilDay(t, zone) = CivilDay(instant, zone) + j
                             => zonedStartOfDay(t, zone) = DayFrom(j)
         /\ zonedStartOfDay(DayFrom(j), zone) = DayFrom(j)
         /\ addZonedDays(DayFrom(j), 1, zone) = DayFrom(j + 1)
<1>1. IsZone(zone) /\ ~ChangesAcrossMidnight(zone) /\ instant \in Int
  BY CalmZone
<1>2. ASSUME NEW i \in Int
      PROVE  /\ DayFrom(i) \in Int /\ CivilDay(DayFrom(i), zone) = CivilDay(instant, zone) + i
             /\ \A t \in Int : CivilDay(t, zone) = CivilDay(instant, zone) + i
                                 => zonedStartOfDay(t, zone) = DayFrom(i)
  <2> DEFINE noon == zonedStartOfDay(instant, zone) + i * Day + Day \div 2
  <2>1. noon \in Int /\ CivilDay(noon, zone) = CivilDay(instant, zone) + i
    BY <1>1, NoonIsWithinTheDay
  <2>2. DayFrom(i) = zonedStartOfDay(noon, zone)
    BY DEF DayFrom, addZonedDays
  <2> HIDE DEF noon
  <2>3. QED  BY <1>1, <2>1, <2>2, StartIsOfTheDay, OneStart
<1>3. zonedStartOfDay(DayFrom(j), zone) = DayFrom(j)
  BY <1>2
<1>4. addZonedDays(DayFrom(j), 1, zone) = DayFrom(j + 1)
  <2> DEFINE d == DayFrom(j)
             noon == zonedStartOfDay(d, zone) + 1 * Day + Day \div 2
  <2>1. d \in Int /\ CivilDay(d, zone) = CivilDay(instant, zone) + j
    BY <1>2
  <2> HIDE DEF d
  <2>2. noon \in Int /\ CivilDay(noon, zone) = CivilDay(d, zone) + 1
    BY <1>1, <2>1, NoonIsWithinTheDay
  <2>3. CivilDay(instant, zone) \in Int
    BY <1>1, WallDayIs
  <2>4. addZonedDays(d, 1, zone) = zonedStartOfDay(noon, zone)
    BY DEF addZonedDays
  <2> HIDE DEF noon
  <2>5. j + 1 \in Int /\ CivilDay(noon, zone) = CivilDay(instant, zone) + (j + 1)
    BY <2>1, <2>2, <2>3
  <2>6. QED  BY <1>2, <2>2, <2>4, <2>5 DEF d
<1>5. QED  BY <1>2, <1>3, <1>4

\* The days from now are in their order.
LEMMA DaysFromGrow ==
  ASSUME Calm, NEW i \in Int, NEW j \in Int, i < j
  PROVE  DayFrom(i) < DayFrom(j)
<1>1. /\ DayFrom(i) \in Int /\ DayFrom(j) \in Int /\ CivilDay(instant, zone) \in Int
      /\ CivilDay(DayFrom(i), zone) = CivilDay(instant, zone) + i
      /\ CivilDay(DayFrom(j), zone) = CivilDay(instant, zone) + j
  BY CalmZone, DayFromIs, WallDayIs
<1>2. DayFrom(j) <= DayFrom(i)
        => CivilDay(DayFrom(j), zone) <= CivilDay(DayFrom(i), zone)
  BY <1>1, CalmZone, DaysGoBy
<1>3. QED  BY <1>1, <1>2

\* The last day that has begun before instant: today, but at the midnight itself.
Last == IF instant = Midnight(instant, zone) THEN -1 ELSE 0

LEMMA LastDay ==
  ASSUME Calm
  PROVE  /\ Last \in {-1, 0} /\ Last + 1 \in Int
         /\ DayFrom(Last) < instant /\ instant <= DayFrom(Last + 1)
<1>1. IsZone(zone) /\ ~ChangesAcrossMidnight(zone) /\ instant \in Int
  BY CalmZone
<1>2. CivilDay(instant, zone) \in Int /\ CivilDay(instant, zone) = CivilDay(instant, zone) + 0
  BY <1>1, WallDayIs
<1>3. /\ DayFrom(0) = Midnight(instant, zone) /\ DayFrom(0) \in Int
      /\ DayFrom(-1) \in Int /\ DayFrom(1) \in Int /\ DayFrom(-1) < DayFrom(0)
  <2>1. DayFrom(0) = zonedStartOfDay(instant, zone)
    BY <1>1, <1>2, DayFromIs
  <2>2. DayFrom(0) = Midnight(instant, zone)
    BY <1>1, <2>1, MidnightIs
  <2>3. -1 \in Int /\ 0 \in Int /\ 1 \in Int /\ -1 < 0
    OBVIOUS
  <2>4. DayFrom(-1) < DayFrom(0)
    BY <2>3, DaysFromGrow
  <2>5. DayFrom(0) \in Int /\ DayFrom(-1) \in Int /\ DayFrom(1) \in Int
    BY <2>3, DayFromIs
  <2>6. QED  BY <2>2, <2>4, <2>5
<1>4. DayFrom(0) <= instant
  <2>1. zonedStartOfDay(instant, zone) <= instant
    BY <1>1, StartIsTheFirstInstant, ConstantsAre
  <2>2. QED  BY <1>1, <1>3, <2>1, MidnightIs
<1>5. instant < DayFrom(1)
  <2>1. CivilDay(DayFrom(1), zone) = CivilDay(instant, zone) + 1
    BY DayFromIs
  <2>2. DayFrom(1) <= instant => CivilDay(DayFrom(1), zone) <= CivilDay(instant, zone)
    BY <1>1, <1>3, DaysGoBy
  <2>3. QED  BY <1>1, <1>2, <1>3, <2>1, <2>2
<1>6. CASE instant = Midnight(instant, zone)
  <2>1. Last = -1 /\ Last + 1 = 0
    BY <1>6 DEF Last
  <2>2. QED  BY <1>1, <1>3, <1>6, <2>1
<1>7. CASE instant # Midnight(instant, zone)
  <2>1. Last = 0 /\ Last + 1 = 1
    BY <1>7 DEF Last
  <2>2. QED  BY <1>1, <1>3, <1>4, <1>5, <1>7, <2>1
<1>8. QED  BY <1>6, <1>7

\* The walk over the days of a preset lands on each of them.
LEMMA WalkOfDays ==
  ASSUME Calm, NEW days \in Presets, days > 1, NEW w,
         w.step = Day, w.from = DayFrom(-(days - 1)), w.to = instant
  PROVE  Walked(w) = {DayFrom(j) : j \in -(days - 1)..Last}
<1> DEFINE n == MaxBuckets
           At(i) == (IF i < days + Last THEN i ELSE days + Last) - (days - 1)
           Step(g, i) ==
             IF i = 0 THEN firstBucket(w)
             ELSE LET c == g[i - 1] IN IF c < w.to THEN nextBucket(c, w) ELSE c
           Days == [i \in 0..n |-> DayFrom(At(i))]
           Cursor == CHOOSE g : g = [i \in 0..n |-> Step(g, i)]
<1>1. /\ days \in Nat \ {0} /\ n \in Nat /\ days <= n /\ instant \in Int /\ IsZone(zone)
      /\ Last \in {-1, 0} /\ Last + 1 \in Int
  BY ConstantsAre, CalmZone, LastDay
<1>2. DayFrom(Last) < instant /\ instant <= DayFrom(Last + 1)
  BY LastDay
<1>3. ASSUME NEW i \in 0..n
      PROVE  At(i) \in Int /\ DayFrom(At(i)) \in Int
             /\ (At(i) <= Last => DayFrom(At(i)) < instant)
             /\ (At(i) > Last => At(i) = Last + 1)
  <2>1. At(i) \in Int /\ (At(i) > Last => At(i) = Last + 1)
    BY <1>1
  <2> HIDE DEF At
  <2>2. DayFrom(At(i)) \in Int /\ DayFrom(Last) \in Int
    BY <1>1, <2>1, DayFromIs
  <2>3. At(i) < Last => DayFrom(At(i)) < DayFrom(Last)
    BY <1>1, <2>1, DaysFromGrow
  <2>4. QED  BY <1>1, <1>2, <2>1, <2>2, <2>3
<1>4. ASSUME NEW i \in 0..n PROVE DayFrom(At(i)) = Step(Days, i)
  <2>1. CASE i = 0
    <3>1. At(i) = -(days - 1) /\ -(days - 1) \in Int
      BY <1>1, <2>1
    <3>2. firstBucket(w) = zonedStartOfDay(DayFrom(-(days - 1)), zone)
      BY DEF firstBucket
    <3>3. QED  BY <2>1, <3>1, <3>2, DayFromIs
  <2>2. CASE i # 0
    <3> DEFINE k == i - 1
               c == DayFrom(At(k))
    <3>1. k \in 0..n /\ Days[k] = c
      BY <1>1, <2>2
    <3>2. c \in Int /\ At(k) \in Int
      BY <1>3, <3>1
    <3>3. CASE i <= days + Last
      <4>1. At(k) <= Last /\ At(i) = At(k) + 1
        BY <1>1, <2>2, <3>3
      <4>2. c < w.to
        BY <1>3, <3>1, <4>1
      <4>3. nextBucket(c, w) = DayFrom(At(i))
        BY <3>2, <4>1, DayFromIs DEF nextBucket
      <4> HIDE DEF At, Days
      <4>4. QED  BY <2>2, <3>1, <4>2, <4>3
    <3>4. CASE days + Last < i
      <4>1. At(k) = Last + 1 /\ At(i) = Last + 1
        BY <1>1, <2>2, <3>4
      <4>2. ~(c < w.to)
        BY <1>1, <1>2, <3>2, <4>1
      <4> HIDE DEF At, Days
      <4>3. QED  BY <2>2, <3>1, <4>1, <4>2
    <3>5. QED  BY <1>1, <3>3, <3>4
  <2>3. QED  BY <2>1, <2>2
<1>5. Days = [i \in 0..n |-> Step(Days, i)]
  <2> HIDE DEF Step, At
  <2>1. QED  BY <1>4
<1>6. Cursor = [i \in 0..n |-> Step(Cursor, i)]
  <2> HIDE DEF Step, Days
  <2>1. \E g : g = [i \in 0..n |-> Step(g, i)]
    BY <1>5
  <2>2. QED  BY <2>1
<1>7. Walked(w) = {b \in {Cursor[i] : i \in 0..n - 1} : b < w.to}
  BY DEF Walked
<1> HIDE DEF Cursor, Days, n
<1>8. \A i \in 0..n : Cursor[i] = Days[i]
  <2> DEFINE Wrong == {i \in 0..n : Cursor[i] # Days[i]}
  <2>1. SUFFICES ASSUME Wrong # {} PROVE FALSE
    OBVIOUS
  <2>2. Wrong \subseteq Nat
    BY <1>1
  <2>3. PICK i \in Wrong : \A j \in Wrong : i <= j
    BY <2>1, <2>2, LeastNatural
  <2>4. i \in 0..n /\ Cursor[i] # Days[i]
    OBVIOUS
  <2>5. i # 0
    BY <1>5, <1>6, <2>4
  <2>6. i - 1 \in 0..n /\ i - 1 \notin Wrong
    BY <1>1, <2>3, <2>4, <2>5
  <2>7. Cursor[i - 1] = Days[i - 1]
    BY <2>6
  <2>8. Step(Cursor, i) = Step(Days, i)
    BY <2>5, <2>7
  <2> HIDE DEF Step
  <2>9. QED  BY <1>5, <1>6, <2>4, <2>8
<1>9. \A i \in 0..n : Cursor[i] = DayFrom(At(i))
  BY <1>8 DEF Days
<1>10. ASSUME NEW j \in -(days - 1)..Last PROVE DayFrom(j) \in Walked(w)
  <2> DEFINE i == j + (days - 1)
  <2>1. i \in 0..n - 1 /\ At(i) = j /\ i \in 0..n /\ j <= Last
    BY <1>1
  <2>2. DayFrom(j) < instant
    BY <1>3, <2>1
  <2> HIDE DEF At, i
  <2>3. Cursor[i] = DayFrom(j)
    BY <1>9, <2>1
  <2>4. QED  BY <1>7, <2>1, <2>2, <2>3
<1>11. ASSUME NEW b \in Walked(w) PROVE b \in {DayFrom(j) : j \in -(days - 1)..Last}
  <2>1. PICK i \in 0..n - 1 : b = Cursor[i] /\ b < instant
    BY <1>7
  <2>2. i \in 0..n
    BY <1>1
  <2>3. b = DayFrom(At(i))
    BY <1>9, <2>1, <2>2
  <2>4. i < days + Last
    <3>1. CASE days + Last <= i
      <4>1. At(i) = Last + 1
        BY <1>1, <2>2, <3>1
      <4>2. DayFrom(Last + 1) \in Int
        BY <1>1, DayFromIs
      <4> HIDE DEF At
      <4>3. QED  BY <1>1, <1>2, <2>1, <2>3, <4>1, <4>2
    <3>2. QED  BY <1>1, <2>2, <3>1
  <2>5. At(i) \in -(days - 1)..Last
    BY <1>1, <2>2, <2>4
  <2>6. QED  BY <2>3, <2>5
<1>12. QED  BY <1>10, <1>11

\* What is before the start of a day is of an earlier one.
LEMMA BeforeTheDay ==
  ASSUME Calm, NEW j \in Int, NEW t \in Int, t < DayFrom(j)
  PROVE  CivilDay(t, zone) < CivilDay(DayFrom(j), zone)
<1> DEFINE d == DayFrom(j)
<1>1. IsZone(zone) /\ ~ChangesAcrossMidnight(zone)
  BY CalmZone
<1>2. d \in Int /\ zonedStartOfDay(d, zone) = d
  BY DayFromIs
<1> HIDE DEF d
<1>3. BeginsDay(d, zone)
  BY <1>1, <1>2, StartIsTheFirstInstant
<1>4. t <= d - 1 /\ d - 1 \in Int
  BY <1>2 DEF d
<1>5. CivilDay(t, zone) <= CivilDay(d - 1, zone) /\ CivilDay(d - 1, zone) < CivilDay(d, zone)
  BY <1>1, <1>3, <1>4, DaysGoBy DEF BeginsDay
<1>6. /\ CivilDay(t, zone) \in Int /\ CivilDay(d - 1, zone) \in Int
      /\ CivilDay(d, zone) \in Int
  BY <1>1, <1>2, <1>4, WallDayIs
<1>7. CivilDay(t, zone) < CivilDay(d, zone)
  BY <1>5, <1>6
<1>8. QED  BY <1>7 DEF d

\* Where a preset begins with an hour, no row of it is in a bucket of a day before.
LEMMA PointsOfDays ==
  ASSUME Calm, NEW S \in SUBSET ClickType, NEW days \in Presets, NEW w,
         w.step = Day, w.from = DayFrom(-(days - 1)), w.to = instant, w.from % Hour = 0,
         w.source \in {"raw", "rollup"}
  PROVE  DOMAIN Points(S, w) \subseteq {DayFrom(j) : j \in -(days - 1)..Last}
<1>1. /\ days \in Nat \ {0} /\ instant \in Int /\ IsZone(zone) /\ Hour \in Nat \ {0}
      /\ ~ChangesAcrossMidnight(zone) /\ -(days - 1) \in Int
  BY ConstantsAre, CalmZone
<1>2. w.from \in Int /\ CivilDay(w.from, zone) = CivilDay(instant, zone) + -(days - 1)
  BY <1>1, DayFromIs
<1>3. ASSUME NEW c \in Rows(S, w)
      PROVE  RowTime(c, w) \in Int /\ w.from <= RowTime(c, w) /\ RowTime(c, w) < instant
  <2>1. c \in S /\ c.at \in Int
    <3>1. c \in S
      BY DEF Rows, Raw, Hourly
    <3>2. QED  BY <3>1 DEF ClickType
  <2>2. CASE w.source = "raw"
    BY <2>1, <2>2 DEF Rows, Raw, In, RowTime
  <2>3. CASE w.source = "rollup"
    <3> DEFINE h == floorTo(c.at, Hour)
    <3>1. h \in Int /\ floorTo(w.from, Hour) <= h /\ h < instant /\ RowTime(c, w) = h
      BY <1>1, <2>1, <2>3, FloorIs DEF Rows, Hourly, In, RowTime
    <3>2. floorTo(w.from, Hour) \in Int /\ w.from <= floorTo(w.from, Hour)
      <4> DEFINE f == w.from
      <4>1. f \in Int /\ f <= f /\ f % Hour = 0
        BY <1>2
      <4> HIDE DEF f
      <4>2. floorTo(f, Hour) \in Int /\ f <= floorTo(f, Hour)
        BY <1>1, <4>1, FloorIs, FloorIsAbove
      <4>3. QED  BY <4>2 DEF f
    <3> HIDE DEF h
    <3>3. QED  BY <1>1, <1>2, <3>1, <3>2
  <2>4. QED  BY <2>2, <2>3
<1>4. ASSUME NEW c \in Rows(S, w) PROVE BucketOf(c, w) \in {DayFrom(j) : j \in -(days - 1)..Last}
  <2> DEFINE t == RowTime(c, w)
             k == CivilDay(instant, zone)
             j == CivilDay(t, zone) - k
  <2>1. t \in Int /\ w.from <= t /\ t < instant
    BY <1>1, <1>3
  <2>2. BucketOf(c, w) = Midnight(t, zone)
    BY DEF BucketOf, StoreBucket
  <2> HIDE DEF t
  <2>3. CivilDay(t, zone) \in Int /\ k \in Int
    BY <1>1, <2>1, WallDayIs
  <2>4. CivilDay(w.from, zone) <= CivilDay(t, zone) /\ CivilDay(t, zone) <= k + Last
    <3>1. CivilDay(w.from, zone) <= CivilDay(t, zone)
      BY <1>1, <1>2, <2>1, DaysGoBy
    <3>2. CivilDay(t, zone) < CivilDay(DayFrom(Last + 1), zone)
      <4>1. Last + 1 \in Int /\ instant <= DayFrom(Last + 1)
        BY LastDay
      <4>2. DayFrom(Last + 1) \in Int
        BY <4>1, DayFromIs
      <4>3. t < DayFrom(Last + 1)
        BY <1>1, <2>1, <4>1, <4>2
      <4>4. QED  BY <2>1, <4>1, <4>3, BeforeTheDay
    <3>3. CivilDay(DayFrom(Last + 1), zone) = k + (Last + 1)
      BY LastDay, DayFromIs
    <3> HIDE DEF k
    <3>4. Last \in Int
      BY LastDay
    <3>5. QED  BY <2>3, <3>1, <3>2, <3>3, <3>4
  <2>5. j \in -(days - 1)..Last /\ j \in Int /\ CivilDay(t, zone) = k + j
    <3>1. Last \in Int
      BY LastDay
    <3>2. QED  BY <1>1, <1>2, <2>3, <2>4, <3>1
  <2>6. Midnight(t, zone) = DayFrom(j)
    <3> HIDE DEF j, k
    <3>1. zonedStartOfDay(t, zone) = DayFrom(j)
      BY <2>1, <2>5, DayFromIs DEF k
    <3>2. QED  BY <1>1, <2>1, <3>1, MidnightIs
  <2>7. QED  BY <2>2, <2>5, <2>6
<1> DEFINE Every == {DayFrom(j) : j \in -(days - 1)..Last}
<1>5. \A c \in Rows(S, w) : BucketOf(c, w) \in Every
  BY <1>4
<1> HIDE DEF Every
<1>6. DOMAIN Points(S, w) = {BucketOf(c, w) : c \in Rows(S, w)}
  BY PointsAre
<1>7. {BucketOf(c, w) : c \in Rows(S, w)} \subseteq Every
  BY <1>5
<1>8. QED  BY <1>6, <1>7 DEF Every

\* They are all different.
LEMMA SoManyDays ==
  ASSUME Calm, NEW days \in Nat \ {0}
  PROVE  Cardinality({DayFrom(j) : j \in -(days - 1)..Last}) = days + Last
<1> DEFINE S == -(days - 1)..Last
           T == {DayFrom(j) : j \in S}
           g == [j \in S |-> DayFrom(j)]
<1>1. IsFiniteSet(S) /\ Cardinality(S) = days + Last
  <2>1. Last \in {-1, 0}
    BY LastDay
  <2>2. /\ -(days - 1) \in Int /\ Last \in Int
        /\ ~(-(days - 1) > Last) => Last - (-(days - 1)) + 1 = days + Last
        /\ -(days - 1) > Last => days + Last = 0
    BY <2>1
  <2>3. QED  BY <2>2, FS_Interval
<1>2. g \in Surjection(S, T)
  BY DEF Surjection
<1>3. ASSUME NEW i \in S, NEW j \in S, i # j PROVE DayFrom(i) # DayFrom(j)
  <2>1. i \in Int /\ j \in Int /\ DayFrom(i) \in Int /\ DayFrom(j) \in Int
    BY DayFromIs
  <2>2. DayFrom(i) < DayFrom(j) \/ DayFrom(j) < DayFrom(i)
    BY <1>3, <2>1, DaysFromGrow
  <2>3. QED  BY <2>1, <2>2
<1>4. g \in Injection(S, T)
  BY <1>3 DEF Injection, IsInjective
<1> HIDE DEF S, T, g
<1>5. Cardinality(T) = Cardinality(S)
  BY <1>1, <1>2, <1>4, FS_Surjection
<1>6. QED  BY <1>1, <1>5 DEF S, T

\* fillSeries walks from the first day of a preset to the last that has begun, which is today
\* but at the midnight itself, and on no other.
THEOREM ABarForEachDay == ReadsSpec => []BarPerDayInWholeHours
<1>1. ASSUME Safe, Answered, asked.days > 1, asked.window.step = Day,
             ~ChangesAcrossMidnight(zone), asked.window.from % Hour = 0
      PROVE  Cardinality(DOMAIN series) = asked.days + Last
  <2>1. PICK bounds \in WindowType, days \in Nat : AskedFor(bounds, days)
    BY <1>1, WhatIsAnswered
  <2> DEFINE w == asked.window
             S == seen.series
             Every == {DayFrom(j) : j \in -(days - 1)..Last}
  <2>2. w = resolveAnalyticsWindow(bounds) /\ asked.days = days
    BY <2>1 DEF AskedFor
  <2>3. days \in Presets /\ days > 1 /\ bounds = presetBounds(days)
    BY <1>1, <2>1, <2>2 DEF AskedFor
  <2>4. bounds.from = DayFrom(-(days - 1)) /\ bounds.to = instant
    BY <2>3 DEF presetBounds, presetFrom, DayFrom
  <2>5. /\ w.from = DayFrom(-(days - 1)) /\ w.to = instant /\ w.source \in {"raw", "rollup"}
        /\ w.step = Day /\ w.from % Hour = 0
    BY <1>1, <2>2, <2>4, ConstantWindow
  <2>6. Calm /\ S \in SUBSET ClickType /\ series = fillSeries(Points(S, w), w)
    BY <1>1, WhatIsAnswered DEF Calm
  <2> HIDE DEF w, S
  <2>7. Walked(w) = Every
    BY <2>3, <2>5, <2>6, WalkOfDays
  <2>8. DOMAIN Points(S, w) \subseteq Every
    BY <2>3, <2>5, <2>6, PointsOfDays
  <2>9. DOMAIN series = Walked(w) \cup DOMAIN Points(S, w)
    BY <2>6 DEF fillSeries
  <2> HIDE DEF Every
  <2>10. DOMAIN series = Every
    BY <2>7, <2>8, <2>9
  <2>11. Cardinality(Every) = days + Last
    BY <2>3, <2>6, SoManyDays DEF Every
  <2>12. QED  BY <2>2, <2>10, <2>11, Zenon
<1>2. ASSUME Safe, Answered, asked.days > 1, asked.window.step = Day,
             ~ChangesAcrossMidnight(zone), asked.window.from % Hour = 0
      PROVE  Cardinality(DOMAIN series) =
               IF instant = Midnight(instant, zone) THEN asked.days - 1 ELSE asked.days
  <2>1. PICK bounds \in WindowType, days \in Nat : AskedFor(bounds, days)
    BY <1>2, WhatIsAnswered
  <2>2. asked.days \in Nat
    BY <2>1 DEF AskedFor
  <2>3. asked.days + -1 = asked.days - 1 /\ asked.days + 0 = asked.days
    BY <2>2
  <2>4. QED  BY <1>1, <1>2, <2>3 DEF Last
<1>3. Safe => BarPerDayInWholeHours
  BY <1>2 DEF BarPerDayInWholeHours, BarPerDay
<1>4. QED  BY <1>3, AlwaysSafe, PTL

-----------------------------------------------------------------------------
\* What is cached is under the key of what it is about.
KeyOf(a) ==
  IF a.of \in Totals
    THEN [of |-> a.of, from |-> a.from, to |-> a.asOf]
    ELSE [of |-> a.of, from |-> a.from, to |-> a.asOf, zone |-> a.zone]

Cached == \A e \in cache : e.key = KeyOf(e.answer)

\* Requests are not older than Flight, those of this generation ask the panel's
\* question, and what they are answered with is not older than they are by a tick.
Fresh(r, asOf) == asOf > r.sent - Quantum

Flying ==
  \A r \in flight :
    /\ r.sent <= now /\ now <= r.sent + Flight
    /\ r.gen <= generation
    /\ r.gen = generation => r.q = question
    /\ r.stage = "missed" => Fresh(r, r.tick)
    /\ r.stage = "queried" => /\ Fresh(r, r.tick)
                              /\ r.answer = Body(r.q, r.tick)
    /\ r.stage = "answered" => Fresh(r, r.answer.asOf) /\ Fits(r.answer, r.q)

\* The interval runs while the panel is visible.
Timed ==
  /\ since <= now
  /\ visible => timer \in Int /\ timer >= now
  /\ ~visible => timer = Never

\* What the panel asked at s is under way, or something no older has come of it.
Got(s) ==
  \/ \E r \in flight : r.gen = generation /\ r.sent = s
  \/ data = NoAnswer \/ error
  \/ data.asOf > s - Flight - Quantum

Polled ==
  visible => \A t \in Int : since <= t /\ t < timer =>
               \E s \in Int : t - Poll < s /\ s <= t /\ s <= now /\ Got(s)

Inv == TypeOK /\ Cached /\ Flying /\ OwnAnswer /\ Timed /\ Polled

-----------------------------------------------------------------------------
LEMMA PollConstants ==
  /\ Poll \in Nat \ {0} /\ Flight \in Nat /\ Quantum \in Nat \ {0} /\ Never \notin Int
  /\ NoAnswer \notin Answers
BY DashboardConstants DEF Quantum, Answers

\* A tick is no further back than its length.
LEMMA TickIsRecent ==
  ASSUME NEW t \in Nat
  PROVE  quantizeClock(t) \in Int /\ quantizeClock(t) > t - Quantum
<1> DEFINE q == Quantum
<1>1. q \in Nat \ {0}
  BY PollConstants
<1> HIDE DEF q
<1>2. /\ t \div q \in Int /\ t % q \in 0..(q - 1)
      /\ t = q * (t \div q) + (t % q)
  BY <1>1
<1>3. (t \div q) * q \in Int /\ (t \div q) * q = q * (t \div q)
  BY <1>1, <1>2
<1>4. (t \div q) * q > t - q
  BY <1>1, <1>2, <1>3
<1>5. QED  BY <1>3, <1>4 DEF quantizeClock, q

\* A window has an instant at which it begins.
LEMMA FromIs ==
  ASSUME NEW q \in Questions, NEW t \in Int
  PROVE  From(q, t) \in Int
<1>1. /\ q.days \in Nat /\ Intl[q.zone] \in [before : Int, after : Int, change : Int]
      /\ Day \in Nat \ {0}
  BY DashboardConstants, UnitsDivide
<1> DEFINE z == Intl[q.zone]
<1>2. \A u \in Int : Offset(u, z) \in Int
  BY <1>1 DEF Offset
<1>3. \A v \in Int : floorTo(v, Day) \in Int
  BY <1>1, FloorIs
<1> HIDE DEF z
<1>4. \A u \in Int : zonedStartOfDay(u, z) \in Int
  BY <1>2, <1>3 DEF zonedStartOfDay
<1>5. \A u, n \in Int : addZonedDays(u, n, z) \in Int
  <2>1. ASSUME NEW u \in Int, NEW n \in Int PROVE addZonedDays(u, n, z) \in Int
    <3>1. zonedStartOfDay(u, z) \in Int /\ n * Day \in Int /\ Day \div 2 \in Int
      BY <1>1, <1>4
    <3>2. zonedStartOfDay(u, z) + n * Day + Day \div 2 \in Int
      BY <3>1
    <3>3. QED  BY <1>4, <3>2 DEF addZonedDays
  <2>2. QED  BY <2>1
<1>6. presetFrom(q.days, t, z) \in Int
  <2>1. t - Day \in Int /\ -(q.days - 1) \in Int
    BY <1>1
  <2>2. addZonedDays(t, -(q.days - 1), z) \in Int
    BY <1>5, <2>1
  <2>3. QED  BY <2>1, <2>2, Zenon DEF presetFrom
<1>7. QED  BY <1>6 DEF From, z

\* A body is an answer to the question it was computed for, and has its key.
LEMMA BodyFits ==
  ASSUME NEW q \in Questions, NEW t \in Int
  PROVE  /\ Body(q, t) \in Answers /\ Body(q, t).asOf = t
         /\ Fits(Body(q, t), q) /\ KeyOf(Body(q, t)) = Key(q, t)
<1>1. From(q, t) \in Int /\ q.of \in Subjects /\ q.zone \in Zones
  BY FromIs, DashboardConstants
<1>2. QED  BY <1>1 DEF Body, Answers, Fits, KeyOf, Key

\* What is under a question's key answers it, whoever asked for it.
LEMMA UnderItsKey ==
  ASSUME NEW q \in Questions, NEW t \in Int, NEW a \in Answers, KeyOf(a) = Key(q, t)
  PROVE  a.asOf = t /\ Fits(a, q)
<1>1. a.of = q.of /\ a.from = From(q, t) /\ a.asOf = t
  <2>1. KeyOf(a).of = a.of /\ KeyOf(a).from = a.from /\ KeyOf(a).to = a.asOf
    BY DEF KeyOf
  <2>2. Key(q, t).of = q.of /\ Key(q, t).from = From(q, t) /\ Key(q, t).to = t
    BY DEF Key
  <2>3. QED  BY <2>1, <2>2
<1>2. q.of \notin Totals => a.zone = q.zone
  <2>1. ASSUME q.of \notin Totals PROVE KeyOf(a).zone = a.zone /\ Key(q, t).zone = q.zone
    BY <1>1, <2>1 DEF KeyOf, Key
  <2>2. QED  BY <2>1
<1>3. QED  BY <1>1, <1>2 DEF Fits

LEMMA RequestType ==
  ASSUME TypeOK, NEW q \in Questions, NEW g \in Nat
  PROVE  /\ Request(q, g) \in Requests
         /\ Request(q, g).gen = g /\ Request(q, g).q = q
         /\ Request(q, g).sent = now /\ Request(q, g).stage = "sent"
BY DEF TypeOK, Request, Requests

\* What the panel shows of a question survives whatever leaves the panel alone and only
\* adds to the requests, or moves one on.
LEMMA GotSurvives ==
  ASSUME NEW s \in Int, Got(s), UNCHANGED <<generation, data, error>>,
         \A r \in flight : \E l \in flight' : l.gen = r.gen /\ l.sent = r.sent
  PROVE  Got(s)'
<1>1. CASE \E r \in flight : r.gen = generation /\ r.sent = s
  <2>1. PICK r \in flight : r.gen = generation /\ r.sent = s
    BY <1>1
  <2>2. PICK l \in flight' : l.gen = r.gen /\ l.sent = r.sent
    OBVIOUS
  <2>3. QED  BY <2>1, <2>2 DEF Got
<1>2. CASE data = NoAnswer \/ error \/ data.asOf > s - Flight - Quantum
  BY <1>2 DEF Got
<1>3. QED  BY <1>1, <1>2 DEF Got

\* A new request, with the panel's question if it is the panel's.
LEMMA SendFlies ==
  ASSUME Inv, NEW q \in Questions, NEW g \in Nat, Send(q, g), now' = now, generation' \in Nat,
         generation <= generation', g <= generation', g = generation' => q = question',
         \A r \in flight : r.gen = generation' => r.q = question'
  PROVE  /\ Flying' /\ flight' \subseteq Requests
         /\ \A r \in flight' : r.stage \in {"queried", "answered"} => r.answer \in Answers
         /\ \A r \in flight : r \in flight'
         /\ \E r \in flight' : r.gen = g /\ r.sent = now
<1> DEFINE n == Request(q, g)
<1>1. n \in Requests /\ n.gen = g /\ n.q = q /\ n.sent = now /\ n.stage = "sent"
  BY RequestType DEF Inv
<1> HIDE DEF n
<1>2. flight' = flight \cup {n}
  BY DEF Send, n
<1>3. TypeOK /\ now \in Nat /\ generation \in Nat
  BY DEF Inv, TypeOK
<1>4. ASSUME NEW r \in flight'
      PROVE  /\ r.sent <= now' /\ now' <= r.sent + Flight
             /\ r.gen <= generation'
             /\ r.gen = generation' => r.q = question'
             /\ r.stage = "missed" => Fresh(r, r.tick)
             /\ r.stage = "queried" => /\ Fresh(r, r.tick)
                                       /\ r.answer = Body(r.q, r.tick)
             /\ r.stage = "answered" => Fresh(r, r.answer.asOf) /\ Fits(r.answer, r.q)
  <2>1. CASE r = n
    BY <1>1, <1>3, <2>1, PollConstants
  <2>2. CASE r \in flight
    <3>1. r.gen \in Nat /\ r.gen <= generation
      BY <1>3, <2>2 DEF TypeOK, Requests, Inv, Flying
    <3>2. r.gen <= generation'
      BY <1>3, <3>1
    <3>3. QED  BY <2>2, <3>2 DEF Inv, Flying
  <2>3. QED  BY <1>2, <2>1, <2>2
<1>5. Flying'
  BY <1>4 DEF Flying, Fresh
<1>6. QED  BY <1>1, <1>2, <1>3, <1>5 DEF TypeOK

\* A request that the handler moves on.
LEMMA Moves ==
  ASSUME Inv, NEW r \in flight, UNCHANGED <<now, shown, panel>>,
         NEW stage \in {"missed", "queried", "answered"}, NEW tick \in Int,
         NEW answer \in Answers \cup {NoAnswer}, Becomes(r, stage, tick, answer),
         stage # "missed" => answer \in Answers,
         stage # "answered" => Fresh(r, tick),
         stage = "queried" => answer = Body(r.q, tick),
         stage = "answered" => Fresh(r, answer.asOf) /\ Fits(answer, r.q),
         \A e \in cache' : e.answer \in Answers /\ e.until \in Int,
         Cached'
  PROVE  Inv'
<1> DEFINE n == [r EXCEPT !.stage = stage, !.tick = tick, !.answer = answer]
<1>1. TypeOK /\ r \in Requests
  BY DEF Inv, TypeOK
<1>2. /\ n \in Requests /\ n.gen = r.gen /\ n.q = r.q /\ n.sent = r.sent
      /\ n.stage = stage /\ n.tick = tick /\ n.answer = answer
  BY <1>1 DEF Requests
<1> HIDE DEF n
<1>3. flight' = (flight \ {r}) \cup {n}
  BY DEF Becomes, n
<1>4. UNCHANGED <<now, data, error, loading, question, generation, visible, timer, since, changes>>
  BY DEF shown, panel
<1>5. TypeOK'
  BY <1>1, <1>2, <1>3, <1>4 DEF TypeOK
<1>6. Flying'
  <2>1. ASSUME NEW l \in flight'
        PROVE  /\ l.sent <= now /\ now <= l.sent + Flight
               /\ l.gen <= generation
               /\ l.gen = generation => l.q = question
               /\ l.stage = "missed" => Fresh(l, l.tick)
               /\ l.stage = "queried" => /\ Fresh(l, l.tick)
                                         /\ l.answer = Body(l.q, l.tick)
               /\ l.stage = "answered" => Fresh(l, l.answer.asOf) /\ Fits(l.answer, l.q)
    <3>1. CASE l = n
      <4>1. /\ r.sent <= now /\ now <= r.sent + Flight /\ r.gen <= generation
            /\ r.gen = generation => r.q = question
        BY DEF Inv, Flying
      <4>2. QED  BY <1>2, <3>1, <4>1 DEF Fresh
    <3>2. CASE l \in flight
      BY <3>2 DEF Inv, Flying
    <3>3. QED  BY <1>3, <3>1, <3>2
  <2>2. QED  BY <1>4, <2>1 DEF Flying, Fresh
<1>7. OwnAnswer' /\ Timed'
  BY <1>4 DEF Inv, OwnAnswer, Timed
<1>8. Polled'
  <2>1. \A k \in flight : \E l \in flight' : l.gen = k.gen /\ l.sent = k.sent
    BY <1>2, <1>3
  <2>2. \A s \in Int : Got(s) => Got(s)'
    BY <1>4, <2>1, GotSurvives
  <2>3. QED  BY <1>4, <2>2 DEF Inv, Polled
<1>9. QED  BY <1>5, <1>6, <1>7, <1>8 DEF Inv

-----------------------------------------------------------------------------
(***************************************************************************)
(* Init and the steps.                                                     *)
(***************************************************************************)

LEMMA InitInv == Init => Inv
<1> SUFFICES ASSUME Init PROVE Inv
  OBVIOUS
<1> DEFINE n == Request(question, 1)
<1>1. /\ now = 0 /\ cache = {} /\ question \in Questions /\ flight = {n} /\ generation = 1
      /\ data = NoAnswer /\ error = FALSE /\ loading = TRUE /\ visible \in BOOLEAN
      /\ timer = (IF visible THEN Poll ELSE Never) /\ since = 0 /\ changes = 0
  BY DEF Init, Asked
<1>2. /\ n \in Requests /\ n.gen = 1 /\ n.q = question /\ n.sent = 0 /\ n.stage = "sent"
  BY <1>1 DEF Request, Requests
<1> HIDE DEF n
<1>3. TypeOK
  <2>1. Poll \in Int /\ 0 \in 0..MaxChanges /\ now \in Nat /\ since \in Nat
    BY <1>1, DashboardConstants
  <2>2. timer \in Int \cup {Never}
    BY <1>1, <2>1
  <2>3. /\ flight \subseteq Requests
        /\ \A r \in flight : r.stage \in {"queried", "answered"} => r.answer \in Answers
    BY <1>1, <1>2
  <2>4. generation \in Nat \ {0} /\ error \in BOOLEAN /\ loading \in BOOLEAN
    <3>1. generation \in Nat \ {0}
      BY <1>1
    <3>2. error \in BOOLEAN /\ loading \in BOOLEAN
      BY <1>1, Zenon
    <3>3. QED  BY <3>1, <3>2
  <2>5. data \in Answers \cup {NoAnswer} /\ visible \in BOOLEAN /\ question \in Questions
    BY <1>1
  <2>6. \A e \in cache : e.answer \in Answers /\ e.until \in Int
    BY <1>1
  <2>7. changes \in 0..MaxChanges
    BY <1>1, <2>1
  <2>8. QED  BY <2>1, <2>2, <2>3, <2>4, <2>5, <2>6, <2>7 DEF TypeOK
<1>4. Flying
  BY <1>1, <1>2, PollConstants DEF Flying
<1>5. Cached /\ OwnAnswer /\ Timed
  BY <1>1, PollConstants DEF Cached, OwnAnswer, Timed
<1>6. Polled
  BY <1>1, PollConstants DEF Polled, Got
<1>7. QED  BY <1>3, <1>4, <1>5, <1>6 DEF Inv

LEMMA ViewerCounts ==
  ASSUME TypeOK, Viewer
  PROVE  changes' \in 0..MaxChanges
BY DashboardConstants DEF TypeOK, Viewer

LEMMA OpenInv ==
  ASSUME Inv, NEW q \in Asked, Open(q)
  PROVE  Inv'
<1>1. /\ question' = q /\ generation' = generation + 1 /\ data' = NoAnswer /\ loading' = TRUE
      /\ Send(q, generation')
      /\ timer' = (IF visible THEN now + Poll ELSE Never) /\ since' = now
      /\ UNCHANGED <<now, cache, error, visible>> /\ Viewer
  BY DEF Open
<1>2. TypeOK /\ q \in Questions /\ generation \in Nat /\ now \in Nat
  BY DEF Inv, TypeOK, Asked
<1>3. \A r \in flight : r.gen # generation'
  <2>1. \A r \in flight : r.gen \in Nat /\ r.gen <= generation
    BY <1>2 DEF Inv, Flying, TypeOK, Requests
  <2>2. QED  BY <1>1, <1>2, <2>1
<1> DEFINE g == generation + 1
<1>4. g \in Nat /\ g # 0 /\ generation <= g /\ generation' = g
  BY <1>1, <1>2
<1> HIDE DEF g
<1>5. /\ Flying' /\ flight' \subseteq Requests
      /\ \A r \in flight' : r.stage \in {"queried", "answered"} => r.answer \in Answers
      /\ \E r \in flight' : r.gen = g /\ r.sent = now
  <2>1. Send(q, g) /\ now' = now /\ generation' \in Nat /\ g <= generation'
    BY <1>1, <1>4
  <2>2. \A r \in flight : r.gen = generation' => r.q = question'
    BY <1>3
  <2>3. QED  BY <1>1, <1>2, <1>4, <2>1, <2>2, SendFlies
<1>6. TypeOK'
  BY <1>1, <1>2, <1>4, <1>5, ViewerCounts, PollConstants DEF TypeOK
<1>7. Cached' /\ OwnAnswer' /\ Timed'
  BY <1>1, <1>2, PollConstants DEF Inv, Cached, KeyOf, OwnAnswer, Timed, TypeOK
<1>8. Polled'
  <2>1. ASSUME visible', NEW t \in Int, since' <= t, t < timer'
        PROVE  \E s \in Int : t - Poll < s /\ s <= t /\ s <= now' /\ Got(s)'
    <3>1. \A s \in Int : Got(s)'
      BY <1>1 DEF Got
    <3>2. now \in Int /\ t - Poll < now /\ now <= t /\ now <= now'
      BY <1>1, <1>2, <2>1, PollConstants
    <3>3. QED  BY <3>1, <3>2
  <2>2. QED  BY <1>1, <2>1 DEF Polled
<1>9. QED  BY <1>5, <1>6, <1>7, <1>8 DEF Inv

\* The panel asks again what it asks, without a new generation.
LEMMA AsksAgain ==
  ASSUME Inv, NEW g \in {0, generation}, NEW q \in Questions, g # 0 => q = question, Send(q, g),
         UNCHANGED <<now, cache, question, generation, shown>>,
         visible' \in BOOLEAN, timer' \in Int \cup {Never}, since' \in Nat, changes' \in 0..MaxChanges,
         Timed', Polled'
  PROVE  Inv'
<1>1. TypeOK /\ generation \in Nat \ {0} /\ g \in Nat
  BY DEF Inv, TypeOK
<1>2. /\ Flying' /\ flight' \subseteq Requests
      /\ \A r \in flight' : r.stage \in {"queried", "answered"} => r.answer \in Answers
  <2>1. /\ generation' \in Nat /\ generation <= generation' /\ g <= generation' /\ now' = now
        /\ g = generation' => q = question'
    BY <1>1
  <2>2. \A r \in flight : r.gen = generation' => r.q = question'
    BY DEF Inv, Flying
  <2>3. QED  BY <1>1, <2>1, <2>2, SendFlies
<1>3. TypeOK'
  BY <1>1, <1>2 DEF TypeOK, shown
<1>4. Cached' /\ OwnAnswer'
  BY DEF Inv, Cached, KeyOf, OwnAnswer, shown
<1>5. QED  BY <1>2, <1>3, <1>4 DEF Inv

\* It finds the request it has just sent.
LEMMA JustAsked ==
  ASSUME TypeOK, Send(question, generation), UNCHANGED generation
  PROVE  \A s \in Int : s = now => Got(s)'
<1> DEFINE n == Request(question, generation)
<1>1. n.gen = generation /\ n.sent = now
  BY DEF Request
<1>2. n \in flight'
  BY DEF Send
<1> HIDE DEF n
<1>3. QED  BY <1>1, <1>2 DEF Got

\* Panel and data stay as they are while requests are added: what was got, is got.
LEMMA GotKept ==
  ASSUME NEW q, NEW g, Send(q, g), UNCHANGED <<generation, shown>>
  PROVE  \A s \in Int : Got(s) => Got(s)'
<1>1. \A r \in flight : \E l \in flight' : l.gen = r.gen /\ l.sent = r.sent
  BY DEF Send
<1>2. UNCHANGED <<generation, data, error>>
  BY DEF shown
<1>3. QED  BY <1>1, <1>2, GotSurvives

LEMMA FireInv ==
  ASSUME Inv, Fire
  PROVE  Inv'
<1>1. /\ timer = now /\ timer' = now + Poll /\ Send(question, generation)
      /\ UNCHANGED <<now, cache, question, generation, shown, visible, since, changes>>
  BY DEF Fire
<1>2. TypeOK /\ now \in Nat /\ since \in Nat
  BY DEF Inv, TypeOK
<1>3. Timed'
  BY <1>1, <1>2, PollConstants DEF Inv, Timed
<1>4. Polled'
  <2>1. ASSUME visible', NEW t \in Int, since' <= t, t < timer'
        PROVE  \E s \in Int : t - Poll < s /\ s <= t /\ s <= now /\ Got(s)'
    <3>1. CASE t < timer
      <4>1. PICK s \in Int : t - Poll < s /\ s <= t /\ s <= now /\ Got(s)
        BY <1>1, <2>1, <3>1 DEF Inv, Polled
      <4>2. QED  BY <1>1, <4>1, GotKept
    <3>2. CASE t >= now
      <4>1. \A s \in Int : s = now => Got(s)'
        BY <1>1, <1>2, JustAsked
      <4>2. t - Poll < now /\ now <= t /\ now \in Int
        BY <1>1, <1>2, <2>1, <3>2, PollConstants
      <4>3. QED  BY <4>1, <4>2
    <3>3. QED  BY <1>1, <1>2, <3>1, <3>2
  <2>2. QED  BY <1>1, <2>1 DEF Polled
<1>5. question \in Questions /\ generation \in {0, generation}
  BY <1>2 DEF TypeOK
<1>6. visible' \in BOOLEAN /\ timer' \in Int \cup {Never} /\ since' \in Nat /\ changes' \in 0..MaxChanges
  BY <1>1, <1>2, PollConstants DEF TypeOK
<1>7. QED  BY <1>1, <1>3, <1>4, <1>5, <1>6, AsksAgain

LEMMA ShowInv ==
  ASSUME Inv, Show
  PROVE  Inv'
<1>1. /\ visible' = TRUE /\ timer' = now + Poll /\ Send(question, generation) /\ since' = now
      /\ Viewer /\ UNCHANGED <<now, cache, question, generation, shown>>
  BY DEF Show
<1>2. TypeOK /\ now \in Nat /\ since \in Nat
  BY DEF Inv, TypeOK
<1>3. Timed'
  BY <1>1, <1>2, PollConstants DEF Timed
<1>4. Polled'
  <2>1. ASSUME NEW t \in Int, since' <= t, t < timer'
        PROVE  \E s \in Int : t - Poll < s /\ s <= t /\ s <= now' /\ Got(s)'
    <3>1. \A s \in Int : s = now => Got(s)'
      BY <1>1, <1>2, JustAsked
    <3>2. now <= now' /\ t - Poll < now /\ now <= t /\ now \in Int
      BY <1>1, <1>2, <2>1, PollConstants
    <3>3. QED  BY <3>1, <3>2
  <2>2. QED  BY <1>1, <2>1 DEF Polled
<1>5. question \in Questions /\ generation \in {0, generation}
  BY <1>2 DEF TypeOK
<1>6. visible' \in BOOLEAN /\ timer' \in Int \cup {Never} /\ since' \in Nat /\ changes' \in 0..MaxChanges
  BY <1>1, <1>2, PollConstants, ViewerCounts
<1>7. QED  BY <1>1, <1>3, <1>4, <1>5, <1>6, AsksAgain

\* A request that changes neither the interval nor what the panel shows.
LEMMA ExtraInv ==
  ASSUME Inv, NEW g \in {0, generation}, NEW q \in Questions, g # 0 => q = question, Send(q, g),
         Viewer, UNCHANGED <<now, cache, question, generation, shown, visible, timer, since>>
  PROVE  Inv'
<1>1. TypeOK
  BY DEF Inv
<1>2. Timed'
  BY DEF Inv, Timed
<1>3. Polled'
  <2>1. \A s \in Int : Got(s) => Got(s)'
    BY GotKept
  <2>2. QED  BY <2>1 DEF Inv, Polled
<1>4. visible' \in BOOLEAN /\ timer' \in Int \cup {Never} /\ since' \in Nat /\ changes' \in 0..MaxChanges
  BY <1>1, ViewerCounts DEF TypeOK
<1>5. QED  BY <1>2, <1>3, <1>4, AsksAgain

LEMMA RetryInv ==
  ASSUME Inv, Retry
  PROVE  Inv'
<1>1. /\ Viewer /\ Send(question, generation)
      /\ UNCHANGED <<now, cache, question, generation, shown, visible, timer, since>>
  BY DEF Retry
<1>2. question \in Questions /\ generation \in {0, generation}
  BY DEF Inv, TypeOK
<1>3. QED  BY <1>1, <1>2, ExtraInv

LEMMA OthersAskInv ==
  ASSUME Inv, NEW q \in Questions, OthersAsk(q)
  PROVE  Inv'
<1>1. /\ Viewer /\ Send(q, 0)
      /\ UNCHANGED <<now, cache, shown, question, generation, visible, timer, since>>
  BY DEF OthersAsk
<1>2. QED  BY <1>1, ExtraInv

LEMMA HideInv ==
  ASSUME Inv, Hide
  PROVE  Inv'
<1>1. /\ visible' = FALSE /\ timer' = Never /\ Viewer
      /\ UNCHANGED <<now, cache, flight, question, generation, shown, since>>
  BY DEF Hide
<1>2. TypeOK'
  BY <1>1, ViewerCounts DEF Inv, TypeOK, shown
<1>3. Cached' /\ Flying' /\ OwnAnswer'
  BY <1>1 DEF Inv, Cached, KeyOf, Flying, Fresh, OwnAnswer, shown
<1>4. Timed' /\ Polled'
  BY <1>1 DEF Inv, Timed, Polled
<1>5. QED  BY <1>2, <1>3, <1>4 DEF Inv

-----------------------------------------------------------------------------
LEMMA ReadCacheInv ==
  ASSUME Inv, NEW r \in flight, ReadCache(r)
  PROVE  Inv'
<1> DEFINE tick == quantizeClock(now)
<1>1. r.stage = "sent" /\ UNCHANGED <<now, cache, shown, panel>>
  BY DEF ReadCache
<1>2. /\ TypeOK /\ r \in Requests /\ now \in Nat /\ Cached
      /\ r.sent \in Nat /\ r.sent <= now
  BY DEF Inv, TypeOK, Flying, Requests
<1>3. tick \in Int /\ tick > now - Quantum
  BY <1>2, TickIsRecent
<1> HIDE DEF tick
<1>4. Fresh(r, tick)
  BY <1>2, <1>3, PollConstants DEF Fresh
<1>5. (\A e \in cache' : e.answer \in Answers /\ e.until \in Int) /\ Cached'
  BY <1>1, <1>2 DEF TypeOK, Cached, KeyOf
<1>6. CASE \E e \in cache : e.key = Key(r.q, tick) /\ Becomes(r, "answered", 0, e.answer)
  <2>1. PICK e \in cache : e.key = Key(r.q, tick) /\ Becomes(r, "answered", 0, e.answer)
    BY <1>6
  <2>2. e.answer \in Answers /\ KeyOf(e.answer) = Key(r.q, tick) /\ r.q \in Questions
    BY <1>2, <2>1 DEF TypeOK, Cached, Requests
  <2>4. Fresh(r, e.answer.asOf) /\ Fits(e.answer, r.q)
    BY <1>3, <1>4, <2>2, UnderItsKey
  <2>5. QED  BY <1>1, <1>5, <2>1, <2>2, <2>4, Moves
<1>7. CASE Becomes(r, "missed", tick, NoAnswer)
  BY <1>1, <1>3, <1>4, <1>5, <1>7, Moves
<1>8. QED  BY <1>6, <1>7 DEF ReadCache, tick

LEMMA QueryInv ==
  ASSUME Inv, NEW r \in flight, Query(r)
  PROVE  Inv'
<1> DEFINE answer == Body(r.q, r.tick)
<1>1. /\ r.stage = "missed" /\ Becomes(r, "queried", r.tick, answer)
      /\ UNCHANGED <<now, cache, shown, panel>>
  BY DEF Query
<1>2. TypeOK /\ r.tick \in Int /\ r.q \in Questions /\ Fresh(r, r.tick) /\ Cached
  BY <1>1 DEF Inv, TypeOK, Requests, Flying
<1>3. answer \in Answers
  BY <1>2, BodyFits
<1>4. (\A e \in cache' : e.answer \in Answers /\ e.until \in Int) /\ Cached'
  BY <1>1, <1>2 DEF TypeOK, Cached, KeyOf
<1>5. QED  BY <1>1, <1>2, <1>3, <1>4, Moves

LEMMA WriteCacheInv ==
  ASSUME Inv, NEW r \in flight, WriteCache(r)
  PROVE  Inv'
<1> DEFINE key == Key(r.q, r.tick)
           e0 == [key |-> key, answer |-> r.answer, until |-> now + Ttl]
<1>1. /\ r.stage = "queried" /\ Becomes(r, "answered", 0, r.answer)
      /\ UNCHANGED <<now, shown, panel>>
      /\ cache' \subseteq cache \cup {e0}
  BY DEF WriteCache
<1>2. /\ TypeOK /\ Cached /\ r.answer \in Answers /\ r.answer = Body(r.q, r.tick)
      /\ r.q \in Questions /\ r.tick \in Int
      /\ Fresh(r, r.tick) /\ now + Ttl \in Int
  BY <1>1, DashboardConstants DEF Inv, TypeOK, Requests, Flying
<1>3. Fresh(r, r.answer.asOf) /\ Fits(r.answer, r.q) /\ KeyOf(r.answer) = key
  BY <1>2, BodyFits
<1>4. e0.answer \in Answers /\ e0.until \in Int /\ e0.key = KeyOf(e0.answer)
  BY <1>2, <1>3
<1> HIDE DEF e0
<1>5. (\A e \in cache' : e.answer \in Answers /\ e.until \in Int) /\ Cached'
  BY <1>1, <1>2, <1>4 DEF TypeOK, Cached, KeyOf
<1>6. QED  BY <1>1, <1>2, <1>3, <1>5, Moves

-----------------------------------------------------------------------------
\* A request leaves, and either it or what it brings accounts for what was asked.
LEMMA Leaves ==
  ASSUME Inv, NEW r \in flight, flight' = flight \ {r}, UNCHANGED <<now, cache, panel>>,
         data' \in Answers \cup {NoAnswer}, error' \in BOOLEAN, loading' \in BOOLEAN,
         OwnAnswer', \A s \in Int : Got(s) => Got(s)'
  PROVE  Inv'
<1>1. UNCHANGED <<question, generation, visible, timer, since, changes>>
  BY DEF panel
<1>2. TypeOK'
  BY <1>1 DEF Inv, TypeOK
<1>3. Cached' /\ Flying' /\ Timed'
  BY <1>1 DEF Inv, Cached, KeyOf, Flying, Fresh, Timed
<1>4. Polled'
  BY <1>1 DEF Inv, Polled
<1>5. QED  BY <1>2, <1>3, <1>4 DEF Inv

LEMMA LandInv ==
  ASSUME Inv, NEW r \in flight, Land(r)
  PROVE  Inv'
<1>1. /\ r.stage = "answered" /\ flight' = flight \ {r} /\ UNCHANGED <<now, cache, panel>>
      /\ IF r.gen = generation
           THEN data' = r.answer /\ error' = FALSE /\ loading' = FALSE
           ELSE UNCHANGED shown
      /\ generation' = generation /\ question' = question
  BY DEF Land, panel
<1>2. /\ TypeOK /\ r.answer \in Answers /\ r.sent \in Nat /\ now \in Nat
      /\ Fresh(r, r.answer.asOf) /\ Fits(r.answer, r.q)
      /\ r.gen = generation => r.q = question
      /\ now <= r.sent + Flight
      /\ \A l \in flight : l.sent \in Nat /\ l.sent <= now
  BY <1>1 DEF Inv, TypeOK, Flying, Requests
<1>3. CASE r.gen = generation
  <2>1. data' = r.answer /\ error' = FALSE /\ loading' = FALSE
    BY <1>1, <1>3
  <2>2. r.answer.asOf \in Int /\ r.answer # NoAnswer
    BY <1>2, PollConstants DEF Answers
  <2>3. ASSUME NEW s \in Int, Got(s), s <= now PROVE Got(s)'
    <3>1. data'.asOf > s - Flight - Quantum
      BY <1>2, <2>1, <2>2, <2>3, PollConstants DEF Fresh
    <3>2. QED  BY <3>1 DEF Got
  <2>4. OwnAnswer'
    BY <1>1, <1>2, <1>3, <2>1 DEF OwnAnswer
  <2>5. TypeOK' /\ Cached' /\ Flying' /\ Timed'
    BY <1>1, <1>2, <2>1 DEF Inv, TypeOK, Cached, KeyOf, Flying, Fresh, Timed, panel
  <2>6. Polled'
    <3>1. ASSUME visible, NEW t \in Int, since <= t, t < timer
          PROVE  \E s \in Int : t - Poll < s /\ s <= t /\ s <= now /\ Got(s)'
      <4>1. PICK s \in Int : t - Poll < s /\ s <= t /\ s <= now /\ Got(s)
        BY <3>1 DEF Inv, Polled
      <4>2. QED  BY <2>3, <4>1
    <3>2. QED  BY <1>1, <3>1 DEF Polled, panel
  <2>7. QED  BY <2>4, <2>5, <2>6 DEF Inv
<1>4. CASE r.gen # generation
  <2>1. UNCHANGED <<data, error, loading>>
    BY <1>1, <1>4 DEF shown
  <2>2. \A s \in Int : Got(s) => Got(s)'
    BY <1>1, <1>4, <2>1 DEF Got
  <2>3. OwnAnswer'
    BY <1>1, <2>1 DEF Inv, OwnAnswer
  <2>4. QED  BY <1>1, <1>2, <2>1, <2>2, <2>3, Leaves DEF TypeOK
<1>5. QED  BY <1>3, <1>4

LEMMA FailInv ==
  ASSUME Inv, NEW r \in flight, Fail(r)
  PROVE  Inv'
<1>1. /\ flight' = flight \ {r} /\ UNCHANGED <<now, cache, data, panel>>
      /\ IF r.gen = generation
           THEN error' = TRUE /\ loading' = FALSE
           ELSE UNCHANGED <<error, loading>>
      /\ generation' = generation /\ question' = question
  BY DEF Fail, panel
<1>2. TypeOK
  BY DEF Inv
<1>3. OwnAnswer'
  BY <1>1 DEF Inv, OwnAnswer
<1>4. data' \in Answers \cup {NoAnswer} /\ error' \in BOOLEAN /\ loading' \in BOOLEAN
  BY <1>1, <1>2 DEF TypeOK
<1>5. \A s \in Int : Got(s) => Got(s)'
  <2>1. CASE r.gen = generation
    BY <1>1, <2>1 DEF Got
  <2>2. CASE r.gen # generation
    BY <1>1, <2>2 DEF Got
  <2>3. QED  BY <2>1, <2>2
<1>6. QED  BY <1>1, <1>3, <1>4, <1>5, Leaves

LEMMA TickInv ==
  ASSUME Inv, Tick
  PROVE  Inv'
<1>1. /\ timer # now /\ \A r \in flight : now < r.sent + Flight
      /\ now' = now + 1 /\ cache' = {e \in cache : e.until > now'}
      /\ UNCHANGED <<flight, shown, panel>>
  BY DEF Tick
<1>2. UNCHANGED <<flight, data, error, loading, question, generation, visible, timer, since, changes>>
  BY <1>1 DEF shown, panel
<1>3. TypeOK /\ now \in Nat
  BY DEF Inv, TypeOK
<1>4. TypeOK'
  BY <1>1, <1>2, <1>3 DEF TypeOK
<1>5. Cached' /\ OwnAnswer'
  BY <1>1, <1>2 DEF Inv, Cached, KeyOf, OwnAnswer
<1>6. Flying'
  <2>1. ASSUME NEW r \in flight PROVE r.sent <= now' /\ now' <= r.sent + Flight
    <3>1. r.sent \in Nat /\ r.sent <= now /\ now < r.sent + Flight
      BY <1>1, <1>3 DEF TypeOK, Requests, Inv, Flying
    <3>2. QED  BY <1>1, <1>3, <3>1, PollConstants
  <2>2. QED  BY <1>2, <2>1 DEF Inv, Flying, Fresh
<1>7. Timed'
  <2>1. since \in Nat /\ since <= now /\ (visible => timer \in Int /\ timer >= now)
    BY <1>3 DEF Inv, Timed, TypeOK
  <2>2. since <= now' /\ (visible => timer >= now')
    BY <1>1, <1>3, <2>1
  <2>3. QED  BY <1>2, <2>1, <2>2 DEF Inv, Timed
<1>8. Polled'
  <2>1. \A s \in Int : (Got(s) => Got(s)') /\ (s <= now => s <= now')
    BY <1>1, <1>2, <1>3 DEF Got
  <2>2. QED  BY <1>2, <2>1 DEF Inv, Polled
<1>9. QED  BY <1>4, <1>5, <1>6, <1>7, <1>8 DEF Inv

LEMMA NextInv == Inv /\ [Next]_vars => Inv'
<1> SUFFICES ASSUME Inv, [Next]_vars PROVE Inv'
  OBVIOUS
<1>1. CASE UNCHANGED vars
  <2> USE <1>1 DEF vars
  <2>1. TypeOK' /\ Cached' /\ OwnAnswer' /\ Timed'
    BY DEF Inv, TypeOK, Cached, KeyOf, OwnAnswer, Timed
  <2>2. Flying' /\ Polled'
    BY DEF Inv, Flying, Fresh, Polled, Got
  <2>3. QED  BY <2>1, <2>2 DEF Inv
<1>2. ASSUME NEW q \in Asked, Open(q) PROVE Inv'
  BY <1>2, OpenInv
<1>3. CASE Fire
  BY <1>3, FireInv
<1>4. CASE Hide
  BY <1>4, HideInv
<1>5. CASE Show
  BY <1>5, ShowInv
<1>6. CASE Retry
  BY <1>6, RetryInv
<1>7. ASSUME NEW q \in Questions, OthersAsk(q) PROVE Inv'
  BY <1>7, OthersAskInv
<1>8. ASSUME NEW r \in flight, Serve(r) PROVE Inv'
  BY <1>8, ReadCacheInv, QueryInv, WriteCacheInv, FailInv, LandInv DEF Serve
<1>9. CASE Tick
  BY <1>9, TickInv
<1>10. QED  BY <1>1, <1>2, <1>3, <1>4, <1>5, <1>6, <1>7, <1>8, <1>9 DEF Next

\* A request sent before now - Flight is over, and what came of it, or of one sent
\* after it, is what a panel without an error shows.
LEMMA InvBoundsAge == Inv => BoundedAge
<1> SUFFICES ASSUME Inv, visible, now > since + Flight, data # NoAnswer, ~error
             PROVE  now - data.asOf < 2 * Flight + Poll + Quantum
  BY DEF BoundedAge
<1> DEFINE t == now - Flight - 1
<1>1. TypeOK /\ now \in Nat /\ since \in Nat /\ timer \in Int /\ timer >= now
  BY DEF Inv, TypeOK, Timed
<1>2. t \in Int /\ since <= t /\ t < timer
  BY <1>1, PollConstants
<1>3. PICK s \in Int : t - Poll < s /\ s <= t /\ Got(s)
  BY <1>2 DEF Inv, Polled
<1>4. ~ \E r \in flight : r.gen = generation /\ r.sent = s
  <2>1. ASSUME NEW r \in flight, r.sent = s PROVE FALSE
    <3>1. now <= s + Flight
      BY <2>1 DEF Inv, Flying
    <3>2. QED  BY <1>1, <1>3, <3>1, PollConstants
  <2>2. QED  BY <2>1
<1>5. data.asOf > s - Flight - Quantum
  BY <1>3, <1>4 DEF Got
<1>6. data.asOf \in Int
  BY <1>1 DEF TypeOK, Answers
<1>7. QED  BY <1>1, <1>3, <1>5, <1>6, PollConstants

-----------------------------------------------------------------------------
(***************************************************************************)
(* Theorems.                                                               *)
(***************************************************************************)

\* Every variable has its type in every reachable state.
THEOREM DashboardTypeCorrect == Spec => []TypeOK
<1>1. Inv => TypeOK
  BY DEF Inv
<1>2. QED  BY <1>1, InitInv, NextInv, PTL DEF Spec

\* However many viewers fill the cache, and however answers overtake one another: the
\* panel shows an answer to its own question.
THEOREM OwnQuestionAnswered == Spec => []OwnAnswer
<1>1. Inv => OwnAnswer
  BY DEF Inv
<1>2. QED  BY <1>1, InitInv, NextInv, PTL DEF Spec

\* What a visible panel shows without an error is no older than two requests, the
\* interval and a tick, for every interval, lifetime of the cache and flight time.
THEOREM AnswerAgeBounded == Spec => []BoundedAge
<1>1. QED  BY InitInv, NextInv, InvBoundsAge, PTL DEF Spec
=============================================================================

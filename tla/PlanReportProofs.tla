-------------------------- MODULE PlanReportProofs --------------------------
(***************************************************************************)
(* Proofs about what a plan reports, for every set of PVCs, samples, specs *)
(* and budgets.                                                            *)
(*                                                                         *)
(* First the operators that a round computes with: sums, fractions and     *)
(* their order, the rank of a place in a sorted list, regressions, shares  *)
(* of budgets, escalations.  What a recursive function computes is shown   *)
(* by induction over its places, from the least place where it would fail. *)
(*                                                                         *)
(* Then three invariants.  ClusterInv is about the volumes, ChangesInv     *)
(* about the plan, its copy and the round (each holds a ReportOK report,   *)
(* and the report of a round that nobody has overtaken leads from the      *)
(* status of the plan), PublishedInv about gauges and rule.                *)
(***************************************************************************)
EXTENDS PlanReport, FiniteSetTheorems, WellFoundedInduction, TLAPS

-----------------------------------------------------------------------------
\* Sequences that are built from left to right.

\* A set with 0 and, with every number, the next one holds all numbers.
LEMMA NumbersInduction ==
    ASSUME NEW S, 0 \in S, \A n \in Nat : n \in S => n + 1 \in S
    PROVE  Nat \subseteq S
<1> SUFFICES ASSUME ~(Nat \subseteq S) PROVE FALSE
    OBVIOUS
<1> DEFINE R == OpToRel(<, Nat)
           T == Nat \ S
<1>1. IsWellFoundedOn(R, Nat)
    BY NatLessThanWellFounded
<1>2. T # {} /\ T \subseteq Nat
    OBVIOUS
<1>3. \A x, y \in Nat : x < y => <<x, y>> \in R
    BY DEF OpToRel
<1> HIDE DEF R, T
<1>4. PICK x \in T : \A y \in T : ~(<<y, x>> \in R)
    BY <1>1, <1>2, WFMin
<1>5. \A y \in T : ~(y < x)
    BY <1>2, <1>3, <1>4
<1>6. x \in Nat /\ x # 0
    BY <1>4, <1>2 DEF T
<1>7. x - 1 \in Nat /\ x - 1 < x
    BY <1>6
<1>8. x - 1 \in S
    BY <1>5, <1>7 DEF T
<1>9. QED
    BY <1>4, <1>7, <1>8 DEF T

\* What holds at first and, when it holds at a place, at the next one, holds at all.
LEMMA PlacesInduction ==
    ASSUME NEW A, NEW m \in Nat, NEW f, f[0] \in A,
           \A i \in 1 .. m : f[i - 1] \in A => f[i] \in A
    PROVE  \A i \in 0 .. m : f[i] \in A
<1> DEFINE S == {n \in Nat : n <= m => f[n] \in A}
<1>1. 0 \in S
    OBVIOUS
<1>2. ASSUME NEW n \in Nat, n \in S PROVE n + 1 \in S
    <2> SUFFICES ASSUME n + 1 <= m PROVE f[n + 1] \in A
        OBVIOUS
    <2>1. f[n] \in A /\ n + 1 \in 1 .. m /\ (n + 1) - 1 = n
        BY <1>2
    <2>2. QED
        BY <2>1
<1> HIDE DEF S
<1>3. Nat \subseteq S
    BY <1>1, <1>2, NumbersInduction
<1>4. QED
    BY <1>3 DEF S

\* A function that begins with a value and takes a step at every place.
Built(f, base, step, m) == f = [i \in 0 .. m |-> IF i = 0 THEN base ELSE step[i][f[i - 1]]]

\* There is such a function, however many places there are.
LEMMA BuiltUp ==
    ASSUME NEW A, NEW base \in A, NEW m \in Nat, NEW step \in [1 .. m -> [A -> A]]
    PROVE  \E f \in [0 .. m -> A] : Built(f, base, step, m)
<1> DEFINE S == {n \in Nat : n <= m => \E f \in [0 .. n -> A] : Built(f, base, step, n)}
<1>1. 0 \in S
    <2> DEFINE f == [i \in 0 .. 0 |-> base]
    <2>1. f \in [0 .. 0 -> A] /\ Built(f, base, step, 0)
        BY DEF Built
    <2>2. QED
        BY <2>1
<1>2. ASSUME NEW n \in Nat, n \in S PROVE n + 1 \in S
    <2> SUFFICES ASSUME n + 1 <= m PROVE \E g \in [0 .. n + 1 -> A] : Built(g, base, step, n + 1)
        OBVIOUS
    <2>1. PICK f \in [0 .. n -> A] : Built(f, base, step, n)
        BY <1>2
    <2> DEFINE g == [i \in 0 .. n + 1 |-> IF i = n + 1 THEN step[n + 1][f[n]] ELSE f[i]]
    <2>2. step[n + 1] \in [A -> A] /\ f[n] \in A
        OBVIOUS
    <2>3. g \in [0 .. n + 1 -> A]
        BY <2>2
    <2>4. ASSUME NEW i \in 0 .. n + 1 PROVE g[i] = IF i = 0 THEN base ELSE step[i][g[i - 1]]
        <3>1. CASE i = n + 1
            BY <3>1
        <3>2. CASE i # n + 1
            <4>1. i \in 0 .. n /\ g[i] = f[i] /\ (i # 0 => i - 1 \in 0 .. n /\ g[i - 1] = f[i - 1])
                BY <3>2
            <4>2. f[i] = IF i = 0 THEN base ELSE step[i][f[i - 1]]
                BY <2>1, <4>1 DEF Built
            <4>3. QED
                BY <4>1, <4>2
        <3>3. QED
            BY <3>1, <3>2
    <2>5. Built(g, base, step, n + 1)
        BY <2>4 DEF Built
    <2>6. QED
        BY <2>3, <2>5
<1> HIDE DEF S
<1>3. Nat \subseteq S
    BY <1>1, <1>2, NumbersInduction
<1>4. QED
    BY <1>3 DEF S

\* What a sequence of numbers adds up to, place by place.
Sums(f, s) ==
    /\ f[0] = 0 /\ \A i \in 0 .. Len(s) : f[i] \in Int
    /\ \A i \in 1 .. Len(s) : f[i] = f[i - 1] + s[i]

\* Added is the last of the sums.
LEMMA AddedSums ==
    ASSUME NEW s \in Seq(Int)
    PROVE  \E f : Sums(f, s) /\ Added(s) = f[Len(s)]
<1> DEFINE P(f) == f = [i \in 0 .. Len(s) |-> IF i = 0 THEN 0 ELSE f[i - 1] + s[i]]
           g == CHOOSE f : P(f)
           step == [i \in 1 .. Len(s) |-> [a \in Int |-> a + s[i]]]
<1>1. Added(s) = g[Len(s)]
    BY DEF Added
<1>2. Len(s) \in Nat /\ \A i \in 1 .. Len(s) : s[i] \in Int
    OBVIOUS
<1>3. step \in [1 .. Len(s) -> [Int -> Int]]
    BY <1>2
<1>4. PICK h \in [0 .. Len(s) -> Int] : Built(h, 0, step, Len(s))
    <2> HIDE DEF step
    <2>1. 0 \in Int
        OBVIOUS
    <2>2. QED
        BY <1>2, <1>3, <2>1, BuiltUp, Zenon
<1>5. P(h)
    <2>1. h = [i \in 0 .. Len(s) |-> IF i = 0 THEN 0 ELSE step[i][h[i - 1]]]
        BY <1>4 DEF Built
    <2>2. ASSUME NEW i \in 0 .. Len(s) PROVE h[i] = IF i = 0 THEN 0 ELSE h[i - 1] + s[i]
        <3>1. CASE i = 0
            BY <2>1, <3>1
        <3>2. CASE i # 0
            <4>1. i \in 1 .. Len(s) /\ i - 1 \in 0 .. Len(s)
                BY <1>2, <3>2
            <4>2. h[i - 1] \in Int /\ step[i] = [a \in Int |-> a + s[i]]
                BY <4>1
            <4>3. QED
                BY <2>1, <3>2, <4>2
        <3>3. QED
            BY <3>1, <3>2
    <2>3. QED
        BY <1>4, <2>2
<1>6. P(g)
    <2> HIDE DEF P
    <2>1. QED
        BY <1>5
<1>7. g[0] = 0 /\ \A i \in 1 .. Len(s) : g[i] = g[i - 1] + s[i]
    <2> HIDE DEF g
    <2>1. QED
        BY <1>2, <1>6, SMTT(40)
<1> HIDE DEF P, g
<1>8. \A i \in 0 .. Len(s) : g[i] \in Int
    <2>1. \A i \in 1 .. Len(s) : s[i] \in Int
        BY <1>2
    <2> HIDE DEF step
    <2>2. g[0] \in Int
        BY <1>7
    <2>3. \A i \in 1 .. Len(s) : g[i - 1] \in Int => g[i] \in Int
        BY <1>7, <2>1
    <2>4. QED
        BY <1>2, <2>2, <2>3, PlacesInduction, Zenon
<1>9. QED
    BY <1>1, <1>7, <1>8 DEF Sums

-----------------------------------------------------------------------------
\* Fractions.

\* The two parts of a fraction.
LEMMA FractionParts ==
    ASSUME NEW a \in Fraction
    PROVE  a[1] \in Int /\ a[2] \in Int /\ a[2] > 0
    BY DEF Fraction

\* A fraction from its parts.
LEMMA FractionFrom ==
    ASSUME NEW n \in Int, NEW d \in Int, d > 0
    PROVE  <<n, d>> \in Fraction /\ <<n, d>>[1] = n /\ <<n, d>>[2] = d
    BY DEF Fraction

\* A product of positive numbers.
LEMMA PositiveProduct ==
    ASSUME NEW m \in Int, NEW n \in Int, m > 0, n > 0
    PROVE  m * n \in Int /\ m * n > 0
    OBVIOUS

\* Nothing is a fraction.
LEMMA ZeroFraction == Zero \in Fraction /\ Zero[1] = 0 /\ Zero[2] = 1
    BY FractionFrom DEF Zero

\* Sums of fractions are fractions.
LEMMA PlusFraction ==
    ASSUME NEW a \in Fraction, NEW b \in Fraction
    PROVE  Plus(a, b) \in Fraction
<1>1. a[1] \in Int /\ a[2] \in Int /\ a[2] > 0 /\ b[1] \in Int /\ b[2] \in Int /\ b[2] > 0
    BY FractionParts
<1>2. a[2] * b[2] \in Int /\ a[2] * b[2] > 0
    BY <1>1, PositiveProduct
<1>3. a[1] * b[2] + b[1] * a[2] \in Int
    BY <1>1
<1>4. QED
    BY <1>2, <1>3, FractionFrom DEF Plus

\* Fractions add up to a fraction.
LEMMA PlusAllType ==
    ASSUME NEW s, Len(s) \in Nat, \A i \in 1 .. Len(s) : s[i] \in Fraction
    PROVE  PlusAll(s) \in Fraction
<1> DEFINE P(f) == f = [i \in 0 .. Len(s) |-> IF i = 0 THEN Zero ELSE Plus(f[i - 1], s[i])]
           g == CHOOSE f : P(f)
           step == [i \in 1 .. Len(s) |-> [a \in Fraction |-> Plus(a, s[i])]]
<1>1. PlusAll(s) = g[Len(s)]
    BY DEF PlusAll
<1>2. Zero \in Fraction
    BY ZeroFraction
<1>3. \A i \in 1 .. Len(s), a \in Fraction : Plus(a, s[i]) \in Fraction
    BY PlusFraction
<1>4. step \in [1 .. Len(s) -> [Fraction -> Fraction]]
    BY <1>3
<1>5. PICK h \in [0 .. Len(s) -> Fraction] : Built(h, Zero, step, Len(s))
    <2> HIDE DEF step
    <2>1. QED
        BY <1>2, <1>4, BuiltUp, Zenon
<1>6. P(h)
    <2>1. h = [i \in 0 .. Len(s) |-> IF i = 0 THEN Zero ELSE step[i][h[i - 1]]]
        BY <1>5 DEF Built
    <2>2. ASSUME NEW i \in 0 .. Len(s), i # 0 PROVE step[i][h[i - 1]] = Plus(h[i - 1], s[i])
        <3>1. i \in 1 .. Len(s) /\ i - 1 \in 0 .. Len(s)
            BY <2>2
        <3>2. h[i - 1] \in Fraction
            BY <3>1
        <3>3. step[i] = [a \in Fraction |-> Plus(a, s[i])]
            BY <3>1
        <3>4. QED
            BY <3>2, <3>3
    <2> HIDE DEF step
    <2>3. QED
        BY <2>1, <2>2
<1>7. P(g)
    <2> HIDE DEF P
    <2>1. QED
        BY <1>6
<1>8. g[0] = Zero /\ \A i \in 1 .. Len(s) : g[i] = Plus(g[i - 1], s[i])
    <2> HIDE DEF g
    <2>1. 0 \in 0 .. Len(s) /\ \A i \in 1 .. Len(s) : i \in 0 .. Len(s) /\ i # 0
        OBVIOUS
    <2>2. \A i \in 0 .. Len(s) : g[i] = IF i = 0 THEN Zero ELSE Plus(g[i - 1], s[i])
        BY <1>7, Zenon
    <2>3. QED
        BY <2>1, <2>2, Zenon
<1> HIDE DEF P, g
<1>9. g[0] \in Fraction /\ \A i \in 1 .. Len(s) : g[i - 1] \in Fraction => g[i] \in Fraction
    BY <1>2, <1>3, <1>8
<1>10. \A i \in 0 .. Len(s) : g[i] \in Fraction
    BY <1>9, PlacesInduction, Zenon
<1>11. QED
    BY <1>1, <1>10

\* What is picked are elements of the places.
LEMMA PickedType ==
    ASSUME NEW T, NEW s, NEW places, Len(s) \in Nat,
           \A i \in 1 .. Len(s) : i \in places => s[i] \in T
    PROVE  Picked(s, places) \in Seq(T)
<1> DEFINE P(f) == f = [i \in 0 .. Len(s) |-> IF i = 0 THEN <<>> ELSE IF i \in places THEN Append(f[i - 1], s[i]) ELSE f[i - 1]]
           g == CHOOSE f : P(f)
           step == [i \in 1 .. Len(s) |-> [a \in Seq(T) |-> IF i \in places THEN Append(a, s[i]) ELSE a]]
<1>1. Picked(s, places) = g[Len(s)]
    BY DEF Picked
<1>2. <<>> \in Seq(T)
    OBVIOUS
<1>3. \A i \in 1 .. Len(s), a \in Seq(T) : (IF i \in places THEN Append(a, s[i]) ELSE a) \in Seq(T)
    OBVIOUS
<1>4. step \in [1 .. Len(s) -> [Seq(T) -> Seq(T)]]
    BY <1>3
<1>5. PICK h \in [0 .. Len(s) -> Seq(T)] : Built(h, <<>>, step, Len(s))
    <2> HIDE DEF step
    <2>1. QED
        BY <1>2, <1>4, BuiltUp, Zenon
<1>6. P(h)
    <2>1. h = [i \in 0 .. Len(s) |-> IF i = 0 THEN <<>> ELSE step[i][h[i - 1]]]
        BY <1>5 DEF Built
    <2>2. ASSUME NEW i \in 0 .. Len(s), i # 0 PROVE step[i][h[i - 1]] = IF i \in places THEN Append(h[i - 1], s[i]) ELSE h[i - 1]
        <3>1. i \in 1 .. Len(s) /\ i - 1 \in 0 .. Len(s)
            BY <2>2
        <3>2. h[i - 1] \in Seq(T)
            BY <3>1
        <3>3. step[i] = [a \in Seq(T) |-> IF i \in places THEN Append(a, s[i]) ELSE a]
            BY <3>1
        <3>4. QED
            BY <3>2, <3>3
    <2> HIDE DEF step
    <2>3. QED
        BY <2>1, <2>2
<1>7. P(g)
    <2> HIDE DEF P
    <2>1. QED
        BY <1>6
<1>8. g[0] = <<>> /\ \A i \in 1 .. Len(s) : g[i] = IF i \in places THEN Append(g[i - 1], s[i]) ELSE g[i - 1]
    <2> HIDE DEF g
    <2>1. 0 \in 0 .. Len(s) /\ \A i \in 1 .. Len(s) : i \in 0 .. Len(s) /\ i # 0
        OBVIOUS
    <2>2. \A i \in 0 .. Len(s) : g[i] = IF i = 0 THEN <<>> ELSE IF i \in places THEN Append(g[i - 1], s[i]) ELSE g[i - 1]
        BY <1>7, Zenon
    <2>3. QED
        BY <2>1, <2>2, Zenon
<1> HIDE DEF P, g
<1>9. g[0] \in Seq(T) /\ \A i \in 1 .. Len(s) : g[i - 1] \in Seq(T) => g[i] \in Seq(T)
    BY <1>2, <1>3, <1>8
<1>10. \A i \in 0 .. Len(s) : g[i] \in Seq(T)
    BY <1>9, PlacesInduction, Zenon
<1>11. QED
    BY <1>1, <1>10

\* Sequences are joined to a sequence.
LEMMA JoinedType ==
    ASSUME NEW T, NEW s, Len(s) \in Nat, \A i \in 1 .. Len(s) : s[i] \in Seq(T)
    PROVE  Joined(s) \in Seq(T)
<1> DEFINE P(f) == f = [i \in 0 .. Len(s) |-> IF i = 0 THEN <<>> ELSE f[i - 1] \o s[i]]
           g == CHOOSE f : P(f)
           step == [i \in 1 .. Len(s) |-> [a \in Seq(T) |-> a \o s[i]]]
<1>1. Joined(s) = g[Len(s)]
    BY DEF Joined
<1>2. <<>> \in Seq(T)
    OBVIOUS
<1>3. \A i \in 1 .. Len(s), a \in Seq(T) : a \o s[i] \in Seq(T)
    OBVIOUS
<1>4. step \in [1 .. Len(s) -> [Seq(T) -> Seq(T)]]
    BY <1>3
<1>5. PICK h \in [0 .. Len(s) -> Seq(T)] : Built(h, <<>>, step, Len(s))
    <2> HIDE DEF step
    <2>1. QED
        BY <1>2, <1>4, BuiltUp, Zenon
<1>6. P(h)
    <2>1. h = [i \in 0 .. Len(s) |-> IF i = 0 THEN <<>> ELSE step[i][h[i - 1]]]
        BY <1>5 DEF Built
    <2>2. ASSUME NEW i \in 0 .. Len(s), i # 0 PROVE step[i][h[i - 1]] = h[i - 1] \o s[i]
        <3>1. i \in 1 .. Len(s) /\ i - 1 \in 0 .. Len(s)
            BY <2>2
        <3>2. h[i - 1] \in Seq(T)
            BY <3>1
        <3>3. step[i] = [a \in Seq(T) |-> a \o s[i]]
            BY <3>1
        <3>4. QED
            BY <3>2, <3>3
    <2> HIDE DEF step
    <2>3. QED
        BY <2>1, <2>2
<1>7. P(g)
    <2> HIDE DEF P
    <2>1. QED
        BY <1>6
<1>8. g[0] = <<>> /\ \A i \in 1 .. Len(s) : g[i] = g[i - 1] \o s[i]
    <2> HIDE DEF g
    <2>1. 0 \in 0 .. Len(s) /\ \A i \in 1 .. Len(s) : i \in 0 .. Len(s) /\ i # 0
        OBVIOUS
    <2>2. \A i \in 0 .. Len(s) : g[i] = IF i = 0 THEN <<>> ELSE g[i - 1] \o s[i]
        BY <1>7, Zenon
    <2>3. QED
        BY <2>1, <2>2, Zenon
<1> HIDE DEF P, g
<1>9. g[0] \in Seq(T) /\ \A i \in 1 .. Len(s) : g[i - 1] \in Seq(T) => g[i] \in Seq(T)
    BY <1>2, <1>3, <1>8
<1>10. \A i \in 0 .. Len(s) : g[i] \in Seq(T)
    BY <1>9, PlacesInduction, Zenon
<1>11. QED
    BY <1>1, <1>10

-----------------------------------------------------------------------------
\* Sums of numbers.

\* A sum of numbers is a number, and one of natural numbers a natural number.
LEMMA AddedType ==
    ASSUME NEW s \in Seq(Int)
    PROVE  /\ Added(s) \in Int
           /\ (\A i \in 1 .. Len(s) : s[i] >= 0) => Added(s) \in Nat
<1>1. PICK f : Sums(f, s) /\ Added(s) = f[Len(s)]
    BY AddedSums
<1>2. Len(s) \in Nat /\ Len(s) \in 0 .. Len(s)
    OBVIOUS
<1>3. ASSUME \A i \in 1 .. Len(s) : s[i] >= 0 PROVE Added(s) \in Nat
    <2>1. f[0] \in Nat
        BY <1>1 DEF Sums
    <2>2. ASSUME NEW i \in 1 .. Len(s), f[i - 1] \in Nat PROVE f[i] \in Nat
        <3>1. s[i] >= 0 /\ s[i] \in Int /\ f[i] = f[i - 1] + s[i]
            BY <1>1, <1>3 DEF Sums
        <3>2. QED
            BY <2>2, <3>1
    <2>3. \A i \in 0 .. Len(s) : f[i] \in Nat
        BY <1>2, <2>1, <2>2, PlacesInduction
    <2>4. QED
        BY <1>1, <1>2, <2>3
<1>4. QED
    BY <1>1, <1>2, <1>3 DEF Sums

\* Sums are compared, and added, element by element.
LEMMA AddedPointwise ==
    ASSUME NEW s \in Seq(Int), NEW t \in Seq(Int), NEW u \in Seq(Int),
           Len(t) = Len(s), Len(u) = Len(s),
           \A i \in 1 .. Len(s) : s[i] + t[i] <= u[i]
    PROVE  Added(s) + Added(t) <= Added(u)
<1>1. PICK f : Sums(f, s) /\ Added(s) = f[Len(s)]
    BY AddedSums
<1>2. PICK g : Sums(g, t) /\ Added(t) = g[Len(t)]
    BY AddedSums
<1>3. PICK h : Sums(h, u) /\ Added(u) = h[Len(u)]
    BY AddedSums
<1> DEFINE d == [i \in 0 .. Len(s) |-> h[i] - (f[i] + g[i])]
<1>4. Len(s) \in Nat /\ Len(s) \in 0 .. Len(s) /\ 0 \in 0 .. Len(s)
    OBVIOUS
<1>5. d[0] \in Nat
    BY <1>1, <1>2, <1>3, <1>4 DEF Sums
<1>6. ASSUME NEW i \in 1 .. Len(s), d[i - 1] \in Nat PROVE d[i] \in Nat
    <2>1. i \in 0 .. Len(s) /\ i - 1 \in 0 .. Len(s)
        OBVIOUS
    <2>2. d[i] = h[i] - (f[i] + g[i]) /\ d[i - 1] = h[i - 1] - (f[i - 1] + g[i - 1])
        BY <2>1
    <2>3. s[i] \in Int /\ t[i] \in Int /\ u[i] \in Int /\ s[i] + t[i] <= u[i]
        OBVIOUS
    <2>4. /\ f[i] = f[i - 1] + s[i] /\ g[i] = g[i - 1] + t[i] /\ h[i] = h[i - 1] + u[i]
          /\ f[i - 1] \in Int /\ g[i - 1] \in Int /\ h[i - 1] \in Int
        BY <1>1, <1>2, <1>3, <2>1 DEF Sums
    <2> HIDE DEF d
    <2>5. d[i] = d[i - 1] + (u[i] - (s[i] + t[i]))
        <3> DEFINE F == f[i - 1]
                   G == g[i - 1]
                   H == h[i - 1]
                   x == s[i]
                   y == t[i]
                   z == u[i]
        <3>1. F \in Int /\ G \in Int /\ H \in Int /\ x \in Int /\ y \in Int /\ z \in Int
            BY <2>3, <2>4
        <3>2. d[i] = (H + z) - ((F + x) + (G + y)) /\ d[i - 1] = H - (F + G)
            BY <2>2, <2>4
        <3> HIDE DEF F, G, H, x, y, z
        <3>3. d[i] = d[i - 1] + (z - (x + y))
            BY <3>1, <3>2
        <3>4. QED
            BY <3>3 DEF x, y, z
    <2>6. u[i] - (s[i] + t[i]) \in Nat
        BY <2>3
    <2> DEFINE D == d[i - 1]
               E == u[i] - (s[i] + t[i])
    <2>7. D \in Nat /\ E \in Nat /\ d[i] = D + E
        BY <1>6, <2>5, <2>6
    <2> HIDE DEF D, E
    <2>8. QED
        BY <2>7
<1> HIDE DEF d
<1>7. \A i \in 0 .. Len(s) : d[i] \in Nat
    BY <1>4, <1>5, <1>6, PlacesInduction
<1>8. f[Len(s)] \in Int /\ g[Len(s)] \in Int /\ h[Len(s)] \in Int
    BY <1>1, <1>2, <1>3, <1>4 DEF Sums
<1>9. h[Len(s)] - (f[Len(s)] + g[Len(s)]) \in Nat
    BY <1>4, <1>7 DEF d
<1>10. QED
    BY <1>1, <1>2, <1>3, <1>8, <1>9

\* The squares of the distances to a number are not negative, nor is their sum.
LEMMA DistancesAdd ==
    ASSUME NEW s \in Seq(Int), NEW q \in Seq(Int), Len(q) = Len(s),
           \A i \in 1 .. Len(s) : q[i] = s[i] * s[i],
           NEW f, Sums(f, s), NEW g, Sums(g, q), NEW y \in Int
    PROVE  \A i \in 0 .. Len(s) : g[i] - 2 * (y * f[i]) + i * (y * y) \in Nat
<1> DEFINE d == [i \in 0 .. Len(s) |-> g[i] - 2 * (y * f[i]) + i * (y * y)]
<1>1. Len(s) \in Nat
    OBVIOUS
<1>2. d[0] \in Nat
    BY <1>1 DEF Sums
<1>3. ASSUME NEW i \in 1 .. Len(s), d[i - 1] \in Nat PROVE d[i] \in Nat
    <2>1. i \in 0 .. Len(s) /\ i - 1 \in 0 .. Len(s)
        OBVIOUS
    <2> DEFINE x == s[i]
               F == f[i - 1]
               G == g[i - 1]
               k == i - 1
    <2>2. x \in Int /\ F \in Int /\ G \in Int /\ k \in Int /\ i = k + 1
        BY <2>1 DEF Sums
    <2>3. d[i - 1] = G - 2 * (y * F) + k * (y * y)
        BY <2>1
    <2>4. f[i] = F + x /\ g[i] = G + x * x
        BY <2>1 DEF Sums
    <2>5. d[i] = (G + x * x) - 2 * (y * (F + x)) + (k + 1) * (y * y)
        BY <2>1, <2>2, <2>4
    <2>6. (x - y) * (x - y) >= 0
        <3>1. \A z \in Int : z * z >= 0
            OBVIOUS
        <3>2. x - y \in Int
            BY <2>2
        <3>3. QED
            BY <3>1, <3>2
    <2> HIDE DEF x, F, G, k, d
    <2>7. y * (F + x) = y * F + y * x /\ (k + 1) * (y * y) = k * (y * y) + y * y
        BY <2>2
    <2>8. (x - y) * (x - y) = x * x - 2 * (y * x) + y * y
        BY <2>2
    <2>9. d[i] = d[i - 1] + (x - y) * (x - y)
        BY <2>2, <2>3, <2>5, <2>7, <2>8
    <2>10. (x - y) * (x - y) \in Int
        BY <2>2
    <2>11. QED
        BY <1>3, <2>6, <2>9, <2>10
<1> HIDE DEF d
<1>4. \A i \in 0 .. Len(s) : d[i] \in Nat
    BY <1>1, <1>2, <1>3, PlacesInduction
<1>5. QED
    BY <1>4 DEF d

\* The number of elements times the sum of their squares is not less than the square
\* of their sum.
LEMMA SquaresBound ==
    ASSUME NEW s \in Seq(Int), NEW q \in Seq(Int), Len(q) = Len(s),
           \A i \in 1 .. Len(s) : q[i] = s[i] * s[i]
    PROVE  Len(s) * Added(q) - Added(s) * Added(s) \in Nat
<1>1. PICK f : Sums(f, s) /\ Added(s) = f[Len(s)]
    BY AddedSums
<1>2. PICK g : Sums(g, q) /\ Added(q) = g[Len(q)]
    BY AddedSums
<1> DEFINE d == [i \in 0 .. Len(s) |-> i * g[i] - f[i] * f[i]]
<1>3. Len(s) \in Nat /\ Len(s) \in 0 .. Len(s)
    OBVIOUS
<1>4. d[0] \in Nat
    BY <1>1, <1>2, <1>3 DEF Sums
<1>5. ASSUME NEW i \in 1 .. Len(s), d[i - 1] \in Nat PROVE d[i] \in Nat
    <2>1. i \in 0 .. Len(s) /\ i - 1 \in 0 .. Len(s)
        OBVIOUS
    <2> DEFINE x == s[i]
               F == f[i - 1]
               G == g[i - 1]
               k == i - 1
    <2>2. x \in Int /\ F \in Int /\ G \in Int /\ k \in Int /\ i = k + 1
        BY <1>1, <1>2, <2>1 DEF Sums
    <2>3. d[i - 1] = k * G - F * F
        BY <2>1
    <2>4. f[i] = F + x /\ g[i] = G + x * x
        BY <1>1, <1>2, <2>1 DEF Sums
    <2>5. d[i] = (k + 1) * (G + x * x) - (F + x) * (F + x)
        BY <2>1, <2>2, <2>4
    <2>6. G - 2 * (x * F) + k * (x * x) \in Nat
        BY <1>1, <1>2, <2>1, <2>2, DistancesAdd
    <2> HIDE DEF x, F, G, k, d
    <2>7. (k + 1) * (G + x * x) = k * G + k * (x * x) + G + x * x
        BY <2>2
    <2>8. (F + x) * (F + x) = F * F + 2 * (x * F) + x * x
        BY <2>2
    <2>9. d[i] = d[i - 1] + (G - 2 * (x * F) + k * (x * x))
        BY <2>2, <2>3, <2>5, <2>7, <2>8
    <2>10. QED
        BY <1>5, <2>6, <2>9
<1> HIDE DEF d
<1>6. \A i \in 0 .. Len(s) : d[i] \in Nat
    BY <1>3, <1>4, <1>5, PlacesInduction
<1>7. QED
    BY <1>1, <1>2, <1>3, <1>6 DEF d

-----------------------------------------------------------------------------
\* Orders.

\* Products with a positive factor.
LEMMA ScaledLess ==
    ASSUME NEW x \in Int, NEW y \in Int, NEW c \in Int, c > 0
    PROVE  x < y => x * c < y * c
    OBVIOUS

\* Fractions are ordered: no two are each less than the other, and of two that are
\* apart every third is apart from one.
LEMMA FractionOrder ==
    ASSUME NEW a \in Fraction, NEW b \in Fraction, NEW c \in Fraction
    PROVE  /\ ~(Less(a, b) /\ Less(b, a))
           /\ Same(a, b) <=> ~Less(a, b) /\ ~Less(b, a)
           /\ Less(a, c) => Less(a, b) \/ Less(b, c)
<1> DEFINE an == a[1]
           ad == a[2]
           bn == b[1]
           bd == b[2]
           cn == c[1]
           cd == c[2]
<1>1. /\ an \in Int /\ ad \in Int /\ ad > 0 /\ bn \in Int /\ bd \in Int /\ bd > 0
      /\ cn \in Int /\ cd \in Int /\ cd > 0
    BY FractionParts
<1>2. /\ Less(a, b) <=> an * bd < bn * ad
      /\ Less(b, a) <=> bn * ad < an * bd
      /\ Same(a, b) <=> an * bd = bn * ad
      /\ Less(a, c) <=> an * cd < cn * ad
      /\ Less(b, c) <=> bn * cd < cn * bd
    BY DEF Less, Same
<1> HIDE DEF an, ad, bn, bd, cn, cd
<1>3. an * bd \in Int /\ bn * ad \in Int /\ an * cd \in Int /\ cn * ad \in Int
      /\ bn * cd \in Int /\ cn * bd \in Int
    BY <1>1
<1>4. ASSUME an * cd < cn * ad, ~(an * bd < bn * ad), ~(bn * cd < cn * bd) PROVE FALSE
    <2>1. (an * cd) * bd < (cn * ad) * bd
        BY <1>1, <1>3, <1>4, ScaledLess
    <2>2. ~((an * bd) * cd < (bn * ad) * cd)
        <3>1. bn * ad <= an * bd
            BY <1>3, <1>4
        <3>2. (bn * ad) * cd < (an * bd) * cd \/ bn * ad = an * bd
            BY <1>1, <1>3, <3>1, ScaledLess
        <3>3. (bn * ad) * cd \in Int /\ (an * bd) * cd \in Int
            BY <1>1, <1>3
        <3>4. QED
            BY <3>2, <3>3
    <2>3. ~((bn * cd) * ad < (cn * bd) * ad)
        <3>1. cn * bd <= bn * cd
            BY <1>3, <1>4
        <3>2. (cn * bd) * ad < (bn * cd) * ad \/ cn * bd = bn * cd
            BY <1>1, <1>3, <3>1, ScaledLess
        <3>3. (bn * cd) * ad \in Int /\ (cn * bd) * ad \in Int
            BY <1>1, <1>3
        <3>4. QED
            BY <3>2, <3>3
    <2>4. /\ (an * cd) * bd = (an * bd) * cd /\ (bn * ad) * cd = (bn * cd) * ad
          /\ (cn * bd) * ad = (cn * ad) * bd
        BY <1>1
    <2>5. (an * cd) * bd \in Int /\ (cn * ad) * bd \in Int /\ (bn * ad) * cd \in Int
        BY <1>1, <1>3
    <2> DEFINE u == (an * cd) * bd
               v == (bn * ad) * cd
               w1 == (cn * ad) * bd
    <2>6. u < w1 /\ ~(u < v) /\ ~(v < w1) /\ u \in Int /\ v \in Int /\ w1 \in Int
        BY <2>1, <2>2, <2>3, <2>4, <2>5
    <2> HIDE DEF u, v, w1
    <2>7. QED
        BY <2>6
<1>5. QED
    BY <1>2, <1>3, <1>4

\* Who comes before whom, where ties are possible.
WeakOrder(B, P) ==
    /\ \A x, y \in P : <<x, y>> \in B => <<y, x>> \notin B
    /\ \A x, y, z \in P : <<x, z>> \in B => <<x, y>> \in B \/ <<y, z>> \in B

\* An order with its ties broken by another one.
Lexicographic(A, B, P) == {x \in P \X P : x \in A \/ (<<x[2], x[1]>> \notin A /\ x \in B)}

\* Breaking ties gives an order again.
LEMMA TiesBroken ==
    ASSUME NEW P, NEW A, NEW B, WeakOrder(A, P), WeakOrder(B, P)
    PROVE  WeakOrder(Lexicographic(A, B, P), P)
<1> DEFINE C == Lexicographic(A, B, P)
<1>1. \A x, y \in P : <<x, y>> \in C <=> <<x, y>> \in A \/ (<<y, x>> \notin A /\ <<x, y>> \in B)
    BY DEF Lexicographic
<1> HIDE DEF C
<1>2. \A x, y \in P : <<x, y>> \in C => <<y, x>> \notin C
    BY <1>1 DEF WeakOrder
<1>3. ASSUME NEW x \in P, NEW y \in P, NEW z \in P, <<x, z>> \in C
      PROVE  <<x, y>> \in C \/ <<y, z>> \in C
    BY <1>1, <1>3 DEF WeakOrder
<1>4. QED
    BY <1>2, <1>3 DEF WeakOrder, C

\* Numbers are an order without ties.
LEMMA NumbersOrder ==
    ASSUME NEW P, P \subseteq Int
    PROVE  WeakOrder({x \in P \X P : x[1] < x[2]}, P)
    BY DEF WeakOrder

\* The places ahead of one, where a tie is broken by the place.
Ahead(P, A, x) == {y \in P : <<y, x>> \in A \/ (<<x, y>> \notin A /\ y < x)}

\* With the ties of an order of places broken by the place, every rank is taken.
LEMMA RanksTaken ==
    ASSUME NEW P, IsFiniteSet(P), P \subseteq Int, NEW A, WeakOrder(A, P),
           NEW k \in 1 .. Cardinality(P)
    PROVE  \E x \in P : Cardinality(Ahead(P, A, x)) = k - 1
<1> DEFINE B == {x \in P \X P : x[1] < x[2]}
           C == Lexicographic(A, B, P)
           Below(x) == {y \in P : <<y, x>> \in C}
           n == Cardinality(P)
           rank == [x \in P |-> Cardinality(Below(x))]
<1>1. WeakOrder(C, P)
    BY NumbersOrder, TiesBroken
<1>2. \A x, y \in P : <<x, y>> \in C <=> <<x, y>> \in A \/ (<<y, x>> \notin A /\ x < y)
    BY DEF Lexicographic
<1>3. \A x, y \in P : x # y => <<x, y>> \in C \/ <<y, x>> \in C
    BY <1>2
<1> HIDE DEF C
<1>4. n \in Nat
    BY FS_CardinalityType
<1>5. \A x \in P : IsFiniteSet(Below(x)) /\ Cardinality(Below(x)) \in Nat
    <2> TAKE x \in P
    <2>1. Below(x) \in SUBSET P
        OBVIOUS
    <2> HIDE DEF Below
    <2>2. QED
        BY <2>1, FS_Subset, FS_CardinalityType
<1>6. ASSUME NEW x \in P PROVE Cardinality(Below(x)) < n
    <2>1. Below(x) \in SUBSET P /\ x \notin Below(x)
        BY <1>1 DEF WeakOrder
    <2> HIDE DEF Below
    <2>2. Cardinality(Below(x)) <= n /\ (n = Cardinality(Below(x)) => P = Below(x))
        BY <2>1, FS_Subset
    <2>3. QED
        BY <1>4, <1>5, <2>1, <2>2
<1>7. ASSUME NEW x \in P, NEW y \in P, <<x, y>> \in C PROVE Cardinality(Below(x)) < Cardinality(Below(y))
    <2>1. Below(x) \in SUBSET Below(y)
        BY <1>1, <1>3, <1>7 DEF WeakOrder
    <2>2. x \in Below(y) /\ x \notin Below(x)
        BY <1>1, <1>7 DEF WeakOrder
    <2> HIDE DEF Below
    <2>3. /\ Cardinality(Below(x)) <= Cardinality(Below(y))
          /\ Cardinality(Below(y)) = Cardinality(Below(x)) => Below(y) = Below(x)
        BY <1>5, <2>1, FS_Subset
    <2>4. QED
        BY <1>5, <2>2, <2>3
<1>8. rank \in Injection(P, 0 .. n - 1)
    <2>1. \A x \in P : Cardinality(Below(x)) \in 0 .. n - 1
        BY <1>4, <1>5, <1>6
    <2>2. rank \in [P -> 0 .. n - 1]
        BY <2>1
    <2>3. ASSUME NEW x \in P, NEW y \in P, x # y PROVE Cardinality(Below(x)) # Cardinality(Below(y))
        <3> HIDE DEF Below
        <3>1. Cardinality(Below(x)) < Cardinality(Below(y)) \/ Cardinality(Below(y)) < Cardinality(Below(x))
            BY <1>3, <1>7, <2>3
        <3>2. QED
            BY <1>5, <3>1
    <2>4. IsInjective(rank)
        BY <2>3 DEF IsInjective
    <2>5. QED
        BY <2>2, <2>4 DEF Injection
<1>9. IsFiniteSet(0 .. n - 1) /\ Cardinality(0 .. n - 1) = n
    <2>1. 0 \in Int /\ n - 1 \in Int
        BY <1>4
    <2>2. /\ IsFiniteSet(0 .. (n - 1))
          /\ Cardinality(0 .. (n - 1)) = IF 0 > n - 1 THEN 0 ELSE (n - 1) - 0 + 1
        BY <2>1, FS_Interval
    <2>3. QED
        BY <1>4, <2>2
<1>10. rank \in Surjection(P, 0 .. n - 1)
    <2> HIDE DEF rank, n
    <2>1. Cardinality(P) = Cardinality(0 .. n - 1) <=> rank \in Surjection(P, 0 .. n - 1)
        BY <1>8, <1>9, FS_Injection
    <2>2. QED
        BY <1>9, <2>1 DEF n
<1>11. k - 1 \in 0 .. n - 1
    BY <1>4
<1>12. PICK x \in P : rank[x] = k - 1
    <2> HIDE DEF rank
    <2>1. QED
        BY <1>10, <1>11 DEF Surjection
<1>13. Below(x) = Ahead(P, A, x)
    BY <1>2 DEF Ahead
<1>14. QED
    BY <1>12, <1>13

-----------------------------------------------------------------------------
\* What is computed from the samples of a PVC.

Sample == [age : Nat, used : Nat]

\* What is left of a volume that grows lasts for some time.
LEMMA RemainingType ==
    ASSUME NEW cap \in Nat, NEW used \in Nat, NEW g \in Fraction, Positive(g)
    PROVE  Remaining(cap, used, g) \in Fraction
<1>1. g[1] \in Int /\ g[1] > 0 /\ g[2] \in Int
    BY FractionParts DEF Positive
<1>2. CASE used >= cap
    BY <1>2, ZeroFraction DEF Remaining
<1>3. CASE ~(used >= cap)
    <2>1. (cap - used) * g[2] \in Int
        BY <1>1
    <2>2. <<(cap - used) * g[2], g[1]>> \in Fraction
        BY <1>1, <2>1, FractionFrom
    <2>3. QED
        BY <1>3, <2>2 DEF Remaining
<1>4. QED
    BY <1>2, <1>3

\* The regression gives fractions: its denominator is positive unless the samples are
\* of one moment.
LEMMA GrowthType ==
    ASSUME NEW s \in Seq(Sample), NEW cap \in Nat
    PROVE  /\ CalculateGrowth(s, cap).growth \in Fraction
           /\ CalculateGrowth(s, cap).r2 \in Fraction
           /\ Optional(CalculateGrowth(s, cap).days)
<1> DEFINE X == [i \in DOMAIN s |-> s[1].age - s[i].age]
           Y == [i \in DOMAIN s |-> s[i].used]
           XX == [i \in DOMAIN s |-> (s[1].age - s[i].age) * (s[1].age - s[i].age)]
           XY == [i \in DOMAIN s |-> (s[1].age - s[i].age) * s[i].used]
           YY == [i \in DOMAIN s |-> s[i].used * s[i].used]
           n == Len(s)
           denom == n * Added(XX) - Added(X) * Added(X)
           cov == n * Added(XY) - Added(X) * Added(Y)
           varY == n * Added(YY) - Added(Y) * Added(Y)
           slope == <<cov, denom>>
           r2 == IF varY > 0 THEN <<cov * cov, denom * varY>> ELSE Zero
           days == IF Positive(slope) /\ cap > 0 THEN Remaining(cap, s[n].used, slope) ELSE None
<1>1. CalculateGrowth(s, cap) =
        IF Undetermined(n, denom) THEN NoGrowth ELSE [growth |-> slope, r2 |-> r2, days |-> days]
    BY DEF CalculateGrowth, Total, Collect
<1>2. n \in Nat /\ DOMAIN s = 1 .. n /\ \A i \in 1 .. n : s[i].age \in Nat /\ s[i].used \in Nat
    <2>1. n \in Nat /\ DOMAIN s = 1 .. n /\ \A i \in 1 .. n : s[i] \in Sample
        OBVIOUS
    <2>2. QED
        BY <2>1 DEF Sample
<1>3. CASE Undetermined(n, denom)
    <2> HIDE DEF denom, slope, r2, days, n
    <2>1. CalculateGrowth(s, cap) = NoGrowth
        BY <1>1, <1>3
    <2>2. QED
        BY <2>1, ZeroFraction DEF NoGrowth, Optional
<1>4. CASE ~Undetermined(n, denom)
    <2>1. n >= 2 /\ denom # 0
        BY <1>2, <1>4 DEF Undetermined
    <2>2. s[1].age \in Nat /\ s[n].used \in Nat
        BY <1>2, <2>1
    <2>3. X \in Seq(Int) /\ Y \in Seq(Int) /\ XX \in Seq(Int) /\ XY \in Seq(Int) /\ YY \in Seq(Int)
        <3>1. \A i \in 1 .. n : /\ s[1].age - s[i].age \in Int
                                /\ s[i].used \in Int
                                /\ (s[1].age - s[i].age) * (s[1].age - s[i].age) \in Int
                                /\ (s[1].age - s[i].age) * s[i].used \in Int
                                /\ s[i].used * s[i].used \in Int
            BY <1>2, <2>2
        <3>2. X \in Seq(Int) /\ Y \in Seq(Int)
            BY <1>2, <3>1
        <3>3. XX \in Seq(Int)
            BY <1>2, <3>1
        <3>4. XY \in Seq(Int)
            BY <1>2, <3>1, SMTT(40)
        <3>5. YY \in Seq(Int)
            BY <1>2, <3>1
        <3>6. QED
            BY <3>2, <3>3, <3>4, <3>5
    <2>4. Len(X) = n /\ Len(XX) = n /\ \A i \in 1 .. n : XX[i] = X[i] * X[i]
        BY <1>2
    <2> HIDE DEF X, Y, XX, XY, YY
    <2>5. /\ Added(X) \in Int /\ Added(Y) \in Int /\ Added(XX) \in Int
          /\ Added(XY) \in Int /\ Added(YY) \in Int
        BY <2>3, AddedType
    <2>6. denom \in Nat /\ cov \in Int /\ varY \in Int
        <3>1. denom \in Nat
            BY <2>3, <2>4, SquaresBound
        <3>2. QED
            BY <1>2, <2>5, <3>1, SMTT(40)
    <2> HIDE DEF denom, cov, varY, n
    <2>7. denom \in Int /\ denom > 0
        BY <2>1, <2>6
    <2>8. slope \in Fraction
        BY <2>6, <2>7, FractionFrom
    <2>9. r2 \in Fraction
        <3>1. CASE varY > 0
            <4>1. denom * varY \in Int /\ denom * varY > 0 /\ cov * cov \in Int
                BY <2>6, <2>7, <3>1, PositiveProduct
            <4>2. QED
                BY <3>1, <4>1, FractionFrom
        <3>2. CASE ~(varY > 0)
            BY <3>2, ZeroFraction
        <3>3. QED
            BY <3>1, <3>2
    <2>10. Optional(days)
        <3> HIDE DEF slope
        <3>1. QED
            BY <2>2, <2>8, RemainingType DEF Optional
    <2> HIDE DEF slope, r2, days
    <2>11. CalculateGrowth(s, cap) = [growth |-> slope, r2 |-> r2, days |-> days]
        BY <1>1, <1>4
    <2>12. QED
        BY <2>8, <2>9, <2>10, <2>11
<1>5. QED
    BY <1>3, <1>4

\* The samples of a window are samples.
LEMMA WindowType ==
    ASSUME NEW s \in Seq(Sample), NEW age
    PROVE  samplesSince(s, age) \in Seq(Sample)
<1> DEFINE places == {i \in DOMAIN s : s[i].age <= age}
<1>1. samplesSince(s, age) = Picked(s, places)
    BY DEF samplesSince, Passing
<1>2. Len(s) \in Nat /\ \A i \in 1 .. Len(s) : i \in places => s[i] \in Sample
    OBVIOUS
<1> HIDE DEF places
<1>3. QED
    BY <1>1, <1>2, PickedType

\* The trend of a volume.
LEMMA TrendType ==
    ASSUME NEW v \in Volume
    PROVE  /\ Trend(v).all.growth \in Fraction /\ Trend(v).all.r2 \in Fraction
           /\ Optional(Trend(v).all.days) /\ Trend(v).weekly \in Fraction
<1>1. v.samples \in Seq(Sample) /\ v.cap \in Nat
    BY DEF Volume, Sample
<1> DEFINE all == CalculateGrowth(v.samples, v.cap)
           week == samplesSince(v.samples, TrendWindow)
           weekly == IF Len(week) < 2 THEN all ELSE CalculateGrowth(week, v.cap)
<1>2. Trend(v).all = all /\ Trend(v).weekly = weekly.growth
    BY DEF Trend
<1>3. all.growth \in Fraction /\ all.r2 \in Fraction /\ Optional(all.days)
    BY <1>1, GrowthType
<1>4. week \in Seq(Sample)
    BY <1>1, WindowType
<1> HIDE DEF week
<1>5. CalculateGrowth(week, v.cap).growth \in Fraction
    BY <1>1, <1>4, GrowthType
<1> HIDE DEF all
<1>6. QED
    BY <1>2, <1>3, <1>5

-----------------------------------------------------------------------------
\* What a round computes from the PVCs.

\* What the status has of a PVC and of a risk.
Item == [pvc : PVCs, cap : Nat, used : Nat, ratio : Fraction, growth : Fraction, r2 : Fraction,
         days : Fraction \cup {None}, alert : BOOLEAN]
Risk == [pvc : PVCs, used : Nat, cap : Nat, weekly : Fraction, at : Fraction \cup {None},
         alert : BOOLEAN, wide : BOOLEAN]

\* The volumes that the PVCs may have.
Held == Volumes \cup {Start[p] : p \in PVCs}
VolumesInv == vol \in [PVCs -> Held \cup {None}]

\* A PVC that is there has a volume, whose trend is known.
LEMMA HeldType ==
    ASSUME VolumesInv, NEW p \in PVCs, vol[p] # None
    PROVE  vol[p] \in Volume /\ Trends[vol[p]] = Trend(vol[p])
<1>1. vol[p] \in Held
    BY DEF VolumesInv
<1>2. vol[p] \in Volume
    BY <1>1, VolumesAssumption DEF Held
<1>3. QED
    BY <1>1, <1>2 DEF Trends, Held

\* The PVCs that are listed are there.
LEMMA ListedType ==
    ASSUME NEW namespaces \in Seq(STRING)
    PROVE  listScopedPVCs(namespaces) \in Seq({p \in PVCs : vol[p] # None})
<1> DEFINE all == [p \in PVCs |-> p]
           There == {p \in PVCs : vol[p] # None}
           Places(S) == {p \in PVCs : vol[p] # None /\ Namespace[p] \in S}
           per == [i \in DOMAIN namespaces |-> Picked(all, Places({namespaces[i]}))]
<1>1. Len(Namespace) \in Nat /\ PVCs = 1 .. Len(Namespace)
    BY NamespaceAssumption DEF PVCs
<1>2. Len(all) = Len(Namespace)
    BY <1>1
<1>3. ASSUME NEW S PROVE Picked(all, Places(S)) \in Seq(There)
    <2>1. Len(all) \in Nat /\ \A i \in 1 .. Len(all) : i \in Places(S) => all[i] \in There
        BY <1>1, <1>2
    <2> HIDE DEF all, Places, There
    <2>2. QED
        BY <2>1, PickedType
<1>4. Len(per) \in Nat /\ \A i \in 1 .. Len(per) : per[i] \in Seq(There)
    <2> HIDE DEF all, Places, There
    <2>1. QED
        BY <1>3
<1>5. listScopedPVCs(namespaces) =
        IF namespaces = <<>> THEN Picked(all, Places({Namespace[p] : p \in PVCs})) ELSE Joined(per)
    BY DEF listScopedPVCs
<1> HIDE DEF all, Places, There, per
<1>6. Joined(per) \in Seq(There)
    BY <1>4, JoinedType
<1>7. listScopedPVCs(namespaces) \in Seq(There)
    BY <1>3, <1>5, <1>6
<1>8. QED
    BY <1>7 DEF There

\* What the last report said of the use of a PVC is a number.
LEMMA PrevUsedType ==
    ASSUME NEW st, st.pvcs \in Seq(Item), NEW p
    PROVE  PrevUsed(st, p) \in Nat
<1> DEFINE places == {i \in DOMAIN st.pvcs : st.pvcs[i].pvc = p}
           mine == Picked(st.pvcs, places)
<1>1. PrevUsed(st, p) = IF mine = <<>> THEN 0 ELSE mine[Len(mine)].used
    BY DEF PrevUsed, Passing, Last
<1>2. Len(st.pvcs) \in Nat /\ \A i \in 1 .. Len(st.pvcs) : i \in places => st.pvcs[i] \in Item
    OBVIOUS
<1> HIDE DEF places
<1>3. mine \in Seq(Item)
    BY <1>2, PickedType
<1> HIDE DEF mine
<1>4. mine # <<>> => mine[Len(mine)] \in Item
    BY <1>3
<1>5. QED
    BY <1>1, <1>4 DEF Item

\* The thresholds of a plan are fractions, that of the usage from 0 to 1.
LEMMA ThresholdsType ==
    ASSUME NEW spec \in Specs
    PROVE  /\ Thresholds(spec).usage \in Fraction /\ Thresholds(spec).days \in Fraction
           /\ Thresholds(spec).usage[1] \in 0 .. Thresholds(spec).usage[2]
<1>1. /\ spec.usage = None \/ (spec.usage \in Fraction /\ spec.usage[1] \in 0 .. spec.usage[2])
      /\ spec.days \in Nat
    BY SpecsAssumption
<1>2. <<17, 20>> \in Fraction /\ <<17, 20>>[1] = 17 /\ <<17, 20>>[2] = 20
    BY FractionFrom
<1>3. <<7, 1>> \in Fraction /\ <<spec.days, 1>> \in Fraction
    BY <1>1, FractionFrom
<1>4. /\ Thresholds(spec).usage = IF spec.usage = None THEN <<17, 20>> ELSE spec.usage
      /\ Thresholds(spec).days = IF spec.days = 0 THEN <<7, 1>> ELSE <<spec.days, 1>>
    BY DEF Thresholds
<1>5. Thresholds(spec).usage \in Fraction /\ Thresholds(spec).days \in Fraction
    BY <1>1, <1>2, <1>3, <1>4
<1>6. CASE spec.usage = None
    BY <1>2, <1>4, <1>5, <1>6
<1>7. CASE spec.usage # None
    BY <1>1, <1>4, <1>5, <1>7
<1>8. QED
    BY <1>5, <1>6, <1>7

\* When a PVC alerts.
Alerts(s, thr) == ~Less(s.ratio, thr.usage) \/ (s.days # None /\ Less(s.days, thr.days))

\* The summary of a PVC.
LEMMA SummaryType ==
    ASSUME NEW p \in PVCs, NEW v \in Volume, NEW thr, NEW prevUsed \in Nat
    PROVE  /\ buildSummary(p, v, Trend(v).all, thr, prevUsed) \in Item
           /\ buildSummary(p, v, Trend(v).all, thr, prevUsed).pvc = p
           /\ buildSummary(p, v, Trend(v).all, thr, prevUsed).cap = v.cap
           /\ LET s == buildSummary(p, v, Trend(v).all, thr, prevUsed)
              IN  s.alert <=> Alerts(s, thr)
<1> DEFINE g == Trend(v).all
           used == IF v.samples = <<>> THEN prevUsed ELSE v.samples[Len(v.samples)].used
           ratio == IF v.cap > 0 THEN <<used, v.cap>> ELSE Zero
           alert == ~Less(ratio, thr.usage) \/ (g.days # None /\ Less(g.days, thr.days))
           s == [pvc |-> p, cap |-> v.cap, used |-> used, ratio |-> ratio,
                 growth |-> g.growth, r2 |-> g.r2, days |-> g.days, alert |-> alert]
<1>1. buildSummary(p, v, g, thr, prevUsed) = s
    BY DEF buildSummary, Last
<1>2. v.cap \in Nat /\ v.samples \in Seq(Sample)
    BY DEF Volume, Sample
<1>3. used \in Nat
    <2>1. v.samples # <<>> => v.samples[Len(v.samples)] \in Sample
        BY <1>2
    <2>2. QED
        BY <2>1 DEF Sample
<1> HIDE DEF used
<1>4. ratio \in Fraction
    BY <1>2, <1>3, FractionFrom, ZeroFraction
<1>5. g.growth \in Fraction /\ g.r2 \in Fraction /\ g.days \in Fraction \cup {None}
    BY TrendType DEF Optional
<1>6. alert \in BOOLEAN
    BY DEF Less
<1>7. s.ratio = ratio /\ s.days = g.days /\ s.alert = alert /\ s.pvc = p /\ s.cap = v.cap
    OBVIOUS
<1>8. s.alert <=> Alerts(s, thr)
    BY <1>7 DEF Alerts
<1> HIDE DEF ratio, g, alert
<1>9. s \in Item
    BY <1>2, <1>3, <1>4, <1>5, <1>6 DEF Item
<1> HIDE DEF s
<1>10. QED
    BY <1>1, <1>7, <1>8, <1>9 DEF g

\* The summaries of a round: they are about PVCs that are there, two of one PVC (whose
\* namespace is listed twice) are the same, and they alert by the thresholds.
ItemsOK(items, thr) ==
    /\ items \in Seq(Item)
    /\ \A i \in DOMAIN items : /\ vol[items[i].pvc] # None
                               /\ items[i].cap = vol[items[i].pvc].cap
                               /\ items[i].alert <=> Alerts(items[i], thr)
    /\ \A i, j \in DOMAIN items : items[i].pvc = items[j].pvc => items[i] = items[j]

\* A round of a plan whose last report is one has such summaries.
LEMMA ItemsType ==
    ASSUME VolumesInv, NEW spec \in Specs, NEW st, st.pvcs \in Seq(Item)
    PROVE  ItemsOK(Summaries(listScopedPVCs(spec.namespaces), spec, st), Thresholds(spec))
<1> DEFINE There == {p \in PVCs : vol[p] # None}
           listed == listScopedPVCs(spec.namespaces)
           thr == Thresholds(spec)
           sum(p) == buildSummary(p, vol[p], Trends[vol[p]].all, thr, PrevUsed(st, p))
           items == Summaries(listed, spec, st)
<1>1. listed \in Seq(There)
    BY ListedType, SpecsAssumption
<1>2. ASSUME NEW p \in There
      PROVE  /\ sum(p) \in Item /\ sum(p).pvc = p /\ sum(p).cap = vol[p].cap
             /\ sum(p).alert <=> Alerts(sum(p), thr)
    <2>1. p \in PVCs /\ vol[p] \in Volume /\ Trends[vol[p]] = Trend(vol[p])
        BY HeldType
    <2>2. PrevUsed(st, p) \in Nat
        BY PrevUsedType
    <2>3. sum(p) = buildSummary(p, vol[p], Trend(vol[p]).all, thr, PrevUsed(st, p))
        BY <2>1
    <2> HIDE DEF sum, thr
    <2>4. QED
        BY <2>1, <2>2, <2>3, SummaryType
<1>3. DOMAIN items = DOMAIN listed /\ \A i \in DOMAIN listed : items[i] = sum(listed[i])
    BY DEF Summaries, Collect
<1>4. items = [i \in DOMAIN listed |-> sum(listed[i])]
    BY DEF Summaries, Collect
<1> HIDE DEF sum, listed, thr, items
<1>5. \A i \in DOMAIN listed : listed[i] \in There /\ DOMAIN listed = 1 .. Len(listed) /\ Len(listed) \in Nat
    BY <1>1
<1>6. items \in Seq(Item)
    BY <1>1, <1>2, <1>4, <1>5
<1>7. ASSUME NEW i \in DOMAIN items
      PROVE  /\ items[i].pvc = listed[i] /\ vol[items[i].pvc] # None
             /\ items[i].cap = vol[items[i].pvc].cap
             /\ items[i].alert <=> Alerts(items[i], thr)
    BY <1>2, <1>3, <1>5
<1>8. \A i, j \in DOMAIN items : items[i].pvc = items[j].pvc => items[i] = items[j]
    BY <1>3, <1>7
<1>9. QED
    BY <1>6, <1>7, <1>8 DEF ItemsOK, items, listed, thr

\* A signal, and how its date follows from its growth.
SignalOK(s) ==
    /\ s.pvc \in PVCs /\ s.used \in Nat /\ s.cap \in Nat /\ s.alert \in BOOLEAN
    /\ s.weekly \in Fraction /\ s.days \in Fraction \cup {None} /\ s.at \in Fraction \cup {None}
    /\ s.days # None => Positive(s.weekly) /\ s.days = Remaining(s.cap, s.used, s.weekly)
    /\ s.at # None => s.days # None /\ (~Less(<<MaxDuration, 1>>, s.days) => s.at = s.days)

\* The signal of a PVC.
LEMMA SignalType ==
    ASSUME NEW s \in Item, NEW t, t.weekly \in Fraction, NEW wr \in Wraps
    PROVE  /\ SignalOK(buildPVCRiskSignal(s, t, wr))
           /\ buildPVCRiskSignal(s, t, wr).pvc = s.pvc
<1> DEFINE full == projectedFullFromGrowth(s.used, s.cap, t.weekly, wr)
           r == buildPVCRiskSignal(s, t, wr)
           d == Remaining(s.cap, s.used, t.weekly)
<1>1. /\ r.pvc = s.pvc /\ r.used = s.used /\ r.cap = s.cap /\ r.alert = s.alert
      /\ r.weekly = t.weekly /\ r.days = full.days /\ r.at = full.at
    BY DEF buildPVCRiskSignal
<1>2. s.pvc \in PVCs /\ s.used \in Nat /\ s.cap \in Nat /\ s.alert \in BOOLEAN
    BY DEF Item
<1>3. CASE ~Positive(t.weekly) \/ s.cap <= 0
    <2>1. full.days = None /\ full.at = None
        BY <1>3 DEF projectedFullFromGrowth
    <2> HIDE DEF full, r
    <2>2. QED
        BY <1>1, <1>2, <2>1 DEF SignalOK, r
<1>4. CASE ~(~Positive(t.weekly) \/ s.cap <= 0)
    <2>1. Positive(t.weekly) /\ d \in Fraction
        BY <1>2, <1>4, RemainingType
    <2>2. full.days = d /\ full.at = DateAfter(d, wr)
        BY <1>4 DEF projectedFullFromGrowth
    <2>3. wr \in Int
        BY WindowsAssumption
    <2>4. /\ DateAfter(d, wr) \in Fraction
          /\ ~Less(<<MaxDuration, 1>>, d) => DateAfter(d, wr) = d
        BY <2>1, <2>3, FractionFrom DEF DateAfter
    <2>5. r.days = Remaining(r.cap, r.used, r.weekly)
        BY <1>1, <2>2
    <2> HIDE DEF full, r, d
    <2>6. SignalOK(r)
        BY <1>1, <1>2, <2>1, <2>2, <2>4, <2>5, NoneAssumption DEF SignalOK
    <2>7. QED
        BY <1>1, <2>6 DEF r
<1>5. QED
    BY <1>3, <1>4

\* The signals of a round.
LEMMA SignalsType ==
    ASSUME VolumesInv, wrapped \in Wraps, NEW items, NEW thr, ItemsOK(items, thr)
    PROVE  /\ Signals(items) = [i \in 1 .. Len(items) |-> Signals(items)[i]]
           /\ Len(Signals(items)) = Len(items) /\ DOMAIN Signals(items) = 1 .. Len(items)
           /\ \A i \in 1 .. Len(items) : /\ SignalOK(Signals(items)[i])
                                         /\ Signals(items)[i].pvc = items[i].pvc
<1> DEFINE sig(s) == buildPVCRiskSignal(s, Trends[vol[s.pvc]], wrapped)
<1>1. items \in Seq(Item) /\ \A i \in DOMAIN items : items[i] \in Item /\ vol[items[i].pvc] # None
    BY DEF ItemsOK
<1>2. Signals(items) = [i \in DOMAIN items |-> sig(items[i])]
    BY DEF Signals, Collect
<1>3. Len(items) \in Nat /\ DOMAIN items = 1 .. Len(items)
    BY <1>1
<1>4. ASSUME NEW i \in DOMAIN items
      PROVE  SignalOK(sig(items[i])) /\ sig(items[i]).pvc = items[i].pvc
    <2>1. items[i].pvc \in PVCs /\ items[i] \in Item
        BY <1>1 DEF Item
    <2>2. vol[items[i].pvc] \in Volume /\ Trends[vol[items[i].pvc]] = Trend(vol[items[i].pvc])
        BY <1>1, <2>1, HeldType
    <2>3. Trends[vol[items[i].pvc]].weekly \in Fraction
        BY <2>2, TrendType
    <2>4. QED
        BY <2>1, <2>3, SignalType
<1> HIDE DEF sig
<1>5. Signals(items) = [i \in 1 .. Len(items) |-> sig(items[i])]
    BY <1>2, <1>3
<1>6. QED
    BY <1>3, <1>4, <1>5

\* The one of two places whose days come sooner; those without come last.
SoonerDays(s, i, j) == s[i].days # None /\ (s[j].days = None \/ Less(s[i].days, s[j].days))

\* The days order the places.
LEMMA DaysOrder ==
    ASSUME NEW P, NEW s, \A i \in P : s[i].days \in Fraction \cup {None}
    PROVE  WeakOrder({x \in P \X P : SoonerDays(s, x[1], x[2])}, P)
<1> DEFINE D == {x \in P \X P : SoonerDays(s, x[1], x[2])}
<1>1. \A i, j \in P : <<i, j>> \in D <=> SoonerDays(s, i, j)
    OBVIOUS
<1> HIDE DEF D
<1>2. ASSUME NEW i \in P, NEW j \in P, <<i, j>> \in D PROVE <<j, i>> \notin D
    <2>1. SoonerDays(s, i, j)
        BY <1>1, <1>2
    <2>2. SUFFICES ASSUME SoonerDays(s, j, i) PROVE FALSE
        BY <1>1
    <2>3. s[i].days \in Fraction /\ s[j].days \in Fraction
        BY <2>1, <2>2 DEF SoonerDays
    <2>4. Less(s[i].days, s[j].days) /\ Less(s[j].days, s[i].days)
        BY <2>1, <2>2 DEF SoonerDays
    <2>5. QED
        BY <2>3, <2>4, FractionOrder
<1>3. ASSUME NEW i \in P, NEW j \in P, NEW k \in P, <<i, k>> \in D
      PROVE  <<i, j>> \in D \/ <<j, k>> \in D
    <2>1. s[i].days \in Fraction /\ s[i].days # None
        BY <1>1, <1>3 DEF SoonerDays
    <2>2. CASE s[j].days = None
        BY <1>1, <2>1, <2>2 DEF SoonerDays
    <2>3. CASE s[j].days # None
        <3>1. s[j].days \in Fraction
            BY <2>3
        <3>2. CASE s[k].days = None
            BY <1>1, <2>3, <3>2 DEF SoonerDays
        <3>3. CASE s[k].days # None
            <4>1. s[k].days \in Fraction /\ Less(s[i].days, s[k].days)
                BY <1>1, <1>3, <3>3 DEF SoonerDays
            <4>2. Less(s[i].days, s[j].days) \/ Less(s[j].days, s[k].days)
                BY <2>1, <3>1, <4>1, FractionOrder
            <4>3. QED
                BY <1>1, <2>1, <2>3, <4>2 DEF SoonerDays
        <3>4. QED
            BY <3>2, <3>3
    <2>4. QED
        BY <2>2, <2>3
<1>4. QED
    BY <1>2, <1>3 DEF WeakOrder, D

\* Fractions that belong to places order the places, upwards and downwards.
LEMMA FractionsOrder ==
    ASSUME NEW P, NEW v, \A i \in P : v[i] \in Fraction
    PROVE  /\ WeakOrder({x \in P \X P : Less(v[x[1]], v[x[2]])}, P)
           /\ WeakOrder({x \in P \X P : Less(v[x[2]], v[x[1]])}, P)
<1> DEFINE U == {x \in P \X P : Less(v[x[1]], v[x[2]])}
           D == {x \in P \X P : Less(v[x[2]], v[x[1]])}
<1>1. \A i, j \in P : (<<i, j>> \in U <=> Less(v[i], v[j])) /\ (<<i, j>> \in D <=> Less(v[j], v[i]))
    OBVIOUS
<1>2. \A i, j, k \in P : /\ ~(Less(v[i], v[j]) /\ Less(v[j], v[i]))
                         /\ Less(v[i], v[k]) => Less(v[i], v[j]) \/ Less(v[j], v[k])
    BY FractionOrder
<1> HIDE DEF U, D
<1>3. WeakOrder(U, P) /\ WeakOrder(D, P)
    BY <1>1, <1>2 DEF WeakOrder
<1>4. QED
    BY <1>3 DEF U, D

\* The numbers of the PVCs order the places.
LEMMA NamesOrder ==
    ASSUME NEW P, NEW s, \A i \in P : s[i].pvc \in Int
    PROVE  WeakOrder({x \in P \X P : s[x[1]].pvc < s[x[2]].pvc}, P)
<1> DEFINE N == {x \in P \X P : s[x[1]].pvc < s[x[2]].pvc}
<1>1. \A i, j \in P : <<i, j>> \in N <=> s[i].pvc < s[j].pvc
    OBVIOUS
<1> HIDE DEF N
<1>2. WeakOrder(N, P)
    BY <1>1 DEF WeakOrder
<1>3. QED
    BY <1>2 DEF N

\* The top risks are signals that grow, as many as there are places at the most.
LEMMA TopRisksFrom ==
    ASSUME NEW s, NEW len \in Nat, DOMAIN s = 1 .. len, \A i \in 1 .. len : SignalOK(s[i])
    PROVE  \E m \in Nat : /\ m <= TopN
                          /\ buildTopRisks(s) = [k \in 1 .. m |-> buildTopRisks(s)[k]]
                          /\ \A k \in 1 .. m : \E i \in 1 .. len :
                               buildTopRisks(s)[k] = s[i] /\ Positive(s[i].weekly)
<1> DEFINE P == {i \in DOMAIN s : Positive(s[i].weekly)}
           later(a, b) == b.days # None /\ (a.days = None \/ Less(b.days, a.days))
           before(a, b) == \/ Less(b.weekly, a.weekly)
                           \/ /\ Same(a.weekly, b.weekly)
                              /\ later(b, a) \/ (~later(a, b) /\ a.pvc < b.pvc)
           ahead(i, j) == before(s[i], s[j]) \/ (~before(s[j], s[i]) /\ i < j)
           nth(k) == CHOOSE i \in P : Cardinality({j \in P : ahead(j, i)}) = k - 1
           n == Cardinality(P)
           m == IF n < TopN THEN n ELSE TopN
<1>1. buildTopRisks(s) = [k \in 1 .. m |-> s[nth(k)]]
    BY DEF buildTopRisks, First
<1>2. P \subseteq 1 .. len /\ IsFiniteSet(P) /\ n \in Nat
    <2>1. P \in SUBSET (1 .. len) /\ IsFiniteSet(1 .. len)
        BY FS_Interval
    <2> HIDE DEF P
    <2>2. QED
        BY <2>1, FS_Subset, FS_CardinalityType
<1>3. m \in Nat /\ m <= TopN /\ m <= n
    BY <1>2, WindowsAssumption
<1>4. /\ \A i \in P : s[i].weekly \in Fraction /\ s[i].days \in Fraction \cup {None} /\ s[i].pvc \in Int
      /\ \A i \in P : Positive(s[i].weekly) /\ i \in 1 .. len
    BY <1>2, NamespaceAssumption DEF SignalOK, PVCs
<1> DEFINE v == [i \in P |-> s[i].weekly]
           W == {x \in P \X P : Less(v[x[2]], v[x[1]])}
           D == {x \in P \X P : SoonerDays(s, x[1], x[2])}
           N == {x \in P \X P : s[x[1]].pvc < s[x[2]].pvc}
           E == Lexicographic(D, N, P)
           A == Lexicographic(W, E, P)
<1> HIDE DEF P
<1>5. WeakOrder(A, P)
    <2>1. WeakOrder(W, P)
        <3>1. \A i \in P : v[i] \in Fraction
            BY <1>4
        <3> HIDE DEF v
        <3>2. QED
            BY <3>1, FractionsOrder
    <2>2. WeakOrder(D, P)
        BY <1>4, DaysOrder
    <2>3. WeakOrder(N, P)
        BY <1>4, NamesOrder
    <2> HIDE DEF W, D, N
    <2>4. QED
        BY <2>1, <2>2, <2>3, TiesBroken
<1>6. ASSUME NEW i \in P, NEW j \in P PROVE <<i, j>> \in A <=> before(s[i], s[j])
    <2>1. /\ <<i, j>> \in W <=> Less(s[j].weekly, s[i].weekly)
          /\ <<j, i>> \in W <=> Less(s[i].weekly, s[j].weekly)
        OBVIOUS
    <2>2. (<<i, j>> \in D <=> later(s[j], s[i])) /\ (<<j, i>> \in D <=> later(s[i], s[j]))
        BY DEF SoonerDays
    <2>3. <<i, j>> \in N <=> s[i].pvc < s[j].pvc
        OBVIOUS
    <2> HIDE DEF W, D, N, later
    <2>4. <<i, j>> \in E <=> <<i, j>> \in D \/ (<<j, i>> \notin D /\ <<i, j>> \in N)
        BY DEF Lexicographic
    <2> HIDE DEF E
    <2>5. <<i, j>> \in A <=> <<i, j>> \in W \/ (<<j, i>> \notin W /\ <<i, j>> \in E)
        BY DEF Lexicographic
    <2> HIDE DEF A
    <2>6. Same(s[i].weekly, s[j].weekly) <=> ~Less(s[i].weekly, s[j].weekly) /\ ~Less(s[j].weekly, s[i].weekly)
        BY <1>4, FractionOrder
    <2>7. QED
        BY <2>1, <2>2, <2>3, <2>4, <2>5, <2>6
<1> HIDE DEF A, before
<1>7. ASSUME NEW k \in 1 .. m PROVE nth(k) \in P
    <2>1. k \in 1 .. n
        BY <1>2, <1>3
    <2>2. PICK x \in P : Cardinality(Ahead(P, A, x)) = k - 1
        <3>1. P \subseteq Int
            BY <1>2
        <3>2. QED
            BY <1>2, <1>5, <2>1, <3>1, RanksTaken, Zenon
    <2>3. Ahead(P, A, x) = {j \in P : ahead(j, x)}
        BY <1>6 DEF Ahead
    <2> HIDE DEF ahead
    <2>4. Cardinality({j \in P : ahead(j, x)}) = k - 1
        BY <2>2, <2>3
    <2>5. QED
        BY <2>4
<1> HIDE DEF nth, m
<1>8. \A k \in 1 .. m : buildTopRisks(s)[k] = s[nth(k)] /\ nth(k) \in 1 .. len /\ Positive(s[nth(k)].weekly)
    BY <1>1, <1>4, <1>7
<1>9. buildTopRisks(s) = [k \in 1 .. m |-> buildTopRisks(s)[k]]
    BY <1>1
<1>10. QED
    BY <1>3, <1>8, <1>9

\* The PVC that is used most is first on the list by usage.
LEMMA FirstByUsage ==
    ASSUME NEW s \in Seq(Item), NEW i \in DOMAIN s
    PROVE  \E j \in DOMAIN s : /\ s[j] \in ToSet(buildStatusSummary(s).topByUsage)
                               /\ ~Less(s[j].ratio, s[i].ratio)
<1> DEFINE P == {a \in DOMAIN s : TRUE}
           before(a, b) == Less(b.ratio, a.ratio) \/ (Same(a.ratio, b.ratio) /\ a.pvc < b.pvc)
           ahead(a, b) == before(s[a], s[b]) \/ (~before(s[b], s[a]) /\ a < b)
           nth(k) == CHOOSE a \in P : Cardinality({b \in P : ahead(b, a)}) = k - 1
           n == Cardinality(P)
           m == IF n < TopN THEN n ELSE TopN
           list == [k \in 1 .. m |-> s[nth(k)]]
<1>1. buildStatusSummary(s).topByUsage = list
    BY DEF buildStatusSummary, First, Higher
<1>2. P \subseteq Int /\ IsFiniteSet(P) /\ n \in Nat /\ i \in P
    <2>1. P \in SUBSET (1 .. Len(s)) /\ IsFiniteSet(1 .. Len(s)) /\ i \in P /\ Len(s) \in Nat
        BY FS_Interval
    <2> HIDE DEF P
    <2>2. IsFiniteSet(P)
        BY <2>1, FS_Subset
    <2>3. QED
        BY <2>1, <2>2, FS_CardinalityType
<1>3. \A a \in P : a \in DOMAIN s /\ s[a].ratio \in Fraction /\ s[a].pvc \in Int
    <2>1. \A a \in P : a \in DOMAIN s /\ s[a] \in Item
        OBVIOUS
    <2>2. QED
        BY <2>1, NamespaceAssumption, SMTT(40) DEF Item, PVCs
<1> HIDE DEF P
<1>4. 1 \in 1 .. n /\ 1 \in 1 .. m
    BY <1>2, FS_EmptySet, WindowsAssumption
<1> DEFINE v == [a \in P |-> s[a].ratio]
           W == {x \in P \X P : Less(v[x[2]], v[x[1]])}
           N == {x \in P \X P : s[x[1]].pvc < s[x[2]].pvc}
           A == Lexicographic(W, N, P)
<1>5. WeakOrder(A, P)
    <2>1. WeakOrder(W, P)
        <3>1. \A a \in P : v[a] \in Fraction
            BY <1>3
        <3> HIDE DEF v
        <3>2. QED
            BY <3>1, FractionsOrder
    <2>2. WeakOrder(N, P)
        BY <1>3, NamesOrder
    <2> HIDE DEF W, N
    <2>3. QED
        BY <2>1, <2>2, TiesBroken
<1>6. ASSUME NEW a \in P, NEW b \in P PROVE <<a, b>> \in A <=> before(s[a], s[b])
    <2>1. /\ <<a, b>> \in W <=> Less(s[b].ratio, s[a].ratio)
          /\ <<b, a>> \in W <=> Less(s[a].ratio, s[b].ratio)
        OBVIOUS
    <2>2. <<a, b>> \in N <=> s[a].pvc < s[b].pvc
        OBVIOUS
    <2> HIDE DEF W, N
    <2>3. <<a, b>> \in A <=> <<a, b>> \in W \/ (<<b, a>> \notin W /\ <<a, b>> \in N)
        BY DEF Lexicographic
    <2> HIDE DEF A
    <2>4. Same(s[a].ratio, s[b].ratio) <=> ~Less(s[a].ratio, s[b].ratio) /\ ~Less(s[b].ratio, s[a].ratio)
        BY <1>3, FractionOrder
    <2>5. QED
        BY <2>1, <2>2, <2>3, <2>4
<1> HIDE DEF A
<1>7. PICK x \in P : Cardinality(Ahead(P, A, x)) = 1 - 1
    BY <1>2, <1>4, <1>5, RanksTaken, Zenon
<1>8. Ahead(P, A, x) = {b \in P : ahead(b, x)}
    BY <1>6 DEF Ahead
<1> DEFINE j == nth(1)
<1>9. j \in P /\ Cardinality({b \in P : ahead(b, j)}) = 0
    <2> HIDE DEF ahead
    <2>1. Cardinality({b \in P : ahead(b, x)}) = 1 - 1
        BY <1>7, <1>8
    <2>2. j \in P /\ Cardinality({b \in P : ahead(b, j)}) = 1 - 1
        BY <2>1
    <2>3. QED
        BY <2>2
<1>10. list[1] = s[j] /\ list[1] \in ToSet(list)
    <2> HIDE DEF nth
    <2>1. QED
        BY <1>4 DEF ToSet
<1> HIDE DEF j, list
<1>11. {b \in P : ahead(b, j)} = {}
    <2> DEFINE Q == {b \in P : ahead(b, j)}
    <2>1. Q \in SUBSET P /\ Cardinality(Q) = 0
        BY <1>9
    <2> HIDE DEF Q
    <2>2. IsFiniteSet(Q)
        BY <1>2, <2>1, FS_Subset
    <2>3. Q = {}
        BY <2>1, <2>2, FS_EmptySet
    <2>4. QED
        BY <2>3 DEF Q
<1>12. ~before(s[i], s[j])
    BY <1>2, <1>11
<1>13. ~Less(s[j].ratio, s[i].ratio)
    BY <1>12
<1>14. QED
    BY <1>1, <1>3, <1>9, <1>10, <1>13

\* The PVC that is full soonest is first on the list by days until full.
LEMMA FirstBySoonest ==
    ASSUME NEW s \in Seq(Item), NEW i \in DOMAIN s, s[i].days # None
    PROVE  \E j \in DOMAIN s : /\ s[j] \in ToSet(buildStatusSummary(s).topBySoonest)
                               /\ s[j].days # None /\ ~Less(s[i].days, s[j].days)
<1> DEFINE P == {a \in DOMAIN s : s[a].days # None}
           before(a, b) == Less(a.days, b.days) \/ (Same(a.days, b.days) /\ a.pvc < b.pvc)
           ahead(a, b) == before(s[a], s[b]) \/ (~before(s[b], s[a]) /\ a < b)
           nth(k) == CHOOSE a \in P : Cardinality({b \in P : ahead(b, a)}) = k - 1
           n == Cardinality(P)
           m == IF n < TopN THEN n ELSE TopN
           list == [k \in 1 .. m |-> s[nth(k)]]
<1>1. buildStatusSummary(s).topBySoonest = list
    BY DEF buildStatusSummary, First, Lower
<1>2. P \subseteq Int /\ IsFiniteSet(P) /\ n \in Nat /\ i \in P
    <2>1. P \in SUBSET (1 .. Len(s)) /\ IsFiniteSet(1 .. Len(s)) /\ i \in P /\ Len(s) \in Nat
        BY FS_Interval
    <2> HIDE DEF P
    <2>2. IsFiniteSet(P)
        BY <2>1, FS_Subset
    <2>3. QED
        BY <2>1, <2>2, FS_CardinalityType
<1>3. \A a \in P : a \in DOMAIN s /\ s[a].days \in Fraction /\ s[a].pvc \in Int /\ s[a].days # None
    <2>1. \A a \in P : a \in DOMAIN s /\ s[a] \in Item /\ s[a].days # None
        OBVIOUS
    <2>2. QED
        BY <2>1, NamespaceAssumption, SMTT(40) DEF Item, PVCs
<1> HIDE DEF P
<1>4. 1 \in 1 .. n /\ 1 \in 1 .. m
    BY <1>2, FS_EmptySet, WindowsAssumption
<1> DEFINE v == [a \in P |-> s[a].days]
           W == {x \in P \X P : Less(v[x[1]], v[x[2]])}
           N == {x \in P \X P : s[x[1]].pvc < s[x[2]].pvc}
           A == Lexicographic(W, N, P)
<1>5. WeakOrder(A, P)
    <2>1. WeakOrder(W, P)
        <3>1. \A a \in P : v[a] \in Fraction
            BY <1>3
        <3> HIDE DEF v
        <3>2. QED
            BY <3>1, FractionsOrder
    <2>2. WeakOrder(N, P)
        BY <1>3, NamesOrder
    <2> HIDE DEF W, N
    <2>3. QED
        BY <2>1, <2>2, TiesBroken
<1>6. ASSUME NEW a \in P, NEW b \in P PROVE <<a, b>> \in A <=> before(s[a], s[b])
    <2>1. /\ <<a, b>> \in W <=> Less(s[a].days, s[b].days)
          /\ <<b, a>> \in W <=> Less(s[b].days, s[a].days)
        OBVIOUS
    <2>2. <<a, b>> \in N <=> s[a].pvc < s[b].pvc
        OBVIOUS
    <2> HIDE DEF W, N
    <2>3. <<a, b>> \in A <=> <<a, b>> \in W \/ (<<b, a>> \notin W /\ <<a, b>> \in N)
        BY DEF Lexicographic
    <2> HIDE DEF A
    <2>4. Same(s[a].days, s[b].days) <=> ~Less(s[a].days, s[b].days) /\ ~Less(s[b].days, s[a].days)
        BY <1>3, FractionOrder
    <2>5. QED
        BY <2>1, <2>2, <2>3, <2>4
<1> HIDE DEF A
<1>7. PICK x \in P : Cardinality(Ahead(P, A, x)) = 1 - 1
    BY <1>2, <1>4, <1>5, RanksTaken, Zenon
<1>8. Ahead(P, A, x) = {b \in P : ahead(b, x)}
    BY <1>6 DEF Ahead
<1> DEFINE j == nth(1)
<1>9. j \in P /\ Cardinality({b \in P : ahead(b, j)}) = 0
    <2> HIDE DEF ahead
    <2>1. Cardinality({b \in P : ahead(b, x)}) = 1 - 1
        BY <1>7, <1>8
    <2>2. j \in P /\ Cardinality({b \in P : ahead(b, j)}) = 1 - 1
        BY <2>1
    <2>3. QED
        BY <2>2
<1>10. list[1] = s[j] /\ list[1] \in ToSet(list)
    <2> HIDE DEF nth
    <2>1. QED
        BY <1>4 DEF ToSet
<1> HIDE DEF j, list
<1>11. {b \in P : ahead(b, j)} = {}
    <2> DEFINE Q == {b \in P : ahead(b, j)}
    <2>1. Q \in SUBSET P /\ Cardinality(Q) = 0
        BY <1>9
    <2> HIDE DEF Q
    <2>2. IsFiniteSet(Q)
        BY <1>2, <2>1, FS_Subset
    <2>3. Q = {}
        BY <2>1, <2>2, FS_EmptySet
    <2>4. QED
        BY <2>3 DEF Q
<1>12. ~before(s[i], s[j])
    BY <1>2, <1>11
<1>13. ~Less(s[i].days, s[j].days)
    BY <1>12
<1>14. QED
    BY <1>1, <1>3, <1>9, <1>10, <1>13

\* When a PVC alerts, one that does is on the list by usage or by days until full.
Visible(sum) ==
    sum # None /\ sum.alerting > 0 =>
        \E s \in ToSet(sum.topByUsage) \cup ToSet(sum.topBySoonest) : s.alert

\* The summary of a round shows an alert: the list by usage begins with the PVC that is
\* used most, the other with the one that is full soonest, and one of the two alerts.
LEMMA AlertShown ==
    ASSUME NEW items, NEW spec \in Specs, ItemsOK(items, Thresholds(spec))
    PROVE  Visible(buildStatusSummary(items))
<1> DEFINE thr == Thresholds(spec)
           sum == buildStatusSummary(items)
           Q == {i \in DOMAIN items : items[i].alert}
<1>1. SUFFICES ASSUME sum.alerting > 0
               PROVE  \E s \in ToSet(sum.topByUsage) \cup ToSet(sum.topBySoonest) : s.alert
    BY DEF Visible
<1>2. items \in Seq(Item) /\ \A i \in DOMAIN items : items[i].alert <=> Alerts(items[i], thr)
    BY DEF ItemsOK
<1>3. sum.alerting = Cardinality(Q)
    BY DEF buildStatusSummary
<1>4. PICK i \in DOMAIN items : Alerts(items[i], thr)
    <2>1. Q # {}
        BY <1>1, <1>3, FS_EmptySet
    <2>2. QED
        BY <1>2, <2>1
<1>5. thr.usage \in Fraction /\ thr.days \in Fraction
    BY ThresholdsType
<1>6. \A j \in DOMAIN items : items[j] \in Item /\ items[j].ratio \in Fraction /\ items[j].days \in Fraction \cup {None}
    <2>1. \A j \in DOMAIN items : items[j] \in Item
        BY <1>2
    <2>2. QED
        BY <2>1 DEF Item
<1> HIDE DEF thr, sum
<1>7. CASE ~Less(items[i].ratio, thr.usage)
    <2>1. PICK j \in DOMAIN items : items[j] \in ToSet(sum.topByUsage) /\ ~Less(items[j].ratio, items[i].ratio)
        BY <1>2, FirstByUsage DEF sum
    <2>2. ~Less(items[j].ratio, thr.usage)
        BY <1>5, <1>6, <1>7, <2>1, FractionOrder
    <2>3. items[j].alert
        BY <1>2, <2>2 DEF Alerts
    <2>4. QED
        BY <2>1, <2>3
<1>8. CASE items[i].days # None /\ Less(items[i].days, thr.days)
    <2>1. PICK j \in DOMAIN items : /\ items[j] \in ToSet(sum.topBySoonest)
                                    /\ items[j].days # None /\ ~Less(items[i].days, items[j].days)
        BY <1>2, <1>8, FirstBySoonest DEF sum
    <2>2. items[i].days \in Fraction /\ items[j].days \in Fraction
        BY <1>6, <1>8, <2>1
    <2>3. Less(items[j].days, thr.days)
        BY <1>5, <1>8, <2>1, <2>2, FractionOrder
    <2>4. items[j].alert
        BY <1>2, <2>1, <2>3 DEF Alerts
    <2>5. QED
        BY <2>1, <2>4
<1>9. QED
    BY <1>4, <1>7, <1>8 DEF Alerts

-----------------------------------------------------------------------------
\* What is charged to budgets.

\* What the PVCs that the set C has use, and the others do not.
Shares(items, C) == [i \in DOMAIN items |-> IF i \in C THEN items[i].used ELSE 0]

\* The PVCs of a namespace, and those of one of its workloads.
InNamespace(items, ns) == {i \in DOMAIN items : Namespace[items[i].pvc] = ns}
OfWorkload(items, rf, ns, x) ==
    {i \in InNamespace(items, ns) :
        Fold(rf[items[i].pvc].kind) = x.kind /\ rf[items[i].pvc].name = x.name}

\* Shares are numbers that can be added.
LEMMA SharesType ==
    ASSUME NEW items \in Seq(Item), NEW C
    PROVE  /\ Shares(items, C) \in Seq(Int) /\ Len(Shares(items, C)) = Len(items)
           /\ \A i \in 1 .. Len(items) : /\ Shares(items, C)[i] \in Nat /\ items[i].used \in Nat
                                         /\ Shares(items, C)[i] = IF i \in C THEN items[i].used ELSE 0
           /\ Added(Shares(items, C)) \in Nat
<1>1. Len(items) \in Nat /\ DOMAIN items = 1 .. Len(items) /\ \A i \in 1 .. Len(items) : items[i] \in Item
    OBVIOUS
<1>2. \A i \in 1 .. Len(items) : items[i].used \in Nat
    BY <1>1 DEF Item
<1> DEFINE s == Shares(items, C)
<1>3. s = [i \in 1 .. Len(items) |-> IF i \in C THEN items[i].used ELSE 0]
    BY <1>1 DEF Shares
<1> HIDE DEF s
<1>4. \A i \in 1 .. Len(items) : s[i] \in Nat /\ s[i] = IF i \in C THEN items[i].used ELSE 0
    BY <1>2, <1>3
<1>5. s \in Seq(Int) /\ Len(s) = Len(items)
    BY <1>1, <1>2, <1>3
<1>6. Added(s) \in Nat
    BY <1>1, <1>4, <1>5, AddedType
<1>7. QED
    BY <1>2, <1>4, <1>5, <1>6 DEF s

\* What two groups of PVCs without a common member use, all that have them use.
LEMMA SharesAdd ==
    ASSUME NEW items \in Seq(Item), NEW B, NEW C, NEW D, B \subseteq D, C \subseteq D, B \cap C = {}
    PROVE  Added(Shares(items, B)) + Added(Shares(items, C)) <= Added(Shares(items, D))
<1> DEFINE s == Shares(items, B)
           t == Shares(items, C)
           u == Shares(items, D)
<1>1. s \in Seq(Int) /\ t \in Seq(Int) /\ u \in Seq(Int) /\ Len(t) = Len(s) /\ Len(u) = Len(s)
    BY SharesType
<1>2. \A i \in 1 .. Len(items) : /\ items[i].used \in Nat
                                 /\ s[i] = IF i \in B THEN items[i].used ELSE 0
                                 /\ t[i] = IF i \in C THEN items[i].used ELSE 0
                                 /\ u[i] = IF i \in D THEN items[i].used ELSE 0
    BY SharesType
<1>3. Len(s) = Len(items)
    BY SharesType
<1> HIDE DEF s, t, u
<1>4. ASSUME NEW i \in 1 .. Len(items) PROVE s[i] + t[i] <= u[i]
    <2>1. CASE i \in B
        <3>1. s[i] = items[i].used /\ t[i] = 0 /\ u[i] = items[i].used
            BY <1>2, <2>1
        <3>2. QED
            BY <1>2, <3>1
    <2>2. CASE i \in C
        <3>1. s[i] = 0 /\ t[i] = items[i].used /\ u[i] = items[i].used
            BY <1>2, <2>2
        <3>2. QED
            BY <1>2, <3>1
    <2>3. CASE i \notin B /\ i \notin C
        <3>1. s[i] = 0 /\ t[i] = 0 /\ u[i] \in Nat
            BY <1>2, <2>3
        <3>2. QED
            BY <3>1
    <2>4. QED
        BY <2>1, <2>2, <2>3
<1>5. QED
    BY <1>1, <1>3, <1>4, AddedPointwise DEF s, t, u

\* A finite set as a sequence has each of its members once.
LEMMA SetToSeqOnce ==
    ASSUME NEW T, IsFiniteSet(T)
    PROVE  /\ Cardinality(T) \in Nat /\ SetToSeq(T) \in [1 .. Cardinality(T) -> T]
           /\ IsInjective(SetToSeq(T))
<1>1. Cardinality(T) \in Nat /\ ExistsBijection(1 .. Cardinality(T), T)
    BY FS_CardinalityType
<1>2. PICK f \in [1 .. Cardinality(T) -> T] : IsInjective(f)
    BY <1>1 DEF ExistsBijection, Bijection, Injection
<1>3. QED
    BY <1>1, <1>2 DEF SetToSeq

\* The workloads of a namespace together use no more than the namespace.
LEMMA WorkloadsShare ==
    ASSUME NEW items \in Seq(Item), NEW rf, NEW ns, NEW T, IsFiniteSet(T),
           \A x \in T : /\ x = [kind |-> x.kind, name |-> x.name, used |-> x.used]
                        /\ x.used = Added(Shares(items, OfWorkload(items, rf, ns, x)))
    PROVE  Total(SetToSeq(T), LAMBDA x : x.used) <= Added(Shares(items, InNamespace(items, ns)))
<1> DEFINE g == SetToSeq(T)
           m == Cardinality(T)
           u == [i \in DOMAIN g |-> g[i].used]
           Mine(i) == OfWorkload(items, rf, ns, g[i])
           Upto(k) == {j \in DOMAIN items : \E i \in 1 .. k : j \in Mine(i)}
<1>1. m \in Nat /\ g \in [1 .. m -> T] /\ IsInjective(g)
    BY SetToSeqOnce
<1>2. Total(g, LAMBDA x : x.used) = Added(u)
    BY DEF Total, Collect
<1> HIDE DEF g, m
<1>3. \A i \in 1 .. m : g[i].used = Added(Shares(items, Mine(i))) /\ g[i].used \in Int
    <2>1. \A C : Added(Shares(items, C)) \in Nat
        BY SharesType
    <2>2. \A i \in 1 .. m : g[i].used = Added(Shares(items, Mine(i)))
        BY <1>1
    <2> HIDE DEF Mine
    <2>3. QED
        BY <2>1, <2>2
<1>4. u \in Seq(Int) /\ Len(u) = m /\ \A i \in 1 .. m : u[i] = g[i].used
    <2> HIDE DEF Mine
    <2>1. QED
        BY <1>1, <1>3
<1>5. ASSUME NEW i \in 1 .. m, NEW k \in 1 .. m, i # k PROVE Mine(i) \cap Mine(k) = {}
    <2> SUFFICES ASSUME NEW j \in Mine(i), j \in Mine(k) PROVE FALSE
        OBVIOUS
    <2>1. /\ Fold(rf[items[j].pvc].kind) = g[i].kind /\ rf[items[j].pvc].name = g[i].name
          /\ Fold(rf[items[j].pvc].kind) = g[k].kind /\ rf[items[j].pvc].name = g[k].name
        BY DEF OfWorkload
    <2>2. g[i].kind = g[k].kind /\ g[i].name = g[k].name
        BY <2>1
    <2>3. Mine(i) = Mine(k)
        BY <2>2 DEF OfWorkload
    <2> HIDE DEF Mine
    <2>4. g[i].used = g[k].used
        BY <1>3, <2>3
    <2>5. g[i] = g[k]
        <3>1. /\ g[i] = [kind |-> g[i].kind, name |-> g[i].name, used |-> g[i].used]
              /\ g[k] = [kind |-> g[k].kind, name |-> g[k].name, used |-> g[k].used]
            BY <1>1
        <3>2. QED
            BY <2>2, <2>4, <3>1
    <2>6. QED
        BY <1>1, <1>5, <2>5 DEF IsInjective
<1> HIDE DEF u, Mine
<1>6. PICK f : Sums(f, u) /\ Added(u) = f[m]
    BY <1>4, AddedSums
<1> DEFINE a == [k \in 0 .. m |-> Added(Shares(items, Upto(k)))]
           d == [k \in 0 .. m |-> a[k] - f[k]]
<1>7. \A k \in 0 .. m : a[k] = Added(Shares(items, Upto(k))) /\ a[k] \in Nat /\ f[k] \in Int
    <2>1. \A C : Added(Shares(items, C)) \in Nat
        BY SharesType
    <2> HIDE DEF Upto
    <2>2. \A k \in 0 .. m : a[k] = Added(Shares(items, Upto(k)))
        OBVIOUS
    <2>3. \A k \in 0 .. m : f[k] \in Int
        BY <1>4, <1>6 DEF Sums
    <2> HIDE DEF a
    <2>4. ASSUME NEW k \in 0 .. m PROVE a[k] \in Nat
        <3>1. a[k] = Added(Shares(items, Upto(k)))
            BY <2>2
        <3>2. QED
            BY <2>1, <3>1, Zenon
    <2>5. QED
        BY <2>2, <2>3, <2>4, Zenon
<1>8. d[0] \in Nat
    <2>1. f[0] = 0 /\ 0 \in 0 .. m
        BY <1>1, <1>6 DEF Sums
    <2>2. d[0] = a[0] - f[0]
        BY <2>1
    <2> HIDE DEF a, d, Upto
    <2>3. a[0] \in Nat
        BY <1>7, <2>1
    <2>4. QED
        BY <2>1, <2>2, <2>3
<1>9. ASSUME NEW k \in 1 .. m, d[k - 1] \in Nat PROVE d[k] \in Nat
    <2>1. k \in 0 .. m /\ k - 1 \in 0 .. m /\ k \in Nat
        BY <1>1
    <2>2. Upto(k - 1) \subseteq Upto(k)
        BY <2>1
    <2>3. Mine(k) \subseteq Upto(k)
        BY <2>1 DEF Mine, OfWorkload, InNamespace
    <2>4. Upto(k - 1) \cap Mine(k) = {}
        <3>1. \A i \in 1 .. (k - 1) : i \in 1 .. m /\ i # k
            BY <1>1, <2>1
        <3>2. SUFFICES ASSUME NEW j \in Upto(k - 1), j \in Mine(k) PROVE FALSE
            OBVIOUS
        <3>3. PICK i \in 1 .. (k - 1) : j \in Mine(i)
            OBVIOUS
        <3>4. Mine(i) \cap Mine(k) = {}
            BY <1>5, <3>1
        <3>5. QED
            BY <3>2, <3>3, <3>4
    <2> HIDE DEF Upto
    <2>5. Added(Shares(items, Upto(k - 1))) + Added(Shares(items, Mine(k))) <= Added(Shares(items, Upto(k)))
        BY <2>2, <2>3, <2>4, SharesAdd
    <2>6. f[k] = f[k - 1] + g[k].used
        BY <1>4, <1>6 DEF Sums
    <2>7. a[k - 1] + g[k].used <= a[k]
        BY <1>3, <1>7, <2>1, <2>5
    <2>8. d[k] = a[k] - f[k] /\ d[k - 1] = a[k - 1] - f[k - 1]
        BY <2>1
    <2> DEFINE x == a[k - 1]
               y == a[k]
               z == f[k - 1]
               q == g[k].used
    <2>9. x \in Int /\ y \in Int /\ z \in Int /\ q \in Int
        BY <1>3, <1>7, <2>1
    <2>10. d[k] = y - (z + q) /\ d[k - 1] = x - z /\ x + q <= y
        BY <2>6, <2>7, <2>8
    <2> HIDE DEF a, d, x, y, z, q
    <2>11. QED
        BY <1>9, <2>9, <2>10
<1>10. \A k \in 0 .. m : d[k] \in Nat
    <2> HIDE DEF d
    <2>1. QED
        BY <1>1, <1>8, <1>9, PlacesInduction
<1>11. f[m] <= a[m] /\ m \in 0 .. m
    <2>1. m \in 0 .. m
        BY <1>1
    <2>2. d[m] = a[m] - f[m]
        BY <2>1
    <2> HIDE DEF a, d, Upto
    <2>3. a[m] \in Nat /\ f[m] \in Int
        BY <1>7, <2>1
    <2>4. d[m] \in Nat
        BY <1>10, <2>1
    <2>5. QED
        BY <2>1, <2>2, <2>3, <2>4
<1>12. a[m] <= Added(Shares(items, InNamespace(items, ns)))
    <2> DEFINE E == {}
    <2>1. Upto(m) \subseteq InNamespace(items, ns)
        BY DEF Mine, OfWorkload
    <2>2. a[m] = Added(Shares(items, Upto(m)))
        BY <1>7, <1>11
    <2> HIDE DEF Upto, E, a
    <2>3. Added(Shares(items, Upto(m))) + Added(Shares(items, E)) <= Added(Shares(items, InNamespace(items, ns)))
        BY <2>1, SharesAdd DEF E
    <2>4. /\ Added(Shares(items, E)) \in Nat /\ Added(Shares(items, Upto(m))) \in Nat
          /\ Added(Shares(items, InNamespace(items, ns))) \in Nat
        BY SharesType
    <2>5. QED
        BY <2>2, <2>3, <2>4
<1>13. Added(Shares(items, InNamespace(items, ns))) \in Nat
    BY SharesType
<1> HIDE DEF a, Upto
<1>14. f[m] \in Int /\ a[m] \in Nat
    BY <1>7, <1>11
<1>15. f[m] <= Added(Shares(items, InNamespace(items, ns)))
    BY <1>11, <1>12, <1>13, <1>14
<1>16. QED
    BY <1>2, <1>6, <1>15 DEF g

-----------------------------------------------------------------------------
\* Forecasts of budgets.

\* What a function has at the members of a finite set is finite.
LEMMA FiniteImage ==
    ASSUME NEW S, IsFiniteSet(S), NEW g
    PROVE  IsFiniteSet({g[x] : x \in S})
<1> DEFINE T == {g[x] : x \in S}
           h == [x \in S |-> g[x]]
<1>1. h \in Surjection(S, T)
    BY DEF Surjection
<1> HIDE DEF T, h
<1>2. IsFiniteSet(T)
    BY <1>1, FS_Surjection
<1>3. QED
    BY <1>2 DEF T

\* The places of the PVCs that a budget is charged with.
ChargedPlaces(items, b, rf) == {i \in DOMAIN items : Charged(b, items[i].pvc, rf)}

\* What a forecast says of a budget.
ForecastOf(f, b, items, rf) ==
    /\ f.budget = b /\ b.bytes > 0
    /\ f.used = Added(Shares(items, ChargedPlaces(items, b, rf))) /\ f.used \in Nat
    /\ Optional(f.days)

\* Every forecast is one of a budget, and there are finitely many.
LEMMA ForecastsFrom ==
    ASSUME NEW budgets, IsFiniteSet(budgets), \A b \in budgets : b.bytes \in Int,
           NEW items \in Seq(Item), NEW signals, NEW rf,
           DOMAIN signals = 1 .. Len(items), \A i \in 1 .. Len(items) : signals[i].weekly \in Fraction
    PROVE  /\ IsFiniteSet(buildBudgetForecasts(budgets, items, signals, rf))
           /\ \A f \in buildBudgetForecasts(budgets, items, signals, rf) :
                \E b \in budgets : ForecastOf(f, b, items, rf)
<1> DEFINE B == {x \in budgets : Usable(x)}
           u(b) == [i \in DOMAIN items |-> IF Charged(b, items[i].pvc, rf) THEN items[i].used ELSE 0]
           w1(b) == [i \in DOMAIN signals |-> IF Charged(b, signals[i].pvc, rf) THEN signals[i].weekly ELSE Zero]
           fc(b) == [budget |-> b, used |-> Added(u(b)), growth |-> PlusAll(w1(b)),
                     days |-> budgetBreachProjection(Added(u(b)), b.bytes, PlusAll(w1(b)))]
           g == [b \in budgets |-> fc(b)]
           F == buildBudgetForecasts(budgets, items, signals, rf)
<1>1. F = {fc(b) : b \in B}
    BY DEF buildBudgetForecasts, Total, Collect
<1>2. B \subseteq budgets /\ \A b \in B : b.bytes > 0
    BY Zenon DEF Usable
<1> HIDE DEF B
<1>3. ASSUME NEW b \in B PROVE ForecastOf(fc(b), b, items, rf)
    <2>1. b.bytes \in Nat /\ b.bytes > 0
        <3>1. b \in budgets /\ b.bytes > 0
            BY <1>2
        <3>2. b.bytes \in Int
            BY <3>1
        <3>3. QED
            BY <3>1, <3>2
    <2>2. u(b) = Shares(items, ChargedPlaces(items, b, rf))
        BY DEF Shares, ChargedPlaces
    <2> DEFINE used == Added(u(b))
               growth == PlusAll(w1(b))
    <2>3. used = Added(Shares(items, ChargedPlaces(items, b, rf)))
        BY <2>2
    <2>4. used \in Nat
        <3> HIDE DEF used, u
        <3>1. QED
            BY <2>3, SharesType, Zenon
    <2>5. growth \in Fraction
        <3> DEFINE n == Len(items)
        <3>1. n \in Nat
            OBVIOUS
        <3> HIDE DEF n
        <3>2. w1(b) = [i \in 1 .. n |-> IF Charged(b, signals[i].pvc, rf) THEN signals[i].weekly ELSE Zero]
            BY DEF n
        <3>3. \A i \in 1 .. n : signals[i].weekly \in Fraction /\ Zero \in Fraction
            BY ZeroFraction DEF n
        <3> HIDE DEF w1
        <3>4. Len(w1(b)) = n /\ \A i \in 1 .. n : w1(b)[i] \in Fraction
            BY <3>1, <3>2, <3>3
        <3>5. QED
            BY <3>1, <3>4, PlusAllType
    <2>6. /\ fc(b).budget = b /\ fc(b).used = used
          /\ fc(b).days = budgetBreachProjection(used, b.bytes, growth)
        OBVIOUS
    <2> HIDE DEF used, growth, fc, u, w1
    <2>7. Optional(budgetBreachProjection(used, b.bytes, growth))
        <3>1. Zero \in Fraction
            BY ZeroFraction
        <3>2. Positive(growth) => Remaining(b.bytes, used, growth) \in Fraction
            BY <2>1, <2>4, <2>5, RemainingType
        <3>3. QED
            BY <3>1, <3>2 DEF Optional, budgetBreachProjection
    <2>8. QED
        BY <2>1, <2>3, <2>4, <2>6, <2>7 DEF ForecastOf
<1>4. F = {g[b] : b \in B}
    <2>1. \A b \in B : g[b] = fc(b)
        BY <1>2
    <2> HIDE DEF fc, g
    <2>2. QED
        BY <1>1, <2>1
<1> HIDE DEF F, fc, g
<1>5. IsFiniteSet(B)
    BY <1>2, FS_Subset
<1>6. IsFiniteSet(F)
    BY <1>4, <1>5, FiniteImage
<1>7. \A f \in F : \E b \in budgets : ForecastOf(f, b, items, rf)
    BY <1>1, <1>2, <1>3
<1>8. QED
    BY <1>6, <1>7 DEF F

\* What the budgets of workloads in the namespace of f are forecast to use.
Theirs(fs, f) ==
    {[kind |-> Fold(x.budget.kind), name |-> x.budget.name, used |-> x.used] :
        x \in {y \in fs : y.budget.kind # None /\ y.budget.ns = f.budget.ns}}
Within(fs) ==
    \A f \in {x \in fs : x.budget.kind = None} :
        Total(SetToSeq(Theirs(fs, f)), LAMBDA x : x.used) <= f.used

\* The workloads of a namespace are forecast to use no more than the namespace.
LEMMA ForecastsWithin ==
    ASSUME NEW fs, IsFiniteSet(fs), NEW items \in Seq(Item), NEW rf,
           \A f \in fs : \E b : ForecastOf(f, b, items, rf)
    PROVE  Within(fs)
<1> SUFFICES ASSUME NEW f \in fs, f.budget.kind = None
             PROVE  Total(SetToSeq(Theirs(fs, f)), LAMBDA x : x.used) <= f.used
    BY DEF Within
<1> DEFINE ns == f.budget.ns
           T == Theirs(fs, f)
           S == {y \in fs : y.budget.kind # None /\ y.budget.ns = ns}
           g == [x \in fs |-> [kind |-> Fold(x.budget.kind), name |-> x.budget.name, used |-> x.used]]
<1>1. T = {g[x] : x \in S} /\ S \subseteq fs
    BY DEF Theirs
<1>2. \A x \in fs : x.used = Added(Shares(items, ChargedPlaces(items, x.budget, rf)))
    BY DEF ForecastOf
<1>3. f.used = Added(Shares(items, InNamespace(items, ns)))
    <2>1. ChargedPlaces(items, f.budget, rf) = InNamespace(items, ns)
        BY DEF ChargedPlaces, InNamespace, Charged
    <2>2. QED
        BY <1>2, <2>1
<1>4. IsFiniteSet(T)
    <2> HIDE DEF g, T
    <2>1. IsFiniteSet(S)
        BY <1>1, FS_Subset
    <2>2. QED
        BY <1>1, <2>1, FiniteImage
<1>5. ASSUME NEW x \in T
      PROVE  /\ x = [kind |-> x.kind, name |-> x.name, used |-> x.used]
             /\ x.used = Added(Shares(items, OfWorkload(items, rf, ns, x)))
    <2>1. PICK y \in fs : y.budget.kind # None /\ y.budget.ns = ns
                          /\ x = [kind |-> Fold(y.budget.kind), name |-> y.budget.name, used |-> y.used]
        BY DEF Theirs
    <2>2. x.kind = Fold(y.budget.kind) /\ x.name = y.budget.name /\ x.used = y.used
        BY <2>1
    <2>3. ChargedPlaces(items, y.budget, rf) = OfWorkload(items, rf, ns, x)
        BY <2>1, <2>2 DEF ChargedPlaces, OfWorkload, InNamespace, Charged
    <2>4. y.used = Added(Shares(items, ChargedPlaces(items, y.budget, rf)))
        BY <1>2
    <2>5. QED
        BY <2>1, <2>2, <2>3, <2>4
<1> HIDE DEF T
<1>6. Total(SetToSeq(T), LAMBDA x : x.used) <= Added(Shares(items, InNamespace(items, ns)))
    BY <1>4, <1>5, WorkloadsShare, Zenon
<1>7. QED
    BY <1>3, <1>6 DEF T

-----------------------------------------------------------------------------
\* Escalations.

\* Products of numbers grow with their factors.
LEMMA ProductsGrow ==
    ASSUME NEW a \in Int, NEW b \in Int, NEW x \in Int, NEW y \in Int,
           a >= b, b > 0, x >= y, y > 0
    PROVE  a * x >= b * y
<1>1. (a - b) * x >= 0 /\ b * (x - y) >= 0
    OBVIOUS
<1>2. (a - b) * x = a * x - b * x /\ b * (x - y) = b * x - b * y
    OBVIOUS
<1>3. a * x \in Int /\ b * x \in Int /\ b * y \in Int
    OBVIOUS
<1> DEFINE p == a * x
           q == b * x
           r == b * y
<1>4. p - q >= 0 /\ q - r >= 0 /\ p \in Int /\ q \in Int /\ r \in Int
    BY <1>1, <1>2, <1>3
<1> HIDE DEF p, q, r
<1>5. p >= r
    BY <1>4
<1>6. QED
    BY <1>5 DEF p, r

\* A PVC that holds less and grows no faster is not full sooner.
LEMMA RemainingGrows ==
    ASSUME NEW cap \in Nat, NEW used \in Nat, NEW more \in Nat, used <= more,
           NEW g \in Fraction, NEW h \in Fraction, Positive(g), Positive(h), ~Less(h, g)
    PROVE  ~Less(Remaining(cap, used, g), Remaining(cap, more, h))
<1> DEFINE gn == g[1]
           gd == g[2]
           hn == h[1]
           hd == h[2]
           left == cap - used
           less == cap - more
<1>1. gn \in Int /\ gd \in Int /\ gd > 0 /\ gn > 0 /\ hn \in Int /\ hd \in Int /\ hd > 0 /\ hn > 0
    BY FractionParts DEF Positive
<1>2. ~(hn * gd < gn * hd)
    BY DEF Less
<1> HIDE DEF gn, gd, hn, hd
<1>3. CASE more >= cap
    <2>1. Remaining(cap, more, h) = Zero
        BY <1>3 DEF Remaining
    <2>2. CASE used >= cap
        <3>1. Remaining(cap, used, g) = Zero
            BY <2>2 DEF Remaining
        <3>2. QED
            BY <2>1, <3>1, ZeroFraction DEF Less
    <2>3. CASE ~(used >= cap)
        <3>1. Remaining(cap, used, g) = <<left * gd, gn>>
            BY <2>3 DEF Remaining, gd, gn
        <3>2. left \in Int /\ left > 0
            BY <2>3
        <3> HIDE DEF left
        <3>3. left * gd \in Int /\ left * gd > 0
            BY <1>1, <3>2, PositiveProduct
        <3>4. ~(left * gd * 1 < 0 * gn)
            BY <1>1, <3>3
        <3>5. QED
            BY <2>1, <3>1, <3>4 DEF Less, Zero
    <2>4. QED
        BY <2>2, <2>3
<1>4. CASE ~(more >= cap)
    <2>1. left \in Int /\ less \in Int /\ left >= less /\ less > 0
        BY <1>4
    <2>2. Remaining(cap, used, g) = <<left * gd, gn>> /\ Remaining(cap, more, h) = <<less * hd, hn>>
        BY <1>4 DEF Remaining, gd, gn, hd, hn
    <2> HIDE DEF left, less
    <2> DEFINE x == gd * hn
               y == hd * gn
    <2>3. x \in Int /\ y \in Int /\ y > 0 /\ x >= y
        BY <1>1, <1>2, PositiveProduct
    <2>4. (left * gd) * hn = left * x /\ (less * hd) * gn = less * y
        BY <1>1, <2>1
    <2> HIDE DEF x, y
    <2>5. left * x >= less * y
        BY <2>1, <2>3, ProductsGrow
    <2>6. left * x \in Int /\ less * y \in Int
        BY <2>1, <2>3
    <2>7. ~((left * gd) * hn < (less * hd) * gn)
        BY <2>4, <2>5, <2>6
    <2>8. QED
        BY <2>2, <2>7 DEF Less
<1>5. QED
    BY <1>3, <1>4

\* What a report keeps of a risk: a PVC that grows, with a date that does not lie after
\* what its growth leaves (it comes closer day by day).
RiskOK(r) ==
    /\ r \in Risk /\ Positive(r.weekly)
    /\ ~r.wide /\ r.at # None => ~Less(Remaining(r.cap, r.used, r.weekly), r.at)

\* Why a risk may be escalated.
Reason(o, n) ==
    \/ Less(o.weekly, n.weekly) \/ n.used > o.used \/ n.cap # o.cap
    \/ (~o.alert /\ n.alert)
    \/ n.wide \/ o.wide

\* A growth that is a fifth more is more.
LEMMA FasterByFifth ==
    ASSUME NEW a \in Fraction, NEW b \in Fraction, Positive(a), Less(Times(a, <<6, 5>>), b)
    PROVE  Less(a, b)
<1> DEFINE an == a[1]
           ad == a[2]
           bn == b[1]
           bd == b[2]
<1>1. an \in Int /\ ad \in Int /\ ad > 0 /\ an > 0 /\ bn \in Int /\ bd \in Int /\ bd > 0
    BY FractionParts DEF Positive
<1>2. (an * 6) * bd < bn * (ad * 5)
    BY DEF Less, Times
<1> HIDE DEF an, ad, bn, bd
<1> DEFINE x == an * bd
           y == bn * ad
<1>3. x \in Int /\ x > 0 /\ y \in Int
    BY <1>1, PositiveProduct
<1>4. (an * 6) * bd = 6 * x /\ bn * (ad * 5) = 5 * y
    BY <1>1
<1>5. 6 * x < 5 * y
    BY <1>2, <1>4
<1> HIDE DEF x, y
<1>6. x < y
    BY <1>3, <1>5
<1>7. QED
    BY <1>6 DEF x, y, an, ad, bn, bd, Less

\* A date that comes more than a day sooner comes sooner.
LEMMA SoonerByDay ==
    ASSUME NEW a \in Fraction, NEW b \in Fraction, Less(Plus(a, <<1, 1>>), b)
    PROVE  Less(a, b)
<1> DEFINE an == a[1]
           ad == a[2]
           bn == b[1]
           bd == b[2]
<1>1. an \in Int /\ ad \in Int /\ ad > 0 /\ bn \in Int /\ bd \in Int /\ bd > 0
    BY FractionParts
<1>2. (an * 1 + 1 * ad) * bd < bn * (ad * 1)
    BY DEF Less, Plus
<1> HIDE DEF an, ad, bn, bd
<1> DEFINE x == an * bd
           y == bn * ad
           z == ad * bd
<1>3. x \in Int /\ z > 0 /\ y \in Int /\ z \in Int
    BY <1>1, PositiveProduct
<1>4. (an * 1 + 1 * ad) * bd = x + z /\ bn * (ad * 1) = y
    BY <1>1
<1>5. x + z < y
    BY <1>2, <1>4
<1> HIDE DEF x, y, z
<1>6. x < y
    BY <1>3, <1>5
<1>7. QED
    BY <1>6 DEF x, y, an, ad, bn, bd, Less

\* A risk that is escalated has a reason: its date is the one that its growth leaves,
\* and the date of the earlier one had at most come closer.
LEMMA EscalatedFor ==
    ASSUME NEW o, NEW n, RiskOK(o), RiskOK(n), isEscalatedRisk(o, n),
           ~n.wide /\ n.at # None => n.at = Remaining(n.cap, n.used, n.weekly)
    PROVE  Reason(o, n)
<1>1. /\ o.used \in Nat /\ o.cap \in Nat /\ o.weekly \in Fraction /\ o.at \in Fraction \cup {None}
      /\ n.used \in Nat /\ n.cap \in Nat /\ n.weekly \in Fraction /\ n.at \in Fraction \cup {None}
    BY DEF RiskOK, Risk
<1>2. Positive(o.weekly) /\ Positive(n.weekly)
    BY DEF RiskOK
<1>3. CASE Less(Times(o.weekly, <<6, 5>>), n.weekly)
    BY <1>1, <1>2, <1>3, FasterByFifth DEF Reason
<1>4. CASE ~o.alert /\ n.alert
    BY <1>4 DEF Reason
<1>5. CASE Sooner(n, o)
    <2> SUFFICES ASSUME ~Reason(o, n) PROVE FALSE
        OBVIOUS
    <2>1. /\ ~Less(o.weekly, n.weekly) /\ ~(n.used > o.used) /\ n.cap = o.cap /\ ~n.wide /\ ~o.wide
        BY DEF Reason
    <2>2. n.at # None /\ o.at # None /\ Less(Plus(n.at, <<1, 1>>), o.at)
        BY <1>5 DEF Sooner
    <2>3. n.at \in Fraction /\ o.at \in Fraction
        BY <1>1, <2>2
    <2>4. Less(n.at, o.at)
        BY <2>2, <2>3, SoonerByDay
    <2> DEFINE R == Remaining(o.cap, o.used, o.weekly)
    <2>5. R \in Fraction
        BY <1>1, <1>2, RemainingType
    <2>6. ~Less(R, o.at)
        BY <2>1, <2>2 DEF RiskOK
    <2>7. n.used <= o.used
        BY <1>1, <2>1
    <2>8. ~Less(Remaining(o.cap, n.used, n.weekly), R)
        BY <1>1, <1>2, <2>1, <2>7, RemainingGrows
    <2>9. ~Less(n.at, R)
        BY <2>1, <2>2, <2>8
    <2> HIDE DEF R
    <2>10. Less(n.at, R) \/ Less(R, o.at)
        BY <2>3, <2>4, <2>5, FractionOrder
    <2>11. QED
        BY <2>6, <2>9, <2>10
<1>6. QED
    BY <1>3, <1>4, <1>5 DEF isEscalatedRisk

-----------------------------------------------------------------------------
\* What a report holds.

\* The date of a risk is the one that its growth leaves.
Exact(r) == ~r.wide /\ r.at # None => r.at = Remaining(r.cap, r.used, r.weekly)

\* Risks that a report may list.
RisksOK(risks) ==
    /\ risks \in Seq(Risk) /\ Len(risks) <= TopN /\ \A i \in DOMAIN risks : RiskOK(risks[i])

\* What is kept of a signal that grows.
LEMMA KeptRisk ==
    ASSUME NEW s, SignalOK(s), Positive(s.weekly), NEW r,
           r = [pvc |-> s.pvc, used |-> s.used, cap |-> s.cap, weekly |-> s.weekly, at |-> s.at,
                alert |-> s.alert, wide |-> s.days # None /\ Less(<<MaxDuration, 1>>, s.days)]
    PROVE  RiskOK(r) /\ Exact(r)
<1>1. /\ s.pvc \in PVCs /\ s.used \in Nat /\ s.cap \in Nat /\ s.alert \in BOOLEAN
      /\ s.weekly \in Fraction /\ s.at \in Fraction \cup {None}
      /\ s.days # None => s.days = Remaining(s.cap, s.used, s.weekly)
      /\ s.at # None => s.days # None /\ (~Less(<<MaxDuration, 1>>, s.days) => s.at = s.days)
    BY DEF SignalOK
<1> DEFINE wide == s.days # None /\ Less(<<MaxDuration, 1>>, s.days)
           R == Remaining(s.cap, s.used, s.weekly)
<1>2. wide \in BOOLEAN
    BY DEF Less
<1>3. /\ r.used = s.used /\ r.cap = s.cap /\ r.weekly = s.weekly /\ r.at = s.at /\ r.wide = wide
    OBVIOUS
<1>4. ~wide /\ s.at # None => s.at = R
    BY <1>1
<1>5. R \in Fraction
    BY <1>1, RemainingType
<1>6. r \in Risk
    <2> HIDE DEF wide
    <2>1. r = [pvc |-> s.pvc, used |-> s.used, cap |-> s.cap, weekly |-> s.weekly, at |-> s.at,
               alert |-> s.alert, wide |-> wide]
        BY DEF wide
    <2>2. QED
        BY <1>1, <1>2, <2>1 DEF Risk
<1> HIDE DEF wide, R
<1>7. Remaining(r.cap, r.used, r.weekly) = R
    BY <1>3 DEF R
<1>8. Exact(r)
    BY <1>3, <1>4, <1>7 DEF Exact
<1>9. ~Less(R, R)
    BY <1>5, FractionOrder
<1>10. QED
    BY <1>3, <1>6, <1>7, <1>8, <1>9 DEF RiskOK, Exact

\* The risks that a round keeps.
LEMMA KeptRisks ==
    ASSUME NEW s, NEW len \in Nat, DOMAIN s = 1 .. len, \A i \in 1 .. len : SignalOK(s[i])
    PROVE  /\ RisksOK(Kept(buildTopRisks(s)))
           /\ \A i \in DOMAIN Kept(buildTopRisks(s)) : Exact(Kept(buildTopRisks(s))[i])
<1> DEFINE b == buildTopRisks(s)
           top == Kept(b)
           keep(r) == [pvc |-> r.pvc, used |-> r.used, cap |-> r.cap, weekly |-> r.weekly, at |-> r.at,
                       alert |-> r.alert, wide |-> r.days # None /\ Less(<<MaxDuration, 1>>, r.days)]
<1>1. PICK m \in Nat : /\ m <= TopN /\ b = [k \in 1 .. m |-> b[k]]
                       /\ \A k \in 1 .. m : \E i \in 1 .. len : b[k] = s[i] /\ Positive(s[i].weekly)
    BY TopRisksFrom
<1>2. top = [k \in DOMAIN b |-> keep(b[k])]
    BY DEF Kept, Collect
<1> HIDE DEF b, top
<1>3. DOMAIN b = 1 .. m
    BY <1>1
<1>4. ASSUME NEW k \in 1 .. m PROVE RiskOK(keep(b[k])) /\ Exact(keep(b[k]))
    <2>1. SignalOK(b[k]) /\ Positive(b[k].weekly)
        BY <1>1
    <2> DEFINE r == keep(b[k])
    <2>2. r = [pvc |-> b[k].pvc, used |-> b[k].used, cap |-> b[k].cap, weekly |-> b[k].weekly, at |-> b[k].at,
               alert |-> b[k].alert, wide |-> b[k].days # None /\ Less(<<MaxDuration, 1>>, b[k].days)]
        OBVIOUS
    <2> HIDE DEF r, keep
    <2>3. RiskOK(r) /\ Exact(r)
        BY <2>1, <2>2, KeptRisk
    <2>4. QED
        BY <2>3 DEF r
<1> HIDE DEF keep
<1>5. \A k \in 1 .. m : keep(b[k]) \in Risk
    BY <1>4 DEF RiskOK
<1>6. DOMAIN top = 1 .. m /\ \A k \in 1 .. m : top[k] = keep(b[k])
    BY <1>2, <1>3
<1>7. top \in Seq(Risk) /\ Len(top) = m
    BY <1>2, <1>3, <1>5
<1>8. QED
    BY <1>1, <1>4, <1>6, <1>7 DEF RisksOK, top, b

\* What a report says of changes and anomalies.
Change == [pvc : PVCs, type : {"new", "escalated", "recovered"}]
Unusual == [pvc : PVCs, type : AnomalyTypes, severity : {"warning", "critical"}]

\* Risks are about PVCs.
LEMMA NamedPVCs ==
    ASSUME NEW risks, RisksOK(risks)
    PROVE  /\ Named(risks) \subseteq PVCs
           /\ \A r \in ToSet(risks) : RiskOK(r) /\ r.pvc \in PVCs
<1>1. \A i \in DOMAIN risks : RiskOK(risks[i])
    BY DEF RisksOK
<1>2. \A r \in ToSet(risks) : RiskOK(r)
    BY <1>1 DEF ToSet
<1>3. \A r \in ToSet(risks) : r.pvc \in PVCs
    BY <1>2 DEF RiskOK, Risk
<1>4. QED
    BY <1>2, <1>3 DEF Named

\* The escalations of a report, each with its reason.
Escalated(old, new) ==
    \A p \in Of(new.changes, "escalated") :
        \E o \in ToSet(old.topRisks), n \in ToSet(new.topRisks) :
            o.pvc = p /\ n.pvc = p /\ Reason(o, n)

\* The changes between two lists of risks, and the reasons of escalations.
LEMMA ChangesType ==
    ASSUME NEW prev, RisksOK(prev), NEW curr, RisksOK(curr), \A i \in DOMAIN curr : Exact(curr[i])
    PROVE  /\ detectRiskChanges(prev, curr) \subseteq Change
           /\ \A p \in Of(detectRiskChanges(prev, curr), "escalated") :
                \E o \in ToSet(prev), n \in ToSet(curr) : o.pvc = p /\ n.pvc = p /\ Reason(o, n)
<1> DEFINE A == Named(curr) \ Named(prev)
           B == Named(prev) \ Named(curr)
           E == {r \in ToSet(curr) : \E q \in ToSet(prev) : q.pvc = r.pvc /\ isEscalatedRisk(q, r)}
           C == {[pvc |-> p, type |-> "new"] : p \in A} \cup {[pvc |-> p, type |-> "recovered"] : p \in B}
                \cup {[pvc |-> r.pvc, type |-> "escalated"] : r \in E}
<1>1. detectRiskChanges(prev, curr) = C
    BY DEF detectRiskChanges
<1>2. A \subseteq PVCs /\ B \subseteq PVCs
    BY NamedPVCs
<1>3. \A r \in ToSet(prev) : RiskOK(r)
    BY NamedPVCs
<1>4. \A r \in ToSet(curr) : RiskOK(r) /\ r.pvc \in PVCs /\ Exact(r)
    BY NamedPVCs DEF ToSet
<1>5. \A r \in E : r.pvc \in PVCs
    BY <1>4
<1>6. ASSUME NEW r \in E
      PROVE  \E o \in ToSet(prev) : o.pvc = r.pvc /\ Reason(o, r) /\ r \in ToSet(curr)
    <2>1. PICK q \in ToSet(prev) : q.pvc = r.pvc /\ isEscalatedRisk(q, r)
        OBVIOUS
    <2>2. RiskOK(q) /\ RiskOK(r) /\ Exact(r) /\ r \in ToSet(curr)
        BY <1>3, <1>4
    <2>3. Reason(q, r)
        BY <2>1, <2>2, EscalatedFor DEF Exact
    <2>4. QED
        BY <2>1, <2>2, <2>3
<1> HIDE DEF A, B, E
<1>7. C \subseteq Change
    BY <1>2, <1>5 DEF Change
<1>8. \A c \in C : c.type = "escalated" => \E r \in E : c.pvc = r.pvc
    OBVIOUS
<1> HIDE DEF C
<1>9. \A p \in Of(C, "escalated") : \E r \in E : p = r.pvc
    BY <1>8 DEF Of
<1>10. QED
    BY <1>1, <1>6, <1>7, <1>9

\* The anomalies of signals.
LEMMA AnomaliesType ==
    ASSUME NEW s, NEW len \in Nat, DOMAIN s = 1 .. len, \A i \in 1 .. len : SignalOK(s[i])
    PROVE  detectPVCAnomalies(s) \subseteq Unusual
<1>1. \A r \in ToSet(s) : r.pvc \in PVCs
    BY DEF ToSet, SignalOK
<1>2. ASSUME NEW a \in detectPVCAnomalies(s) PROVE a \in Unusual
    <2> DEFINE X == {x \in ToSet(s) \X AnomalyTypes : Anomaly(x[1], x[2])}
    <2>1. PICK q \in X : a = [pvc |-> q[1].pvc, type |-> q[2], severity |-> severity(q[1], q[2])]
        BY <1>2 DEF detectPVCAnomalies
    <2>2. q[1] \in ToSet(s) /\ q[2] \in AnomalyTypes
        OBVIOUS
    <2>3. severity(q[1], q[2]) \in {"warning", "critical"}
        BY DEF severity
    <2> HIDE DEF X
    <2>4. QED
        BY <1>1, <2>1, <2>2, <2>3 DEF Unusual
<1>3. QED
    BY <1>2

\* Recommendations: a text, and how old it is.
Recommended == [text : {"none", "fallback", "llm"}, age : (0 .. LLMInterval) \cup {None}]

\* Recommendations stay what they are.
LEMMA RecsType ==
    ASSUME NEW llm, NEW prev, prev.recs \in Recommended, NEW forecasts
    PROVE  refreshRecommendations(llm, prev, forecasts) \in Recommended
<1> DEFINE kept == [prev.recs EXCEPT !.text = IF @ = "none" THEN "fallback" ELSE @]
<1>1. NoRecs \in Recommended
    BY DEF NoRecs, Recommended
<1>2. [text |-> "llm", age |-> 0] \in Recommended
    BY SpecsAssumption DEF Recommended
<1>3. kept \in Recommended
    BY DEF Recommended
<1>4. refreshRecommendations(llm, prev, forecasts) \in {prev.recs, NoRecs, [text |-> "llm", age |-> 0], kept}
    BY DEF refreshRecommendations
<1>5. QED
    BY <1>1, <1>2, <1>3, <1>4

\* A report: its fields, what they hold and how they hold together.
Fields == {"ready", "pvcs", "summary", "topRisks", "changes", "forecasts", "recs", "anomalies"}
OncePerPVC(items) == \A i, j \in DOMAIN items : items[i].pvc = items[j].pvc => items[i] = items[j]
ReportOK(st) ==
    /\ DOMAIN st = Fields /\ st.ready \in {"True", "False", "Unknown"}
    /\ st.pvcs \in Seq(Item) /\ OncePerPVC(st.pvcs)
    /\ RisksOK(st.topRisks)
    /\ st.changes \subseteq Change /\ st.anomalies \subseteq Unusual
    /\ \A f \in st.forecasts : f.budget.bytes > 0 /\ f.used >= 0 /\ Optional(f.days)
    /\ IsFiniteSet(st.forecasts)
    /\ st.recs \in Recommended
    /\ Visible(st.summary) /\ Within(st.forecasts)

\* A report is a status.
LEMMA ReportStatus ==
    ASSUME NEW st, ReportOK(st)
    PROVE  StatusOK(st)
<1>1. /\ st.ready \in {"True", "False", "Unknown"}
      /\ st.changes \subseteq [pvc : PVCs, type : {"new", "escalated", "recovered"}]
      /\ st.anomalies \subseteq [pvc : PVCs, type : AnomalyTypes, severity : {"warning", "critical"}]
      /\ \A f \in st.forecasts : f.budget.bytes > 0 /\ f.used >= 0 /\ Optional(f.days)
    BY Zenon DEF ReportOK, Change, Unusual
<1>2. ASSUME NEW i \in DOMAIN st.pvcs
      PROVE  /\ st.pvcs[i].pvc \in PVCs /\ st.pvcs[i].alert \in BOOLEAN
             /\ {st.pvcs[i].ratio, st.pvcs[i].growth, st.pvcs[i].r2} \subseteq Fraction
             /\ Optional(st.pvcs[i].days)
    <2>1. st.pvcs \in Seq(Item)
        BY DEF ReportOK
    <2>2. st.pvcs[i] \in Item
        BY <2>1
    <2>3. QED
        BY <2>2 DEF Item, Optional
<1>3. Len(st.topRisks) <= TopN /\ \A i \in DOMAIN st.topRisks : Optional(st.topRisks[i].at)
    BY DEF ReportOK, RisksOK, RiskOK, Risk, Optional
<1>4. st.recs.text \in {"none", "fallback", "llm"} /\ (st.recs.age = None \/ st.recs.age \in 0 .. LLMInterval)
    BY DEF ReportOK, Recommended
<1>5. QED
    BY <1>1, <1>2, <1>3, <1>4 DEF StatusOK

\* No report at all is one.
LEMMA NothingReported == ReportOK(Cleared) /\ ReportOK(Unreported) /\ Cleared.ready # "True"
<1>1. RisksOK(<<>>) /\ OncePerPVC(<<>>) /\ <<>> \in Seq(Item)
    BY WindowsAssumption DEF RisksOK, OncePerPVC
<1>2. NoRecs \in Recommended
    BY DEF NoRecs, Recommended
<1>3. Visible(None) /\ Within({}) /\ IsFiniteSet({})
    BY FS_EmptySet DEF Visible, Within
<1>4. /\ DOMAIN Cleared = Fields /\ Cleared.ready = "False" /\ Cleared.pvcs = <<>> /\ Cleared.topRisks = <<>>
      /\ Cleared.changes = {} /\ Cleared.anomalies = {} /\ Cleared.forecasts = {} /\ Cleared.recs = NoRecs
      /\ Cleared.summary = None
    BY DEF Cleared, Fields
<1>5. /\ DOMAIN Unreported = Fields /\ Unreported.ready = "Unknown" /\ Unreported.pvcs = <<>>
      /\ Unreported.topRisks = <<>> /\ Unreported.changes = {} /\ Unreported.anomalies = {}
      /\ Unreported.forecasts = {} /\ Unreported.recs = NoRecs /\ Unreported.summary = None
    BY DEF Unreported, Cleared, Fields
<1>6. ReportOK(Cleared)
    BY <1>1, <1>2, <1>3, <1>4 DEF ReportOK
<1>7. ReportOK(Unreported)
    BY <1>1, <1>2, <1>3, <1>5 DEF ReportOK
<1>8. QED
    BY <1>4, <1>6, <1>7

\* A day earlier is earlier.
LEMMA DayEarlier ==
    ASSUME NEW a \in Fraction
    PROVE  Plus(a, <<-1, 1>>) \in Fraction /\ ~Less(a, Plus(a, <<-1, 1>>))
<1> DEFINE n == a[1]
           d == a[2]
           b == Plus(a, <<-1, 1>>)
<1>1. n \in Int /\ d \in Int /\ d > 0
    BY FractionParts
<1>2. <<-1, 1>> \in Fraction
    BY FractionFrom
<1>3. b \in Fraction
    BY <1>2, PlusFraction
<1>4. b[1] = n * 1 + (-1) * d /\ b[2] = d * 1
    BY DEF Plus
<1> HIDE DEF n, d, b
<1>5. b[1] = n - d /\ b[2] = d
    BY <1>1, <1>4
<1>6. (n - d) * d = n * d - d * d /\ d * d \in Int /\ d * d > 0 /\ n * d \in Int
    BY <1>1, PositiveProduct
<1>7. ~(n * d < (n - d) * d)
    <2> DEFINE x == n * d
               y == d * d
               z == (n - d) * d
    <2>1. z = x - y /\ y \in Int /\ y > 0 /\ x \in Int
        BY <1>6
    <2> HIDE DEF x, y, z
    <2>2. ~(x < z)
        BY <2>1
    <2>3. QED
        BY <2>2 DEF x, z
<1>8. ~Less(a, b)
    BY <1>5, <1>7 DEF Less, n, d
<1>9. QED
    BY <1>3, <1>8 DEF b

\* Two lists of risks that differ in their dates only.
Alike(r, q) ==
    /\ r.pvc = q.pvc /\ r.used = q.used /\ r.cap = q.cap /\ r.weekly = q.weekly
    /\ r.alert = q.alert /\ r.wide = q.wide
AllAlike(risks, olds) == DOMAIN risks = DOMAIN olds /\ \A i \in DOMAIN olds : Alike(risks[i], olds[i])

\* A risk stays one when its date comes closer.
LEMMA RiskCloser ==
    ASSUME NEW r, RiskOK(r)
    PROVE  /\ RiskOK([r EXCEPT !.at = Closer(@)])
           /\ Alike([r EXCEPT !.at = Closer(@)], r)
<1> DEFINE at == Closer(r.at)
           q == [r EXCEPT !.at = at]
           R == Remaining(r.cap, r.used, r.weekly)
<1>1. r \in Risk /\ r.at \in Fraction \cup {None} /\ r.cap \in Nat /\ r.used \in Nat /\ r.weekly \in Fraction
    BY DEF RiskOK, Risk
<1>2. Positive(r.weekly) /\ (~r.wide /\ r.at # None => ~Less(R, r.at))
    BY DEF RiskOK
<1>3. at \in Fraction \cup {None}
    BY <1>1, DayEarlier DEF Closer
<1>4. ASSUME ~r.wide, at # None PROVE ~Less(R, at)
    <2>1. r.at # None /\ r.at \in Fraction /\ at = Plus(r.at, <<-1, 1>>)
        BY <1>1, <1>4 DEF Closer
    <2>2. at \in Fraction /\ ~Less(r.at, at)
        BY <2>1, DayEarlier
    <2>3. R \in Fraction
        BY <1>1, <1>2, RemainingType
    <2> HIDE DEF R, at
    <2>4. Less(R, at) => Less(R, r.at) \/ Less(r.at, at)
        BY <2>1, <2>2, <2>3, FractionOrder
    <2>5. QED
        BY <1>2, <1>4, <2>1, <2>2, <2>4
<1> HIDE DEF at
<1>5. q \in Risk /\ Alike(q, r) /\ q.at = at
    BY <1>1, <1>3 DEF Risk, Alike
<1> HIDE DEF q
<1>6. RiskOK(q)
    BY <1>2, <1>4, <1>5 DEF RiskOK, Alike
<1>7. QED
    BY <1>5, <1>6 DEF q, at

\* So a list of risks stays one.
LEMMA RisksCloser ==
    ASSUME NEW risks, RisksOK(risks)
    PROVE  RisksOK(Older(risks)) /\ AllAlike(Older(risks), risks) /\ Named(Older(risks)) = Named(risks)
<1> DEFINE closer(r) == [r EXCEPT !.at = Closer(@)]
           o == Older(risks)
<1>1. o = [i \in DOMAIN risks |-> closer(risks[i])]
    BY DEF Older
<1>2. risks \in Seq(Risk) /\ Len(risks) <= TopN /\ \A i \in DOMAIN risks : RiskOK(risks[i])
    BY DEF RisksOK
<1>3. \A i \in DOMAIN risks : RiskOK(closer(risks[i])) /\ Alike(closer(risks[i]), risks[i])
    BY <1>2, RiskCloser
<1> HIDE DEF closer, o
<1>4. DOMAIN risks = 1 .. Len(risks) /\ Len(risks) \in Nat
    BY <1>2
<1>5. \A i \in DOMAIN risks : closer(risks[i]) \in Risk
    BY <1>3 DEF RiskOK
<1>6. o \in Seq(Risk) /\ Len(o) = Len(risks) /\ DOMAIN o = DOMAIN risks
    BY <1>1, <1>4, <1>5
<1>7. \A i \in DOMAIN risks : RiskOK(o[i]) /\ Alike(o[i], risks[i])
    BY <1>1, <1>3
<1>8. RisksOK(o) /\ AllAlike(o, risks)
    BY <1>2, <1>6, <1>7 DEF RisksOK, AllAlike
<1>9. Named(o) = Named(risks)
    BY <1>6, <1>7 DEF Named, ToSet, Alike
<1>10. QED
    BY <1>8, <1>9 DEF o

\* A day keeps a report, and what it says but for dates and ages.
LEMMA AgedReport ==
    ASSUME NEW st, ReportOK(st)
    PROVE  /\ ReportOK(Aged(st)) /\ Aged(st).ready = st.ready /\ Aged(st).changes = st.changes
           /\ Aged(st).pvcs = st.pvcs /\ Aged(st).anomalies = st.anomalies
           /\ Aged(st).forecasts = st.forecasts /\ AllAlike(Aged(st).topRisks, st.topRisks)
           /\ Named(Aged(st).topRisks) = Named(st.topRisks)
<1> DEFINE o == Older(st.topRisks)
           a == [st.recs EXCEPT !.age = IF @ = None \/ @ = LLMInterval THEN @ ELSE @ + 1]
<1>1. Aged(st) = [st EXCEPT !.topRisks = o, !.recs = a]
    BY DEF Aged
<1>2. RisksOK(o) /\ AllAlike(o, st.topRisks) /\ Named(o) = Named(st.topRisks)
    BY RisksCloser DEF ReportOK
<1>3. a \in Recommended
    <2>1. st.recs \in Recommended /\ LLMInterval \in Nat
        BY SpecsAssumption DEF ReportOK
    <2> DEFINE x == st.recs.age
               y == IF x = None \/ x = LLMInterval THEN x ELSE x + 1
    <2>2. x \in (0 .. LLMInterval) \cup {None}
        BY <2>1 DEF Recommended
    <2> HIDE DEF x
    <2>3. y \in (0 .. LLMInterval) \cup {None}
        BY <2>1, <2>2
    <2>4. a = [st.recs EXCEPT !.age = y]
        BY DEF x
    <2> HIDE DEF y, a
    <2>5. QED
        BY <2>1, <2>3, <2>4 DEF Recommended
<1> HIDE DEF o, a
<1>4. DOMAIN st = Fields
    BY DEF ReportOK
<1>5. /\ DOMAIN Aged(st) = Fields /\ Aged(st).ready = st.ready /\ Aged(st).changes = st.changes
      /\ Aged(st).pvcs = st.pvcs /\ Aged(st).anomalies = st.anomalies /\ Aged(st).forecasts = st.forecasts
      /\ Aged(st).summary = st.summary /\ Aged(st).topRisks = o /\ Aged(st).recs = a
    BY <1>1, <1>4 DEF Fields
<1>6. ReportOK(Aged(st))
    BY <1>2, <1>3, <1>5 DEF ReportOK
<1>7. QED
    BY <1>2, <1>5, <1>6

\* The changes of a report lead from the risks of another to its own, and each of its
\* escalations has a reason.
AddsUp(old, new) ==
    /\ Of(new.changes, "new") = Named(new.topRisks) \ Named(old.topRisks)
    /\ Of(new.changes, "recovered") = Named(old.topRisks) \ Named(new.topRisks)
    /\ Escalated(old, new)

\* The volumes of a type of change, from the changes and back.
LEMMA VolumesOf ==
    ASSUME NEW C, NEW t, NEW A,
           \A c \in C : c.type = t => c.pvc \in A,
           \A p \in A : \E c \in C : c.type = t /\ c.pvc = p
    PROVE  Of(C, t) = A
<1>1. \A p : p \in Of(C, t) <=> \E c \in C : c.type = t /\ c.pvc = p
    BY DEF Of
<1>2. QED
    BY <1>1

\* The changes that are found between two lists of risks add up.
LEMMA ChangesFound ==
    ASSUME NEW prev, NEW curr
    PROVE  /\ Of(detectRiskChanges(prev, curr), "new") = Named(curr) \ Named(prev)
           /\ Of(detectRiskChanges(prev, curr), "recovered") = Named(prev) \ Named(curr)
<1> DEFINE A == Named(curr) \ Named(prev)
           B == Named(prev) \ Named(curr)
           E == {r \in ToSet(curr) : \E q \in ToSet(prev) : q.pvc = r.pvc /\ isEscalatedRisk(q, r)}
           C == {[pvc |-> p, type |-> "new"] : p \in A} \cup {[pvc |-> p, type |-> "recovered"] : p \in B}
                \cup {[pvc |-> r.pvc, type |-> "escalated"] : r \in E}
<1>1. detectRiskChanges(prev, curr) = C
    BY DEF detectRiskChanges
<1> HIDE DEF A, B, E
<1>2. /\ \A c \in C : c.type = "new" => c.pvc \in A
      /\ \A c \in C : c.type = "recovered" => c.pvc \in B
    BY DEF C
<1>3. \A p \in A : \E c \in C : c.type = "new" /\ c.pvc = p
    <2> TAKE p \in A
    <2> DEFINE c == [pvc |-> p, type |-> "new"]
    <2>1. c \in C /\ c.type = "new" /\ c.pvc = p
        BY DEF C
    <2>2. QED
        BY <2>1
<1>4. \A p \in B : \E c \in C : c.type = "recovered" /\ c.pvc = p
    <2> TAKE p \in B
    <2> DEFINE c == [pvc |-> p, type |-> "recovered"]
    <2>1. c \in C /\ c.type = "recovered" /\ c.pvc = p
        BY DEF C
    <2>2. QED
        BY <2>1
<1> HIDE DEF C
<1>5. Of(C, "new") = A
    BY <1>2, <1>3, VolumesOf, ZenonT(60)
<1>6. Of(C, "recovered") = B
    BY <1>2, <1>4, VolumesOf, ZenonT(60)
<1>7. QED
    BY <1>1, <1>5, <1>6 DEF A, B

\* A map with an acceleration and a date for every PVC that is summarised.
Keyed(items, m) == \A s \in ToSet(items) : s.pvc \in DOMAIN m /\ DOMAIN m[s.pvc] = {"accel", "at"}

\* Signals by PVC are such a map, and stay one when the dates come closer.
LEMMA RisksKeyed ==
    ASSUME VolumesInv, wrapped \in Wraps, NEW items, NEW thr, ItemsOK(items, thr)
    PROVE  Keyed(items, riskMap(Signals(items)))
<1> SUFFICES ASSUME NEW s \in ToSet(items)
             PROVE  /\ s.pvc \in DOMAIN riskMap(Signals(items))
                    /\ DOMAIN riskMap(Signals(items))[s.pvc] = {"accel", "at"}
    BY DEF Keyed
<1> DEFINE sg == Signals(items)
<1>1. items \in Seq(Item) /\ DOMAIN items = 1 .. Len(items)
    BY DEF ItemsOK
<1>2. PICK i \in 1 .. Len(items) : s = items[i]
    BY <1>1 DEF ToSet
<1>3. DOMAIN sg = 1 .. Len(items) /\ sg[i].pvc = s.pvc
    BY <1>2, SignalsType
<1> HIDE DEF sg
<1>4. s.pvc \in Named(sg)
    BY <1>3 DEF Named, ToSet
<1> DEFINE c == CHOOSE x \in ToSet(sg) : x.pvc = s.pvc
<1>5. s.pvc \in DOMAIN riskMap(sg) /\ riskMap(sg)[s.pvc] = [accel |-> c.accel, at |-> c.at]
    BY <1>4 DEF riskMap
<1> HIDE DEF c
<1>6. DOMAIN riskMap(sg)[s.pvc] = {"accel", "at"}
    BY <1>5
<1>7. QED
    BY <1>5, <1>6 DEF sg

\* What a round reports of a plan, from the last report.
LEMMA Analysed ==
    ASSUME VolumesInv, wrapped \in Wraps, NEW spec \in Specs, NEW st, ReportOK(st),
           NEW items, items = Summaries(listScopedPVCs(spec.namespaces), spec, st),
           NEW signals, signals = Signals(items), NEW top, top = Kept(buildTopRisks(signals)),
           NEW forecasts, forecasts = buildBudgetForecasts(spec.budgets, items, signals, refs),
           NEW rep, rep = BuildReport(spec, st, items, signals, top, forecasts)
    PROVE  ReportOK(rep) /\ AddsUp(st, rep) /\ Keyed(rep.pvcs, riskMap(signals))
<1>1. st.pvcs \in Seq(Item) /\ RisksOK(st.topRisks) /\ st.recs \in Recommended
    BY DEF ReportOK
<1> DEFINE thr == Thresholds(spec)
<1>2. ItemsOK(items, thr)
    BY <1>1, ItemsType
<1>3. items \in Seq(Item) /\ OncePerPVC(items)
    BY <1>2 DEF ItemsOK, OncePerPVC
<1>4. Visible(buildStatusSummary(items))
    BY <1>2, AlertShown
<1> HIDE DEF thr
<1> DEFINE n == Len(items)
<1>5. n \in Nat
    BY <1>3
<1>6. DOMAIN signals = 1 .. n /\ \A i \in 1 .. n : SignalOK(signals[i])
    BY <1>2, SignalsType
<1>7. \A i \in 1 .. n : signals[i].weekly \in Fraction
    BY <1>6 DEF SignalOK
<1>8. RisksOK(top) /\ \A i \in DOMAIN top : Exact(top[i])
    <2> HIDE DEF n
    <2>1. QED
        BY <1>5, <1>6, KeptRisks
<1>9. detectPVCAnomalies(signals) \subseteq Unusual
    <2> HIDE DEF n
    <2>1. QED
        BY <1>5, <1>6, AnomaliesType
<1>10. IsFiniteSet(spec.budgets) /\ \A b \in spec.budgets : b.bytes \in Int
    BY SpecsAssumption
<1>11. IsFiniteSet(forecasts) /\ \A f \in forecasts : \E b \in spec.budgets : ForecastOf(f, b, items, refs)
    BY <1>3, <1>6, <1>7, <1>10, ForecastsFrom
<1>12. Within(forecasts)
    BY <1>3, <1>11, ForecastsWithin
<1>13. \A f \in forecasts : f.budget.bytes > 0 /\ f.used >= 0 /\ Optional(f.days)
    BY <1>11 DEF ForecastOf
<1>14. refreshRecommendations(spec.llm, st, forecasts) \in Recommended
    BY <1>1, RecsType
<1> DEFINE changes == detectRiskChanges(st.topRisks, top)
<1>15. /\ changes \subseteq Change
       /\ \A p \in Of(changes, "escalated") :
            \E o \in ToSet(st.topRisks), r \in ToSet(top) : o.pvc = p /\ r.pvc = p /\ Reason(o, r)
    BY <1>1, <1>8, ChangesType
<1>16. /\ Of(changes, "new") = Named(top) \ Named(st.topRisks)
       /\ Of(changes, "recovered") = Named(st.topRisks) \ Named(top)
    BY ChangesFound
<1>17. /\ DOMAIN rep = Fields /\ rep.ready = "True" /\ rep.pvcs = items
       /\ rep.summary = buildStatusSummary(items) /\ rep.topRisks = top /\ rep.changes = changes
       /\ rep.forecasts = forecasts /\ rep.recs = refreshRecommendations(spec.llm, st, forecasts)
       /\ rep.anomalies = detectPVCAnomalies(signals)
    BY DEF BuildReport, Fields
<1> HIDE DEF changes
<1>18. ReportOK(rep)
    BY <1>3, <1>4, <1>8, <1>9, <1>11, <1>12, <1>13, <1>14, <1>15, <1>17 DEF ReportOK
<1>19. Escalated(st, rep)
    BY <1>15, <1>17 DEF Escalated
<1>20. Keyed(rep.pvcs, riskMap(signals))
    BY <1>2, <1>17, RisksKeyed
<1>21. QED
    BY <1>16, <1>17, <1>18, <1>19, <1>20 DEF AddsUp

\* Dates that come closer do not matter for how the changes add up.
LEMMA AddsUpAlike ==
    ASSUME NEW old, NEW new, AddsUp(old, new), NEW older, NEW newer,
           AllAlike(older.topRisks, old.topRisks), AllAlike(newer.topRisks, new.topRisks),
           Named(older.topRisks) = Named(old.topRisks), Named(newer.topRisks) = Named(new.topRisks),
           newer.changes = new.changes
    PROVE  AddsUp(older, newer)
<1>1. \A o \in ToSet(old.topRisks) : \E a \in ToSet(older.topRisks) : Alike(a, o)
    BY DEF AllAlike, ToSet
<1>2. \A r \in ToSet(new.topRisks) : \E b \in ToSet(newer.topRisks) : Alike(b, r)
    BY DEF AllAlike, ToSet
<1>3. ASSUME NEW p \in Of(newer.changes, "escalated")
      PROVE  \E a \in ToSet(older.topRisks), b \in ToSet(newer.topRisks) :
                a.pvc = p /\ b.pvc = p /\ Reason(a, b)
    <2>1. PICK o \in ToSet(old.topRisks), r \in ToSet(new.topRisks) : o.pvc = p /\ r.pvc = p /\ Reason(o, r)
        BY DEF AddsUp, Escalated
    <2>2. PICK a \in ToSet(older.topRisks) : Alike(a, o)
        BY <1>1
    <2>3. PICK b \in ToSet(newer.topRisks) : Alike(b, r)
        BY <1>2
    <2>4. a.pvc = p /\ b.pvc = p /\ Reason(a, b)
        BY <2>1, <2>2, <2>3 DEF Alike, Reason
    <2>5. QED
        BY <2>4
<1>4. Escalated(older, newer)
    BY <1>3 DEF Escalated
<1>5. QED
    BY <1>4 DEF AddsUp

-----------------------------------------------------------------------------
\* The invariants.

\* What rounds find in the cluster: the volumes that there may be, one of the two ways
\* to wrap, and, where the operator found the Prometheus operator, that one.
ClusterInv == VolumesInv /\ wrapped \in Wraps /\ (hasPrometheusOperator => crds)

\* What a plan and a round consist of.
PlanParts(p) == {"spec", "active", "status"} \subseteq DOMAIN p /\ p.spec \in Specs /\ ReportOK(p.status)
RoundParts(r) ==
    /\ {"pc", "current", "report", "riskByKey"} \subseteq DOMAIN r /\ ReportOK(r.report)
    /\ Keyed(r.report.pvcs, r.riskByKey)
    /\ r.pc \in {"inactive", "publish", "update"}
    /\ r.pc = "inactive" => r.report.ready # "True"
    /\ r.pc # "inactive" => "spec" \in DOMAIN r /\ r.spec \in Specs

\* Plan, copy and round hold reports; a copy that is the latest is the plan, and the
\* report of a round that nobody has overtaken leads from the status of the plan.
ChangesInv ==
    /\ PlanParts(plan) /\ PlanParts(cache) /\ fresh \in BOOLEAN
    /\ fresh => cache = plan
    /\ w # Idle => RoundParts(w)
    /\ w # Idle /\ w.current /\ w.pc # "inactive" => AddsUp(plan.status, w.report)

\* The cluster at the start.
LEMMA ClusterInvInit == Init => ClusterInv
<1> SUFFICES ASSUME Init PROVE ClusterInv
    OBVIOUS
<1>1. vol = Start /\ wrapped \in Wraps /\ crds \in BOOLEAN /\ hasPrometheusOperator = crds
    BY DEF Init
<1>2. Start \in [PVCs -> Held \cup {None}]
    BY VolumesAssumption DEF Held
<1>3. QED
    BY <1>1, <1>2 DEF ClusterInv, VolumesInv

\* The cluster, step by step.
LEMMA ClusterInvNext ==
    ASSUME ClusterInv, [Next]_vars
    PROVE  ClusterInv'
<1>1. CASE VolumeChanges
    <2>1. PICK p \in PVCs, v \in Volumes \cup {None} : vol' = [vol EXCEPT ![p] = v]
        BY <1>1 DEF VolumeChanges
    <2>2. v \in Held \cup {None}
        BY DEF Held
    <2>3. VolumesInv'
        BY <2>1, <2>2 DEF ClusterInv, VolumesInv
    <2>4. crds' = crds /\ wrapped' = wrapped /\ hasPrometheusOperator' = hasPrometheusOperator
        BY <1>1 DEF VolumeChanges
    <2>5. QED
        BY <2>3, <2>4 DEF ClusterInv
<1>2. CASE InstallCRDs
    BY <1>2 DEF InstallCRDs, ClusterInv, VolumesInv
<1>3. CASE Restart
    BY <1>3 DEF Restart, cluster, ClusterInv, VolumesInv
<1>4. CASE ~VolumeChanges /\ ~InstallCRDs /\ ~Restart
    <2>1. vol' = vol /\ crds' = crds /\ wrapped' = wrapped /\ hasPrometheusOperator' = hasPrometheusOperator
        BY <1>4 DEF Next, Round, EditPlan, Supersede, LookupsChange, ProviderChanges, Sync, Day, UpdateFails,
           UpdateStatus, MarkInactive, Persist, TakeInactive, Publish, PublishPartly, Analyse, vars, cluster
    <2>2. QED
        BY <2>1 DEF ClusterInv, VolumesInv
<1>5. QED
    BY <1>1, <1>2, <1>3, <1>4

\* The reports at the start.
LEMMA ChangesInvInit == Init => ChangesInv
<1> SUFFICES ASSUME Init PROVE ChangesInv
    OBVIOUS
<1>1. /\ plan \in [spec : Specs, active : BOOLEAN, status : {Unreported}] /\ cache = plan /\ w = Idle
      /\ fresh = TRUE
    BY DEF Init
<1>2. plan.status = Unreported /\ {"spec", "active", "status"} \subseteq DOMAIN plan /\ plan.spec \in Specs
    BY <1>1
<1>3. PlanParts(plan)
    BY <1>2, NothingReported DEF PlanParts
<1>4. QED
    BY <1>1, <1>3 DEF ChangesInv

\* A plan with another spec, status or place among the plans.
LEMMA PlanReplaced ==
    ASSUME NEW p, PlanParts(p), NEW v
    PROVE  /\ v \in Specs => PlanParts([p EXCEPT !.spec = v]) /\ [p EXCEPT !.spec = v].status = p.status
           /\ PlanParts([p EXCEPT !.active = v]) /\ [p EXCEPT !.active = v].status = p.status
           /\ ReportOK(v) => PlanParts([p EXCEPT !.status = v])
           /\ [p EXCEPT !.status = v].status = v
<1>1. {"spec", "active", "status"} \subseteq DOMAIN p /\ p.spec \in Specs /\ ReportOK(p.status)
    BY DEF PlanParts
<1> DEFINE x == [p EXCEPT !.spec = v]
           y == [p EXCEPT !.active = v]
           z == [p EXCEPT !.status = v]
<1>2. /\ DOMAIN x = DOMAIN p /\ x.status = p.status /\ x.spec = v
      /\ DOMAIN y = DOMAIN p /\ y.status = p.status /\ y.spec = p.spec
    BY <1>1
<1>3. DOMAIN z = DOMAIN p /\ z.status = v /\ z.spec = p.spec
    BY <1>1
<1> HIDE DEF x, y, z
<1>4. (v \in Specs => PlanParts(x)) /\ PlanParts(y) /\ (ReportOK(v) => PlanParts(z))
    BY <1>1, <1>2, <1>3 DEF PlanParts
<1>5. QED
    BY <1>2, <1>3, <1>4 DEF x, y, z

\* An idle worker has no round.
LEMMA IdleRound == Idle.pc = "idle"
    BY DEF Idle

\* Changes around the plan.
LEMMA OutsideKeeps ==
    ASSUME ChangesInv, plan' = plan, cache' = cache, fresh' = fresh, w' = w
    PROVE  ChangesInv'
    BY DEF ChangesInv

\* Whoever holds the plan is overtaken; the report is what it was.
LEMMA OvertakenRound ==
    ASSUME w # Idle, RoundParts(w), w' = Overtaken
    PROVE  /\ RoundParts(w') /\ w'.pc = w.pc /\ w'.report = w.report /\ w'.current = FALSE
           /\ w'.riskByKey = w.riskByKey
<1>1. w' = [w EXCEPT !.current = FALSE]
    BY DEF Overtaken
<1>2. /\ DOMAIN w' = DOMAIN w /\ w'.pc = w.pc /\ w'.report = w.report /\ w'.current = FALSE
      /\ w'.riskByKey = w.riskByKey
    BY <1>1 DEF RoundParts
<1>3. "spec" \in DOMAIN w => w'.spec = w.spec
    BY <1>1
<1>4. QED
    BY <1>2, <1>3 DEF RoundParts

\* The spec is edited.
LEMMA EditKeeps ==
    ASSUME ChangesInv, EditPlan
    PROVE  ChangesInv' /\ plan'.status = plan.status
<1>1. PICK s \in Specs : plan' = [plan EXCEPT !.spec = s]
    BY DEF EditPlan
<1>2. fresh' = FALSE /\ w' = Overtaken /\ cache' = cache
    BY DEF EditPlan
<1>3. PlanParts(plan') /\ plan'.status = plan.status
    BY <1>1, PlanReplaced DEF ChangesInv
<1>4. CASE w = Idle
    BY <1>2, <1>3, <1>4 DEF ChangesInv, Overtaken
<1>5. CASE w # Idle
    <2>1. RoundParts(w') /\ w'.current = FALSE
        BY <1>2, <1>5, OvertakenRound DEF ChangesInv
    <2>2. QED
        BY <1>2, <1>3, <2>1 DEF ChangesInv
<1>6. QED
    BY <1>3, <1>4, <1>5

\* The plan becomes the active one, or is not any more.
LEMMA SupersedeKeeps ==
    ASSUME ChangesInv, Supersede
    PROVE  ChangesInv' /\ plan'.status = plan.status
<1>1. /\ plan' = [plan EXCEPT !.active = ~plan.active] /\ cache' = [cache EXCEPT !.active = ~cache.active]
      /\ fresh' = fresh /\ w' = w
    BY DEF Supersede
<1>2. PlanParts(plan') /\ plan'.status = plan.status /\ PlanParts(cache') /\ cache'.status = cache.status
    BY <1>1, PlanReplaced DEF ChangesInv
<1>3. fresh' => cache' = plan'
    BY <1>1 DEF ChangesInv
<1>4. QED
    BY <1>1, <1>2, <1>3 DEF ChangesInv

\* Dates by PVC come closer.
LEMMA KeyedCloser ==
    ASSUME NEW items, NEW m, Keyed(items, m)
    PROVE  /\ Keyed(items, Older(m))
           /\ \A s \in ToSet(items) : /\ Older(m)[s.pvc].accel = m[s.pvc].accel
                                     /\ Older(m)[s.pvc].at = Closer(m[s.pvc].at)
<1> SUFFICES ASSUME NEW s \in ToSet(items)
             PROVE  /\ s.pvc \in DOMAIN Older(m) /\ DOMAIN Older(m)[s.pvc] = {"accel", "at"}
                    /\ Older(m)[s.pvc].accel = m[s.pvc].accel
                    /\ Older(m)[s.pvc].at = Closer(m[s.pvc].at)
    BY DEF Keyed
<1>1. s.pvc \in DOMAIN m /\ DOMAIN m[s.pvc] = {"accel", "at"}
    BY DEF Keyed
<1> DEFINE c == Closer(m[s.pvc].at)
<1>2. s.pvc \in DOMAIN Older(m) /\ Older(m)[s.pvc] = [m[s.pvc] EXCEPT !.at = c]
    BY <1>1 DEF Older
<1> HIDE DEF c
<1>3. QED
    BY <1>1, <1>2 DEF c

\* A day passes for a round.
LEMMA AgedRound ==
    ASSUME RoundParts(w), w' = [w EXCEPT !.report = Aged(w.report), !.riskByKey = Older(w.riskByKey)]
    PROVE  /\ RoundParts(w') /\ w'.pc = w.pc /\ w'.current = w.current /\ w'.report = Aged(w.report)
           /\ w'.riskByKey = Older(w.riskByKey)
<1> DEFINE a == Aged(w.report)
           o == Older(w.riskByKey)
<1>1. w' = [w EXCEPT !.report = a, !.riskByKey = o]
    OBVIOUS
<1>2. ReportOK(w.report) /\ Keyed(w.report.pvcs, w.riskByKey)
    BY DEF RoundParts
<1>3. ReportOK(a) /\ a.ready = w.report.ready /\ a.pvcs = w.report.pvcs /\ Keyed(a.pvcs, o)
    BY <1>2, AgedReport, KeyedCloser
<1> HIDE DEF a, o
<1>4. /\ DOMAIN w' = DOMAIN w /\ w'.pc = w.pc /\ w'.current = w.current /\ w'.report = a
      /\ w'.riskByKey = o
    BY <1>1 DEF RoundParts
<1>5. "spec" \in DOMAIN w => w'.spec = w.spec
    BY <1>1
<1>6. RoundParts(w')
    BY <1>3, <1>4, <1>5 DEF RoundParts
<1>7. QED
    BY <1>4, <1>6 DEF a, o

\* A day passes for the plan, its copy and the round alike.
LEMMA DayKeeps ==
    ASSUME ChangesInv, Day
    PROVE  /\ ChangesInv' /\ plan'.status.changes = plan.status.changes
           /\ Named(plan'.status.topRisks) = Named(plan.status.topRisks)
<1>1. /\ plan' = [plan EXCEPT !.status = Aged(plan.status)]
      /\ cache' = [cache EXCEPT !.status = Aged(cache.status)]
      /\ w' = IF w = Idle THEN w
              ELSE [w EXCEPT !.report = Aged(w.report), !.riskByKey = Older(w.riskByKey)]
      /\ fresh' = fresh
    BY DEF Day
<1>2. PlanParts(plan) /\ PlanParts(cache) /\ ReportOK(plan.status) /\ ReportOK(cache.status)
    BY DEF ChangesInv, PlanParts
<1>3. ReportOK(Aged(plan.status)) /\ ReportOK(Aged(cache.status))
    BY <1>2, AgedReport
<1>4. PlanParts(plan') /\ plan'.status = Aged(plan.status) /\ PlanParts(cache')
    BY <1>1, <1>2, <1>3, PlanReplaced
<1>5. /\ plan'.status.changes = plan.status.changes
      /\ AllAlike(plan'.status.topRisks, plan.status.topRisks)
      /\ Named(plan'.status.topRisks) = Named(plan.status.topRisks)
    BY <1>2, <1>4, AgedReport
<1>6. fresh' \in BOOLEAN /\ (fresh' => cache' = plan')
    BY <1>1 DEF ChangesInv
<1>7. CASE w = Idle
    BY <1>1, <1>4, <1>5, <1>6, <1>7 DEF ChangesInv
<1>8. CASE w # Idle
    <2>1. /\ w' = [w EXCEPT !.report = Aged(w.report), !.riskByKey = Older(w.riskByKey)]
          /\ RoundParts(w) /\ ReportOK(w.report)
        BY <1>1, <1>8 DEF ChangesInv, RoundParts
    <2>2. RoundParts(w') /\ w'.pc = w.pc /\ w'.current = w.current /\ w'.report = Aged(w.report)
        BY <2>1, AgedRound
    <2>3. /\ w'.report.changes = w.report.changes /\ AllAlike(w'.report.topRisks, w.report.topRisks)
          /\ Named(w'.report.topRisks) = Named(w.report.topRisks)
        BY <2>1, <2>2, AgedReport
    <2>4. w'.current /\ w'.pc # "inactive" => AddsUp(plan'.status, w'.report)
        <3>1. w.current /\ w.pc # "inactive" => AddsUp(plan.status, w.report)
            BY <1>8 DEF ChangesInv
        <3>2. QED
            BY <1>5, <2>2, <2>3, <3>1, AddsUpAlike
    <2>5. QED
        BY <1>4, <1>5, <1>6, <2>2, <2>4 DEF ChangesInv
<1>9. QED
    BY <1>5, <1>7, <1>8

\* A round takes the copy: what it finds of an inactive plan is no report.
LEMMA TakeKeeps ==
    ASSUME ChangesInv, TakeInactive
    PROVE  ChangesInv'
<1>1. /\ w' = [pc |-> "inactive", current |-> fresh, report |-> Cleared, riskByKey |-> <<>>]
      /\ plan' = plan /\ cache' = cache /\ fresh' = fresh
    BY DEF TakeInactive
<1>2. Keyed(Cleared.pvcs, <<>>)
    BY DEF Keyed, ToSet, Cleared
<1>3. RoundParts(w') /\ w'.pc = "inactive"
    BY <1>1, <1>2, NothingReported DEF RoundParts
<1>4. QED
    BY <1>1, <1>3 DEF ChangesInv

\* A round analyses: the changes lead from the status of the copy.
LEMMA AnalyseKeeps ==
    ASSUME ChangesInv, ClusterInv, Analyse
    PROVE  ChangesInv'
<1> DEFINE items == Summaries(listScopedPVCs(cache.spec.namespaces), cache.spec, cache.status)
           signals == Signals(items)
           top == Kept(buildTopRisks(signals))
           forecasts == buildBudgetForecasts(cache.spec.budgets, items, signals, refs)
           rep == BuildReport(cache.spec, cache.status, items, signals, top, forecasts)
           m == riskMap(signals)
<1>1. w' = [pc |-> "publish", current |-> fresh, spec |-> cache.spec, riskByKey |-> m, report |-> rep]
    BY Zenon DEF Analyse
<1>2. plan' = plan /\ cache' = cache /\ fresh' = fresh
    BY DEF Analyse
<1>3. cache.spec \in Specs /\ ReportOK(cache.status)
    BY DEF ChangesInv, PlanParts
<1>4. VolumesInv /\ wrapped \in Wraps
    BY DEF ClusterInv
<1>5. ReportOK(rep) /\ AddsUp(cache.status, rep) /\ Keyed(rep.pvcs, m)
    BY <1>3, <1>4, Analysed, Zenon
<1> HIDE DEF rep, m
<1>6. /\ DOMAIN w' = {"pc", "current", "spec", "riskByKey", "report"} /\ w'.pc = "publish"
      /\ w'.current = fresh /\ w'.report = rep /\ w'.spec = cache.spec /\ w'.riskByKey = m
    BY <1>1
<1>7. RoundParts(w')
    BY <1>3, <1>5, <1>6 DEF RoundParts
<1>8. w'.current => AddsUp(plan'.status, w'.report)
    BY <1>2, <1>5, <1>6 DEF ChangesInv
<1>9. QED
    BY <1>2, <1>7, <1>8 DEF ChangesInv

\* Gauges, rule and dashboard are set; the report stays.
LEMMA PublishKeeps ==
    ASSUME ChangesInv, NEW failed, Publish(failed)
    PROVE  /\ ChangesInv' /\ plan' = plan /\ w # Idle /\ w.spec \in Specs
           /\ ReportOK(w.report) /\ w'.report = w.report /\ w'.riskByKey = w.riskByKey
<1>1. w' = [w EXCEPT !.pc = "update"] /\ w.pc = "publish" /\ plan' = plan /\ cache' = cache /\ fresh' = fresh
    BY DEF Publish
<1>2. w # Idle /\ RoundParts(w)
    BY <1>1, IdleRound DEF ChangesInv
<1>3. /\ DOMAIN w' = DOMAIN w /\ w'.pc = "update" /\ w'.current = w.current /\ w'.report = w.report
      /\ w'.riskByKey = w.riskByKey
    BY <1>1, <1>2 DEF RoundParts
<1>4. w'.spec = w.spec /\ "spec" \in DOMAIN w /\ w.spec \in Specs /\ ReportOK(w.report)
    BY <1>1, <1>2 DEF RoundParts
<1>5. RoundParts(w')
    BY <1>2, <1>3, <1>4 DEF RoundParts
<1>6. QED
    BY <1>1, <1>2, <1>3, <1>4, <1>5 DEF ChangesInv

\* The API accepts a status.
LEMMA PersistKeeps ==
    ASSUME ChangesInv, w # Idle, Persist(w.report)
    PROVE  ChangesInv' /\ plan'.status = w.report
<1>1. plan' = [plan EXCEPT !.status = w.report] /\ fresh' = FALSE /\ w' = Idle /\ cache' = cache
    BY DEF Persist
<1>2. ReportOK(w.report)
    BY DEF ChangesInv, RoundParts
<1>3. PlanParts(plan') /\ plan'.status = w.report
    BY <1>1, <1>2, PlanReplaced DEF ChangesInv
<1>4. QED
    BY <1>1, <1>3 DEF ChangesInv

\* A round ends without a new status, or the operator starts again.
LEMMA RoundOverKeeps ==
    ASSUME ChangesInv, plan' = plan, w' \in {w, Idle},
           (cache' = cache /\ fresh' = fresh) \/ (cache' = plan /\ fresh' = TRUE)
    PROVE  ChangesInv'
<1>1. w' # Idle => w' = w
    OBVIOUS
<1>2. PlanParts(plan') /\ PlanParts(cache') /\ fresh' \in BOOLEAN /\ (fresh' => cache' = plan')
    <2>1. PlanParts(plan) /\ PlanParts(cache) /\ fresh \in BOOLEAN /\ (fresh => cache = plan)
        BY DEF ChangesInv
    <2>2. CASE cache' = cache /\ fresh' = fresh
        BY <2>1, <2>2, Zenon
    <2>3. CASE cache' = plan /\ fresh' = TRUE
        BY <2>1, <2>3
    <2>4. QED
        BY <2>2, <2>3
<1>3. w' # Idle => RoundParts(w') /\ (w'.current /\ w'.pc # "inactive" => AddsUp(plan'.status, w'.report))
    BY <1>1 DEF ChangesInv
<1>4. QED
    BY <1>2, <1>3 DEF ChangesInv

\* What a step does to the status: it replaces it by the report of a round that
\* nobody has overtaken, or leaves the changes and the names of the risks.
Explained ==
    \/ plan'.status.changes = plan.status.changes /\ Named(plan'.status.topRisks) = Named(plan.status.topRisks)
    \/ plan'.status.ready # "True"
    \/ AddsUp(plan.status, plan'.status)

\* Every step keeps the invariant, and explains the status it leaves.
LEMMA ChangesInvNext ==
    ASSUME ChangesInv, ClusterInv, [Next]_vars
    PROVE  ChangesInv' /\ Explained
<1>1. CASE VolumeChanges \/ InstallCRDs \/ LookupsChange \/ ProviderChanges \/ UNCHANGED vars
    <2>1. plan' = plan /\ cache' = cache /\ fresh' = fresh /\ w' = w
        BY <1>1 DEF VolumeChanges, InstallCRDs, LookupsChange, ProviderChanges, vars
    <2>2. QED
        BY <2>1, OutsideKeeps DEF Explained
<1>2. CASE EditPlan
    BY <1>2, EditKeeps DEF Explained
<1>3. CASE Supersede
    BY <1>3, SupersedeKeeps DEF Explained
<1>4. CASE Sync \/ Restart \/ UpdateFails
    <2>1. /\ plan' = plan /\ w' \in {w, Idle}
          /\ (cache' = cache /\ fresh' = fresh) \/ (cache' = plan /\ fresh' = TRUE)
        BY <1>4 DEF Sync, Restart, UpdateFails
    <2>2. QED
        BY <2>1, RoundOverKeeps DEF Explained
<1>5. CASE Day
    BY <1>5, DayKeeps DEF Explained
<1>6. CASE TakeInactive
    BY <1>6, TakeKeeps DEF Explained, TakeInactive
<1>7. CASE Analyse
    <2>1. plan' = plan
        BY <1>7 DEF Analyse
    <2>2. QED
        BY <1>7, <2>1, AnalyseKeeps DEF Explained
<1>8. ASSUME NEW failed, Publish(failed) PROVE ChangesInv' /\ Explained
    BY <1>8, PublishKeeps DEF Explained
<1>9. CASE UpdateStatus \/ MarkInactive
    <2>1. w.pc \in {"update", "inactive"} /\ w.current /\ Persist(w.report)
        BY <1>9 DEF UpdateStatus, MarkInactive, Accepted
    <2>2. w # Idle
        BY <2>1, IdleRound
    <2>3. ChangesInv' /\ plan'.status = w.report
        BY <2>1, <2>2, PersistKeeps
    <2>4. AddsUp(plan.status, w.report) \/ w.report.ready # "True"
        BY <2>1, <2>2 DEF ChangesInv, RoundParts
    <2>5. QED
        BY <2>3, <2>4 DEF Explained
<1>10. QED
    BY <1>1, <1>2, <1>3, <1>4, <1>5, <1>6, <1>7, <1>8, <1>9 DEF Next, Round, PublishPartly

-----------------------------------------------------------------------------
\* What is published.

\* Gauges and rule, and that gauges once set say what the report says.
GaugesOK ==
    /\ DOMAIN gauges = {"pvc", "budget"}
    /\ \A p \in DOMAIN gauges.pvc : /\ {"at", "anomalies"} \subseteq DOMAIN gauges.pvc[p]
                                    /\ gauges.pvc[p].anomalies \subseteq AnomalyTypes
RuleOK == rule # None => rule.usage \in 0 .. 100
PublishedInv == GaugesOK /\ RuleOK /\ GaugesFollowReport

\* No gauges, no rule.
LEMMA PublishedInvInit == Init => PublishedInv
<1> SUFFICES ASSUME Init PROVE PublishedInv
    OBVIOUS
<1>1. gauges = NoGauges /\ rule = None /\ w = Idle
    BY DEF Init
<1>2. GaugesOK /\ RuleOK
    BY <1>1 DEF GaugesOK, RuleOK, NoGauges
<1>3. GaugesFollowReport
    BY <1>1, IdleRound DEF GaugesFollowReport
<1>4. QED
    BY <1>2, <1>3 DEF PublishedInv

\* A share of a whole is rounded to 0 to 100 hundredths.
LEMMA HundredthsRange ==
    ASSUME NEW a, a[2] \in Nat, a[2] > 0, a[1] \in 0 .. a[2]
    PROVE  Hundredths(a) \in 0 .. 100
<1> DEFINE n == a[1]
           d == a[2]
<1>1. n \in Nat /\ d \in Nat /\ d > 0 /\ n <= d
    OBVIOUS
<1> HIDE DEF n, d
<1> DEFINE x == 200 * n + d
           y == 2 * d
<1>2. x \in Nat /\ y \in Nat /\ y > 0 /\ x < 101 * y
    BY <1>1
<1> HIDE DEF x, y
<1>3. x \div y \in Int /\ x \div y >= 0 /\ x \div y <= 100
    BY <1>2
<1>4. Hundredths(a) = x \div y
    BY DEF Hundredths, n, d, x, y
<1>5. QED
    BY <1>3, <1>4

\* The rule has a threshold that a rule can have.
LEMMA PublishRule ==
    ASSUME NEW failed, ReconcileRule(failed), RuleOK, w.spec \in Specs
    PROVE  RuleOK'
<1> DEFINE u == Thresholds(w.spec).usage
           b == buildPrometheusRule(w.spec, w.report.topRisks)
<1>1. u \in Fraction /\ u[1] \in 0 .. u[2]
    BY ThresholdsType
<1>2. u[2] \in Nat /\ u[2] > 0
    BY <1>1, FractionParts
<1>3. b.usage = Hundredths(u)
    BY DEF buildPrometheusRule
<1> HIDE DEF u
<1>4. b.usage \in 0 .. 100
    BY <1>1, <1>2, <1>3, HundredthsRange
<1>5. rule' = rule \/ rule' = b
    BY DEF ReconcileRule
<1> HIDE DEF b
<1>6. QED
    BY <1>4, <1>5 DEF RuleOK

\* Of forecasts with the same labels one remains: there are finitely many, and their
\* days until breach are ordered.
LEMMA LastRemains ==
    ASSUME NEW fs, IsFiniteSet(fs), \A f \in fs : Optional(f.days),
           NEW e \in fs
    PROVE  \E f \in fs : Labels(f.budget) = Labels(e.budget) /\ Remains(f, fs)
<1> DEFINE Top(T) == \E m \in T : \A x \in T : ~Later(x.days, m.days)
           S == {n \in Nat : \A T \in SUBSET fs : Cardinality(T) = n + 1 => Top(T)}
           L == {f \in fs : Labels(f.budget) = Labels(e.budget)}
<1>1. \A T \in SUBSET fs : IsFiniteSet(T) /\ Cardinality(T) \in Nat
    BY FS_Subset, FS_CardinalityType
<1>2. \A x \in fs : x.days = None \/ x.days \in Fraction
    BY DEF Optional
<1>3. \A x, y \in fs : ~(Later(x.days, y.days) /\ Later(y.days, x.days))
    BY <1>2, FractionOrder DEF Later
<1>4. ASSUME NEW x \in fs, NEW y \in fs, NEW z \in fs, Later(x.days, z.days)
      PROVE  Later(x.days, y.days) \/ Later(y.days, z.days)
    <2> DEFINE a == x.days
               b == y.days
               c == z.days
    <2>1. /\ a = None \/ a \in Fraction
          /\ b = None \/ b \in Fraction
          /\ c \in Fraction
        BY <1>2, <1>4 DEF Later
    <2>2. c # None /\ (a = None \/ Less(c, a))
        BY <1>4 DEF Later
    <2> HIDE DEF a, b, c
    <2>3. CASE b = None
        BY <2>2, <2>3 DEF Later, b, c
    <2>4. CASE b # None /\ a = None
        BY <2>4 DEF Later, a, b
    <2>5. CASE b # None /\ a # None
        <3>1. Less(c, a) => Less(c, b) \/ Less(b, a)
            BY <2>1, <2>5, FractionOrder
        <3>2. QED
            BY <2>2, <2>5, <3>1 DEF Later, a, b, c
    <2>6. QED
        BY <2>3, <2>4, <2>5
<1>5. 0 \in S
    <2> SUFFICES ASSUME NEW T \in SUBSET fs, Cardinality(T) = 1 PROVE Top(T)
        OBVIOUS
    <2>1. PICK m : T = {m}
        BY <1>1, FS_Singleton
    <2>2. QED
        BY <1>3, <2>1
<1>6. ASSUME NEW n \in Nat, n \in S PROVE n + 1 \in S
    <2> SUFFICES ASSUME NEW T \in SUBSET fs, Cardinality(T) = (n + 1) + 1 PROVE Top(T)
        OBVIOUS
    <2>1. PICK x : x \in T
        <3>1. T # {}
            BY <1>1, FS_EmptySet
        <3>2. QED
            BY <3>1
    <2> DEFINE R == T \ {x}
    <2>2. Cardinality(R) = n + 1 /\ R \in SUBSET fs
        BY <1>1, <2>1, FS_RemoveElement
    <2>3. PICK m \in R : \A y \in R : ~Later(y.days, m.days)
        BY <1>6, <2>2
    <2>4. CASE Later(x.days, m.days)
        <3>1. \A y \in R : ~Later(y.days, x.days)
            <4> SUFFICES ASSUME NEW y \in R, Later(y.days, x.days) PROVE FALSE
                OBVIOUS
            <4>1. Later(y.days, m.days) \/ Later(m.days, x.days)
                BY <1>4, <2>1, <2>3
            <4>2. QED
                BY <1>3, <2>1, <2>3, <2>4, <4>1
        <3>2. QED
            BY <1>3, <2>1, <3>1
    <2>5. CASE ~Later(x.days, m.days)
        BY <2>3, <2>5
    <2>6. QED
        BY <2>4, <2>5
<1> HIDE DEF S, Top
<1>7. Nat \subseteq S
    BY <1>5, <1>6, NumbersInduction
<1>8. Top(L)
    <2>1. L \in SUBSET fs /\ L # {}
        OBVIOUS
    <2> HIDE DEF L
    <2>2. Cardinality(L) \in Nat /\ Cardinality(L) # 0
        BY <1>1, <2>1, FS_EmptySet
    <2> DEFINE n == Cardinality(L) - 1
    <2>3. n \in Nat /\ Cardinality(L) = n + 1
        BY <2>2
    <2> HIDE DEF n
    <2>4. n \in S
        BY <1>7, <2>3
    <2>5. QED
        BY <2>1, <2>3, <2>4 DEF S
<1>9. PICK m \in L : \A x \in L : ~Later(x.days, m.days)
    BY <1>8 DEF Top
<1>10. QED
    BY <1>9 DEF Remains

\* What the gauges say of budgets.
BudgetsShown(series, fs) ==
    /\ DOMAIN series = {Labels(f.budget) : f \in fs}
    /\ \A l \in DOMAIN series :
         \E f \in fs : Labels(f.budget) = l /\ series[l] = f.days /\ Remains(f, fs)

\* Each series of a budget shows a forecast that remains.
LEMMA BudgetsSet ==
    ASSUME NEW fs, IsFiniteSet(fs), \A f \in fs : Optional(f.days)
    PROVE  BudgetsShown(BudgetGauges(fs), fs)
<1> DEFINE g == BudgetGauges(fs)
           last(l) == CHOOSE f \in fs : Labels(f.budget) = l /\ Remains(f, fs)
           D == {Labels(f.budget) : f \in fs}
<1>1. g = [l \in D |-> last(l).days]
    BY DEF BudgetGauges
<1> HIDE DEF g
<1>2. ASSUME NEW l \in D
      PROVE  \E f \in fs : Labels(f.budget) = l /\ g[l] = f.days /\ Remains(f, fs)
    <2>1. PICK e \in fs : l = Labels(e.budget)
        OBVIOUS
    <2>2. \E f \in fs : Labels(f.budget) = l /\ Remains(f, fs)
        BY <2>1, LastRemains
    <2>3. last(l) \in fs /\ Labels(last(l).budget) = l /\ Remains(last(l), fs)
        BY <2>2
    <2>4. g[l] = last(l).days
        BY <1>1
    <2> HIDE DEF last
    <2>5. QED
        BY <2>3, <2>4
<1>3. DOMAIN g = D
    BY <1>1
<1>4. QED
    BY <1>2, <1>3 DEF BudgetsShown, g

\* What the gauges say of a PVC, from its summary, its signal and its anomalies.
Shown(s, m, anomalies) ==
    [growth |-> s.growth, days |-> s.days, accel |-> m[s.pvc].accel, at |-> m[s.pvc].at,
     anomalies |-> {a.type : a \in {x \in anomalies : x.pvc = s.pvc}}]
AllShown(series, r) ==
    \A s \in ToSet(r.report.pvcs) :
        s.pvc \in DOMAIN series /\ series[s.pvc] = Shown(s, r.riskByKey, r.report.anomalies)

\* That is what it is for the gauges to follow the report.
LEMMA FollowsShown ==
    /\ GaugesFollowReport <=>
         (w.pc = "update" => /\ AllShown(gauges.pvc, w)
                             /\ BudgetsShown(gauges.budget, w.report.forecasts))
    /\ GaugesFollowReport' <=>
         (w'.pc = "update" => /\ AllShown(gauges'.pvc, w')
                              /\ BudgetsShown(gauges'.budget, w'.report.forecasts))
<1>1. \A s : PVCGauges(s) = Shown(s, w.riskByKey, w.report.anomalies)
    BY Zenon DEF PVCGauges, Shown
<1>2. \A s : PVCGauges(s)' = Shown(s, w'.riskByKey, w'.report.anomalies)
    BY Zenon DEF PVCGauges, Shown
<1>3. QED
    BY <1>1, <1>2, Zenon DEF GaugesFollowReport, AllShown, BudgetsShown

\* The gauges are set from the report: of a PVC that is in it twice both summaries say
\* the same, so whichever is set last is the one.
LEMMA PublishGauges ==
    ASSUME SetGauges, GaugesOK, ReportOK(w.report), w'.report = w.report, w'.riskByKey = w.riskByKey
    PROVE  GaugesOK' /\ GaugesFollowReport'
<1> DEFINE items == w.report.pvcs
           N == Named(items)
           chosen(p) == CHOOSE s \in ToSet(items) : s.pvc = p
           D == DOMAIN gauges.pvc \cup N
           pv == [p \in D |-> IF p \in N THEN PVCGauges(chosen(p)) ELSE gauges.pvc[p]]
           bu == BudgetGauges(w.report.forecasts)
<1>1. gauges' = [pvc |-> pv, budget |-> bu]
    BY DEF SetGauges
<1>2. DOMAIN gauges' = {"pvc", "budget"} /\ gauges'.pvc = pv /\ gauges'.budget = bu
    BY <1>1
<1>3. BudgetsShown(bu, w.report.forecasts)
    BY BudgetsSet DEF ReportOK
<1>4. items \in Seq(Item) /\ OncePerPVC(items)
    BY DEF ReportOK
<1> HIDE DEF bu
<1>5. ASSUME NEW s \in ToSet(items) PROVE s.pvc \in N /\ chosen(s.pvc) = s
    <2>1. PICK i \in DOMAIN items : s = items[i]
        BY DEF ToSet
    <2>2. s.pvc \in N
        BY DEF Named
    <2> DEFINE c == chosen(s.pvc)
    <2>3. c \in ToSet(items) /\ c.pvc = s.pvc
        OBVIOUS
    <2> HIDE DEF c
    <2>4. PICK j \in DOMAIN items : c = items[j]
        BY <2>3 DEF ToSet
    <2>5. c = s
        BY <1>4, <2>1, <2>3, <2>4 DEF OncePerPVC
    <2>6. QED
        BY <2>2, <2>5 DEF c
<1> HIDE DEF chosen, N
<1>6. ASSUME NEW s \in ToSet(items) PROVE s.pvc \in D /\ pv[s.pvc] = PVCGauges(s)
    BY <1>5
<1>7. \A s : /\ PVCGauges(s) = Shown(s, w.riskByKey, w.report.anomalies)
             /\ {"at", "anomalies"} \subseteq DOMAIN PVCGauges(s) /\ PVCGauges(s).anomalies \subseteq AnomalyTypes
    <2>1. w.report.anomalies \subseteq Unusual
        BY DEF ReportOK
    <2>2. \A a \in w.report.anomalies : a.type \in AnomalyTypes
        BY <2>1 DEF Unusual
    <2>3. TAKE s
    <2> DEFINE ty == {a.type : a \in {x \in w.report.anomalies : x.pvc = s.pvc}}
    <2>4. ty \subseteq AnomalyTypes
        BY <2>2
    <2>5. /\ PVCGauges(s) = [growth |-> s.growth, days |-> s.days, accel |-> w.riskByKey[s.pvc].accel,
                             at |-> w.riskByKey[s.pvc].at, anomalies |-> ty]
          /\ Shown(s, w.riskByKey, w.report.anomalies) =
                [growth |-> s.growth, days |-> s.days, accel |-> w.riskByKey[s.pvc].accel,
                 at |-> w.riskByKey[s.pvc].at, anomalies |-> ty]
        BY DEF PVCGauges, Shown
    <2> HIDE DEF ty
    <2>6. QED
        BY <2>4, <2>5
<1>8. ASSUME NEW p \in D PROVE {"at", "anomalies"} \subseteq DOMAIN pv[p] /\ pv[p].anomalies \subseteq AnomalyTypes
    <2>1. CASE p \in N
        <3>1. pv[p] = PVCGauges(chosen(p))
            BY <2>1
        <3>2. QED
            BY <1>7, <3>1
    <2>2. CASE p \notin N
        <3>1. p \in DOMAIN gauges.pvc /\ pv[p] = gauges.pvc[p]
            BY <2>2
        <3>2. QED
            BY <3>1 DEF GaugesOK
    <2>3. QED
        BY <2>1, <2>2
<1>9. DOMAIN pv = D
    OBVIOUS
<1> HIDE DEF pv, D
<1>10. GaugesOK'
    BY <1>2, <1>8, <1>9 DEF GaugesOK
<1>11. AllShown(gauges'.pvc, w')
    BY <1>2, <1>6, <1>7, <1>9 DEF AllShown
<1>12. BudgetsShown(gauges'.budget, w'.report.forecasts)
    BY <1>2, <1>3
<1>13. QED
    BY <1>10, <1>11, <1>12, FollowsShown

\* Gauges go on to say what the report says while neither changes.
LEMMA GaugesKept ==
    ASSUME PublishedInv, gauges' = gauges, rule' = rule,
           w'.pc = "update" => w.pc = "update" /\ w'.report = w.report /\ w'.riskByKey = w.riskByKey
    PROVE  PublishedInv'
<1>1. GaugesOK' /\ RuleOK'
    BY DEF PublishedInv, GaugesOK, RuleOK
<1>2. GaugesFollowReport
    BY DEF PublishedInv
<1>3. w'.pc = "update" => AllShown(gauges'.pvc, w') /\ BudgetsShown(gauges'.budget, w'.report.forecasts)
    BY <1>2, FollowsShown DEF AllShown
<1>4. GaugesFollowReport'
    BY <1>3, FollowsShown
<1>5. QED
    BY <1>1, <1>4 DEF PublishedInv

\* A day passes for the gauges and the report alike.
LEMMA GaugesAged ==
    ASSUME PublishedInv, ChangesInv, Day
    PROVE  PublishedInv'
<1>1. /\ gauges' = [gauges EXCEPT !.pvc = Older(gauges.pvc)] /\ rule' = rule
      /\ w' = IF w = Idle THEN w
              ELSE [w EXCEPT !.report = Aged(w.report), !.riskByKey = Older(w.riskByKey)]
    BY DEF Day
<1>2. GaugesOK /\ RuleOK /\ GaugesFollowReport
    BY DEF PublishedInv
<1> DEFINE g == gauges.pvc
           o == Older(g)
<1>3. gauges'.pvc = o /\ gauges'.budget = gauges.budget /\ DOMAIN gauges' = {"pvc", "budget"}
    BY <1>1, <1>2 DEF GaugesOK
<1>4. DOMAIN o = DOMAIN g /\ \A p \in DOMAIN g : o[p] = [g[p] EXCEPT !.at = Closer(g[p].at)]
    BY DEF Older
<1>5. \A p \in DOMAIN g : /\ {"at", "anomalies"} \subseteq DOMAIN g[p] /\ g[p].anomalies \subseteq AnomalyTypes
    BY <1>2 DEF GaugesOK
<1> HIDE DEF g, o
<1>6. \A p \in DOMAIN g : {"at", "anomalies"} \subseteq DOMAIN o[p] /\ o[p].anomalies = g[p].anomalies
    BY <1>4, <1>5
<1>7. GaugesOK' /\ RuleOK'
    BY <1>1, <1>2, <1>3, <1>4, <1>5, <1>6 DEF GaugesOK, RuleOK
<1>8. ASSUME w'.pc = "update"
      PROVE  AllShown(gauges'.pvc, w') /\ BudgetsShown(gauges'.budget, w'.report.forecasts)
    <2>1. w # Idle
        BY <1>1, <1>8, IdleRound
    <2>2. /\ RoundParts(w)
          /\ w' = [w EXCEPT !.report = Aged(w.report), !.riskByKey = Older(w.riskByKey)]
        BY <1>1, <2>1 DEF ChangesInv
    <2>3. w'.pc = w.pc /\ w'.report = Aged(w.report) /\ w'.riskByKey = Older(w.riskByKey)
        BY <2>2, AgedRound
    <2>4. ReportOK(w.report) /\ Keyed(w.report.pvcs, w.riskByKey)
        BY <2>2 DEF RoundParts
    <2>5. /\ w'.report.pvcs = w.report.pvcs /\ w'.report.anomalies = w.report.anomalies
          /\ w'.report.forecasts = w.report.forecasts
        BY <2>3, <2>4, AgedReport
    <2>6. AllShown(g, w) /\ BudgetsShown(gauges.budget, w.report.forecasts)
        BY <1>2, <1>8, <2>3, FollowsShown DEF g
    <2>7. ASSUME NEW s \in ToSet(w.report.pvcs)
          PROVE  s.pvc \in DOMAIN o /\ o[s.pvc] = Shown(s, w'.riskByKey, w'.report.anomalies)
        <3> DEFINE m == w.riskByKey
                   ty == {a.type : a \in {x \in w.report.anomalies : x.pvc = s.pvc}}
        <3>1. s.pvc \in DOMAIN g /\ g[s.pvc] = Shown(s, m, w.report.anomalies)
            BY <2>6 DEF AllShown
        <3>2. Older(m)[s.pvc].accel = m[s.pvc].accel /\ Older(m)[s.pvc].at = Closer(m[s.pvc].at)
            BY <2>4, KeyedCloser
        <3>3. g[s.pvc] = [growth |-> s.growth, days |-> s.days, accel |-> m[s.pvc].accel,
                          at |-> m[s.pvc].at, anomalies |-> ty]
            BY <3>1 DEF Shown
        <3>4. Shown(s, w'.riskByKey, w'.report.anomalies) =
                [growth |-> s.growth, days |-> s.days, accel |-> Older(m)[s.pvc].accel,
                 at |-> Older(m)[s.pvc].at, anomalies |-> ty]
            BY <2>3, <2>5 DEF Shown
        <3> HIDE DEF ty, m
        <3>5. o[s.pvc] = [growth |-> s.growth, days |-> s.days, accel |-> m[s.pvc].accel,
                          at |-> Closer(m[s.pvc].at), anomalies |-> ty]
            BY <1>4, <3>1, <3>3
        <3>6. QED
            BY <1>4, <3>1, <3>2, <3>4, <3>5
    <2>8. QED
        BY <1>3, <2>5, <2>6, <2>7 DEF AllShown
<1>9. GaugesFollowReport'
    BY <1>8, FollowsShown
<1>10. QED
    BY <1>7, <1>9 DEF PublishedInv

\* Every step keeps what is published.
LEMMA PublishedInvNext ==
    ASSUME PublishedInv, ChangesInv, [Next]_vars
    PROVE  PublishedInv'
<1>1. CASE VolumeChanges \/ InstallCRDs \/ LookupsChange \/ ProviderChanges \/ Supersede \/ Sync
           \/ UNCHANGED vars
    <2>1. gauges' = gauges /\ rule' = rule /\ w' = w
        BY <1>1 DEF VolumeChanges, InstallCRDs, LookupsChange, ProviderChanges, Supersede, Sync, vars, published
    <2>2. QED
        BY <2>1, GaugesKept
<1>2. CASE EditPlan
    <2>1. gauges' = gauges /\ rule' = rule /\ w' = Overtaken
        BY <1>2 DEF EditPlan, published
    <2>2. CASE w = Idle
        BY <2>1, <2>2, GaugesKept DEF Overtaken
    <2>3. CASE w # Idle
        <3>1. w'.pc = w.pc /\ w'.report = w.report /\ w'.riskByKey = w.riskByKey
            BY <2>1, <2>3, OvertakenRound DEF ChangesInv
        <3>2. QED
            BY <2>1, <3>1, GaugesKept
    <2>4. QED
        BY <2>2, <2>3
<1>3. CASE Day
    BY <1>3, GaugesAged
<1>4. CASE Restart
    <2>1. gauges' = NoGauges /\ rule' = rule /\ w' = Idle
        BY <1>4 DEF Restart
    <2>2. GaugesOK' /\ RuleOK'
        BY <2>1 DEF GaugesOK, NoGauges, RuleOK, PublishedInv
    <2>3. GaugesFollowReport'
        BY <2>1, IdleRound DEF GaugesFollowReport
    <2>4. QED
        BY <2>2, <2>3 DEF PublishedInv
<1>5. CASE TakeInactive \/ Analyse
    <2>1. gauges' = gauges /\ rule' = rule
        BY <1>5 DEF TakeInactive, Analyse, published
    <2>2. w'.pc # "update"
        BY <1>5 DEF TakeInactive, Analyse
    <2>3. QED
        BY <2>1, <2>2, GaugesKept
<1>6. ASSUME NEW failed, Publish(failed) PROVE PublishedInv'
    <2>1. /\ w.spec \in Specs /\ ReportOK(w.report) /\ w'.report = w.report
          /\ w'.riskByKey = w.riskByKey
        BY <1>6, PublishKeeps
    <2>2. SetGauges /\ ReconcileRule(failed)
        BY <1>6 DEF Publish
    <2>3. GaugesOK' /\ GaugesFollowReport'
        BY <2>1, <2>2, PublishGauges DEF PublishedInv
    <2>4. RuleOK'
        BY <2>1, <2>2, PublishRule DEF PublishedInv
    <2>5. QED
        BY <2>3, <2>4 DEF PublishedInv
<1>7. CASE UpdateFails \/ UpdateStatus \/ MarkInactive
    <2>1. gauges' = gauges /\ rule' = rule /\ w' = Idle
        BY <1>7 DEF UpdateFails, UpdateStatus, MarkInactive, Persist, published
    <2>2. QED
        BY <2>1, IdleRound, GaugesKept
<1>8. QED
    BY <1>1, <1>2, <1>3, <1>4, <1>5, <1>6, <1>7 DEF Next, Round, PublishPartly

-----------------------------------------------------------------------------
\* The theorems.

\* Plan, copy and round always hold well-formed reports; a copy that is the latest is
\* the plan, and a round that nobody has overtaken works from its status.
THEOREM ChangesInvariant == Spec => [](ClusterInv /\ ChangesInv)
<1>1. ClusterInv /\ ChangesInv /\ [Next]_vars => (ClusterInv /\ ChangesInv)'
    BY ClusterInvNext, ChangesInvNext
<1>2. QED
    BY <1>1, ClusterInvInit, ChangesInvInit, PTL DEF Spec

\* What is published always goes with the report it was published for.
THEOREM PublishedInvariant == Spec => []PublishedInv
<1>1. PublishedInv /\ ClusterInv /\ ChangesInv /\ [Next]_vars => PublishedInv'
    BY PublishedInvNext
<1>2. QED
    BY <1>1, PublishedInvInit, ChangesInvariant, PTL DEF Spec

\* Types of the status, the worker and what is published, whatever the samples: every
\* number of a report is a fraction with a positive denominator (CalculateGrowth never
\* divides by zero, nor does a projection), the lists are cut at TopN, changes and
\* anomalies are of the known types, the rule's threshold is 0 to 100 percent.
THEOREM ReportTypes == Spec => []ReportTypeOK
<1>1. ClusterInv /\ ChangesInv /\ PublishedInv => ReportTypeOK
    <2> SUFFICES ASSUME ClusterInv, ChangesInv, PublishedInv PROVE ReportTypeOK
        OBVIOUS
    <2>1. plan.spec \in Specs /\ cache.spec \in Specs /\ StatusOK(plan.status) /\ StatusOK(cache.status)
        BY ReportStatus DEF ChangesInv, PlanParts
    <2>2. w # Idle => StatusOK(w.report) /\ w.pc \in {"inactive", "publish", "update"}
        BY ReportStatus DEF ChangesInv, RoundParts
    <2>3. w.pc \in {"idle", "inactive", "publish", "update"}
        BY <2>2, IdleRound
    <2>4. fresh \in BOOLEAN
        BY DEF ChangesInv
    <2>5. \A p \in DOMAIN gauges.pvc : gauges.pvc[p].anomalies \subseteq AnomalyTypes
        BY DEF PublishedInv, GaugesOK
    <2>6. rule # None => rule.usage \in 0 .. 100
        BY DEF PublishedInv, RuleOK
    <2>7. hasPrometheusOperator => crds
        BY DEF ClusterInv
    <2>8. QED
        BY <2>1, <2>2, <2>3, <2>4, <2>5, <2>6, <2>7, Zenon DEF ReportTypeOK
<1>2. QED
    BY <1>1, ChangesInvariant, PublishedInvariant, PTL

\* What a round reports holds together: a PVC that alerts is on one of the short lists
\* though they are cut (buildStatusSummary), the workloads of a namespace use no more
\* than the namespace whatever owners were found (buildBudgetForecasts), and gauges
\* once set say what the report says and nothing older.
THEOREM ReportsHoldTogether == Spec => []ReportConsistent
<1>1. ChangesInv /\ PublishedInv => ReportConsistent
    <2> SUFFICES ASSUME ChangesInv, PublishedInv PROVE ReportConsistent
        OBVIOUS
    <2>1. Visible(plan.status.summary) /\ Within(plan.status.forecasts)
        BY DEF ChangesInv, PlanParts, ReportOK
    <2>2. AlertIsVisible
        BY <2>1 DEF Visible, AlertIsVisible
    <2>3. WorkloadsWithinNamespace
        BY <2>1 DEF Within, Theirs, WorkloadsWithinNamespace
    <2>4. QED
        BY <2>2, <2>3 DEF ReportConsistent, PublishedInv
<1>2. QED
    BY <1>1, ChangesInvariant, PublishedInvariant, PTL

\* The risk changes of a report account for the step from the report before it,
\* through failed rounds, stale copies of the plan, conflicts and restarts: the PVCs
\* that entered and left the top risks are exactly the new and the recovered ones
\* (detectRiskChanges over the status that the round read).
THEOREM ChangesAccounted == Spec => ChangesAddUp
<1>1. ClusterInv /\ ChangesInv /\ [Next]_vars =>
        [LET old == plan.status
             new == plan'.status
         IN  Replaced(old, new) =>
               /\ Of(new.changes, "new") = Named(new.topRisks) \ Named(old.topRisks)
               /\ Of(new.changes, "recovered") = Named(old.topRisks) \ Named(new.topRisks)]_vars
    BY ChangesInvNext DEF Explained, Replaced, AddsUp
<1>2. QED
    BY <1>1, ChangesInvariant, PTL DEF Spec, ChangesAddUp

\* A risk is escalated for a reason (isEscalatedRisk): the dates of the last report come
\* closer day by day, so a date that is sooner by more than a day means faster growth,
\* more use or another capacity, however many days, conflicts and restarts lie between.
THEOREM EscalationsReal == Spec => EscalationReal
<1>1. ClusterInv /\ ChangesInv /\ [Next]_vars =>
        [LET old == plan.status
             new == plan'.status
         IN  Replaced(old, new) =>
               \A p \in Of(new.changes, "escalated") :
                 \E o \in ToSet(old.topRisks), n \in ToSet(new.topRisks) :
                   /\ o.pvc = p /\ n.pvc = p
                   /\ \/ Less(o.weekly, n.weekly) \/ n.used > o.used \/ n.cap # o.cap
                      \/ (~o.alert /\ n.alert)
                      \/ n.wide \/ o.wide]_vars
    BY ChangesInvNext DEF Explained, Replaced, AddsUp, Escalated, Reason
<1>2. QED
    BY <1>1, ChangesInvariant, PTL DEF Spec, EscalationReal
=============================================================================

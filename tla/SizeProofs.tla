----------------------------- MODULE SizeProofs -----------------------------
(***************************************************************************)
(* Proofs about Sizes for every machine, every set of sizes asked for and  *)
(* any number of resources: rounding keeps the order of sizes and does not *)
(* let a size grow when it is printed again, hence what fits goes on       *)
(* fitting whatever is released or taken from the reserve.                 *)
(*                                                                         *)
(* FoldLeft has a table for its operator here (Takes): with that what it   *)
(* computes follows by going through the numbers (AllNumbers).             *)
(***************************************************************************)
EXTENDS Sizes, FiniteSetTheorems, TLAPS

(***************************************************************************)
(* Numbers.                                                                *)
(***************************************************************************)

\* Lemma: a set of natural numbers that is not empty has a least one.
LEMMA Smallest ==
    ASSUME NEW S \in SUBSET Nat, S # {}
    PROVE  Min(S) \in S /\ \A n \in S : Min(S) <= n
  <1>1. PICK m \in S : \A n \in S : <<n, m>> \notin OpToRel(<, Nat)
    BY WFMin, NatLessThanWellFounded, Zenon
  <1>2. ASSUME NEW n \in S PROVE m <= n
    <2>1. <<n, m>> \in Nat \X Nat /\ <<n, m>>[1] = n /\ <<n, m>>[2] = m
      OBVIOUS
    <2>2. n < m => <<n, m>> \in OpToRel(<, Nat)
      BY <2>1 DEF OpToRel
    <2>3. ~(n < m)
      BY <1>1, <2>2, Zenon
    <2> QED BY <2>3
  <1> QED BY <1>2 DEF Min

\* Lemma: what holds of 0, and with a number of the next one, holds of all.
LEMMA AllNumbers ==
    ASSUME NEW S, 0 \in S, \A n \in Nat : n \in S => n + 1 \in S
    PROVE  Nat \subseteq S
  <1> SUFFICES ASSUME Nat \ S # {} PROVE FALSE
    OBVIOUS
  <1>1. Min(Nat \ S) \in Nat \ S /\ \A n \in Nat \ S : Min(Nat \ S) <= n
    BY Smallest
  <1>2. Min(Nat \ S) - 1 \in Nat /\ Min(Nat \ S) - 1 \in S
    BY <1>1
  <1> QED BY <1>1, <1>2

(***************************************************************************)
(* Rounding.                                                               *)
(***************************************************************************)

\* The memory of a machine and everything that is left of it.
Bytes == {n \in Nat : n <= 1048576}

\* What a size is after it has been printed and read back.
Cut(n) == Unwrap(Size(n))

\* u is read back from q, which is printed for n, in units of which there are f in a KiB.
Near(f, n, q, u) ==
    /\ q \in Nat /\ u \in Nat
    /\ 1024 * q - 512 <= f * n /\ f * n <= 1024 * q + 512
    /\ f * u <= 1024 * q /\ 1024 * q < f * u + f

\* Lemma: the nearest multiple (Rounded).
LEMMA NearestMultiple ==
    ASSUME NEW a \in Int
    PROVE  /\ Rounded(a, 1) = a
           /\ Rounded(a, 1024) \in Int
           /\ 1024 * Rounded(a, 1024) - 512 <= a /\ a <= 1024 * Rounded(a, 1024) + 512
  <1>1. a \div 1 = a /\ a % 1 = 0
    OBVIOUS
  <1>2. Rounded(a, 1) = a
    BY <1>1 DEF Rounded
  <1> DEFINE q == a \div 1024
             r == a % 1024
  <1>3. q \in Int /\ r \in 0 .. 1023 /\ a = 1024 * q + r
    OBVIOUS
  <1>4. Rounded(a, 1024) = IF 2 * r > 1024 \/ (2 * r = 1024 /\ q % 2 = 1) THEN q + 1 ELSE q
    BY DEF Rounded
  <1> HIDE DEF q, r
  <1> QED BY <1>2, <1>3, <1>4

\* Lemma: the unit and the digits of a size.
LEMMA UnitFacts ==
    ASSUME NEW n \in Int
    PROVE  /\ n < 1024 => Unit(n) = 1
           /\ n >= 1024 => Unit(n) = 1024
           /\ n < 0 => Fraction(n) = 1000
           /\ n < 1024 => Fraction(n) \in {1000, 100, 10, 1}
           /\ 1024 <= n /\ n < 10240 => Fraction(n) = 1000
           /\ 10240 <= n /\ n < 102400 => Fraction(n) = 100
           /\ 102400 <= n /\ n < 1024000 => Fraction(n) = 10
           /\ 1024000 <= n => Fraction(n) = 1
  BY SMT DEF Unit, Fraction

\* Lemma: below a KiB nothing is rounded.
LEMMA SmallSize ==
    ASSUME NEW n \in Int, n < 1024
    PROVE  Cut(n) = n /\ (IsValid(Size(n)) <=> n >= 0)
  <1> DEFINE f == Fraction(n)
  <1>1. f \in {1000, 100, 10, 1} /\ Unit(n) = 1
    BY UnitFacts
  <1>2. Size(n) = [num |-> Rounded(n * f, 1), den |-> f, unit |-> 1]
    BY <1>1 DEF Size
  <1>3. Rounded(n * f, 1) = n * f
    <2>1. n * f \in Int
      BY <1>1
    <2> QED BY <2>1, NearestMultiple
  <1> HIDE DEF f
  <1>4. Cut(n) = ((n * f) * 1) \div f
    BY <1>2, <1>3 DEF Cut, Unwrap
  <1>5. ((n * f) * 1) \div f = n /\ (n * f >= 0 <=> n >= 0)
    BY <1>1
  <1> QED BY <1>2, <1>3, <1>4, <1>5 DEF IsValid

\* Lemma: a size of a KiB or more.
LEMMA LargeSize ==
    ASSUME NEW n \in Int, n >= 1024
    PROVE  /\ Size(n).num \in Nat
           /\ Fraction(n) \in {1000, 100, 10, 1}
           /\ Near(Fraction(n), n, Size(n).num, Cut(n))
  <1> DEFINE f == Fraction(n)
             q == Rounded(n * f, 1024)
  <1>1. f \in {1000, 100, 10, 1} /\ Unit(n) = 1024
    BY UnitFacts
  <1>2. Size(n) = [num |-> q, den |-> f, unit |-> 1024]
    BY <1>1 DEF Size
  <1>3. q \in Int /\ 1024 * q - 512 <= n * f /\ n * f <= 1024 * q + 512
    <2>1. n * f \in Int
      BY <1>1
    <2> QED BY <2>1, NearestMultiple
  <1> HIDE DEF f, q
  <1>4. q \in Nat
    BY <1>1, <1>3
  <1>5. Cut(n) = (q * 1024) \div f
    BY <1>2 DEF Cut, Unwrap
  <1>6. Cut(n) \in Nat /\ f * Cut(n) <= 1024 * q /\ 1024 * q < f * Cut(n) + f
    BY <1>1, <1>4, <1>5
  <1>7. Near(f, n, q, Cut(n))
    BY <1>1, <1>3, <1>4, <1>6 DEF Near
  <1> QED BY <1>1, <1>2, <1>4, <1>7 DEF f

\* Lemma: the limits of the digits are not rounded over.
LEMMA WithinLimits ==
    ASSUME NEW n \in Bytes
    PROVE  /\ Cut(n) \in Bytes
           /\ n < 1024 => Cut(n) = n
           /\ 1024 <= n /\ n < 10240 => 1024 <= Cut(n) /\ Cut(n) <= 10240
           /\ 10240 <= n /\ n < 102400 => 10240 <= Cut(n) /\ Cut(n) <= 102400
           /\ 102400 <= n /\ n < 1024000 => 102400 <= Cut(n) /\ Cut(n) <= 1024000
           /\ 1024000 <= n => 1024000 <= Cut(n) /\ Cut(n) <= 1048576
  <1>1. CASE n < 1024
    <2>1. n \in Int /\ n >= 0
      BY SMT DEF Bytes
    <2>2. Cut(n) = n
      BY <1>1, <2>1, SmallSize, SMT
    <2> QED BY <1>1, <2>1, <2>2, SMT DEF Bytes
  <1> DEFINE q == Size(n).num
             u == Cut(n)
  <1>2. ASSUME n >= 1024 PROVE Near(Fraction(n), n, q, u)
    BY <1>2, LargeSize, SMT DEF Bytes
  <1> HIDE DEF q, u
  <1>3. CASE 1024 <= n /\ n < 10240
    <2>1. Near(1000, n, q, u)
      BY <1>2, <1>3, UnitFacts, SMT DEF Bytes
    <2> QED BY <1>3, <2>1, SMT DEF Near, Bytes, u
  <1>4. CASE 10240 <= n /\ n < 102400
    <2>1. Near(100, n, q, u)
      BY <1>2, <1>4, UnitFacts, SMT DEF Bytes
    <2> QED BY <1>4, <2>1, SMT DEF Near, Bytes, u
  <1>5. CASE 102400 <= n /\ n < 1024000
    <2>1. Near(10, n, q, u)
      BY <1>2, <1>5, UnitFacts, SMT DEF Bytes
    <2> QED BY <1>5, <2>1, SMT DEF Near, Bytes, u
  <1>6. CASE 1024000 <= n
    <2>1. Near(1, n, q, u)
      BY <1>2, <1>6, UnitFacts, SMT DEF Bytes
    <2> QED BY <1>6, <2>1, SMT DEF Near, Bytes, u
  <1>7. n < 1024 \/ (1024 <= n /\ n < 10240) \/ (10240 <= n /\ n < 102400)
        \/ (102400 <= n /\ n < 1024000) \/ 1024000 <= n
    BY SMT DEF Bytes
  <1> QED BY <1>1, <1>3, <1>4, <1>5, <1>6, <1>7, SMT

\* Lemma: more is not printed as less.
LEMMA MoreIsMore ==
    ASSUME NEW n \in Bytes, NEW p \in Bytes, n <= p
    PROVE  Cut(n) <= Cut(p)
  <1> DEFINE same == Fraction(n) = Fraction(p)
  <1>1. Cut(n) \in Nat /\ Cut(p) \in Nat
    BY WithinLimits, SMT DEF Bytes
  <1>2. CASE n = p
    BY <1>1, <1>2, SMT
  <1>3. CASE n < p /\ n >= 1024 /\ Fraction(n) = Fraction(p)
    <2> DEFINE f == Fraction(n)
               q == Size(n).num
               u == Cut(n)
               r == Size(p).num
               v == Cut(p)
    <2>1. f \in {1000, 100, 10, 1} /\ Near(f, n, q, u) /\ Near(f, p, r, v)
      BY <1>3, LargeSize, SMT DEF Bytes
    <2> HIDE DEF f, q, u, r, v
    <2>2. u <= v
      <3>1. CASE f = 1000 BY <1>3, <2>1, <3>1, SMT DEF Near, Bytes
      <3>2. CASE f = 100 BY <1>3, <2>1, <3>2, SMT DEF Near, Bytes
      <3>3. CASE f = 10 BY <1>3, <2>1, <3>3, SMT DEF Near, Bytes
      <3>4. CASE f = 1 BY <1>3, <2>1, <3>4, SMT DEF Near, Bytes
      <3> QED BY <2>1, <3>1, <3>2, <3>3, <3>4, SMT
    <2> QED BY <2>2, SMT DEF u, v
  <1>4. CASE n < 1024
    BY <1>4, WithinLimits, SMT DEF Bytes
  <1>5. CASE n >= 1024 /\ Fraction(n) # Fraction(p)
    BY <1>5, WithinLimits, UnitFacts, SMT DEF Bytes
  <1> QED BY <1>2, <1>3, <1>4, <1>5, SMT DEF Bytes

\* Lemma: what has been printed and read back does not grow when it is printed again.
LEMMA AgainIsLess ==
    ASSUME NEW n \in Bytes
    PROVE  Cut(Cut(n)) <= Cut(n)
  <1> DEFINE u == Cut(n)
  <1>1. u \in Bytes
    BY WithinLimits, SMT
  <1>2. CASE u < 1024
    BY <1>1, <1>2, WithinLimits, SMT DEF Bytes
  <1>3. CASE u >= 1024 /\ Fraction(u) = Fraction(n)
    <2> DEFINE f == Fraction(n)
               q == Size(n).num
               r == Size(u).num
               v == Cut(u)
    <2>1. n >= 1024
      BY <1>3, WithinLimits, SMT DEF Bytes
    <2>2. f \in {1000, 100, 10, 1} /\ Near(f, n, q, u) /\ Near(f, u, r, v)
      BY <1>1, <1>3, <2>1, LargeSize, SMT DEF Bytes
    <2> HIDE DEF f, q, u, r, v
    <2>3. v <= u
      <3>1. CASE f = 1000 BY <2>2, <3>1, SMT DEF Near
      <3>2. CASE f = 100 BY <2>2, <3>2, SMT DEF Near
      <3>3. CASE f = 10 BY <2>2, <3>3, SMT DEF Near
      <3>4. CASE f = 1 BY <2>2, <3>4, SMT DEF Near
      <3> QED BY <2>2, <3>1, <3>2, <3>3, <3>4, SMT
    <2> QED BY <2>3, SMT DEF u, v
  <1>4. CASE u >= 1024 /\ Fraction(u) # Fraction(n)
    <2>1. n >= 1024
      BY <1>4, WithinLimits, SMT DEF Bytes
    <2>2. u \in {10240, 102400, 1024000}
      <3> HIDE DEF u
      <3>1. n \in Int /\ u \in Int
        BY <1>1, SMT DEF Bytes
      <3>2. /\ 1024 <= n /\ n < 10240 => 1024 <= u /\ u <= 10240
            /\ 10240 <= n /\ n < 102400 => 10240 <= u /\ u <= 102400
            /\ 102400 <= n /\ n < 1024000 => 102400 <= u /\ u <= 1024000
            /\ 1024000 <= n => 1024000 <= u
        BY WithinLimits, SMT DEF u
      <3> QED BY <1>4, <2>1, <3>1, <3>2, UnitFacts, SMT
    <2> DEFINE r == Size(u).num
               v == Cut(u)
    <2>3. Near(Fraction(u), u, r, v)
      BY <1>1, <1>4, LargeSize, SMT DEF Bytes
    <2> HIDE DEF u, r, v
    <2>4. v <= u
      <3>1. CASE u = 10240
        <4>1. Near(100, u, r, v)
          BY <2>3, <3>1, UnitFacts, SMT
        <4> QED BY <3>1, <4>1, SMT DEF Near
      <3>2. CASE u = 102400
        <4>1. Near(10, u, r, v)
          BY <2>3, <3>2, UnitFacts, SMT
        <4> QED BY <3>2, <4>1, SMT DEF Near
      <3>3. CASE u = 1024000
        <4>1. Near(1, u, r, v)
          BY <2>3, <3>3, UnitFacts, SMT
        <4> QED BY <3>3, <4>1, SMT DEF Near
      <3> QED BY <2>2, <3>1, <3>2, <3>3, SMT
    <2> QED BY <2>4, SMT DEF u, v
  <1> QED BY <1>1, <1>2, <1>3, <1>4, SMT DEF Bytes

\* Half of the last digit of the size of the machine.
Half == Unit(Total) \div (2 * Fraction(Total)) + 1

\* Lemma: no size of a part of the machine grows by more than that.
LEMMA GrowsByHalf ==
    ASSUME NEW n \in Bytes, n <= Cut(Total)
    PROVE  Half \in Nat /\ Cut(n) <= n + Half
  <1>1. Total \in Bytes /\ Total < 1048576
    BY SizesAssumption, SMT DEF Bytes
  <1>2. Half \in Nat
    BY <1>1, UnitFacts, SMT DEF Half, Bytes
  <1>3. CASE n < 1024
    BY <1>2, <1>3, WithinLimits, SMT DEF Bytes
  <1>4. CASE n >= 1024
    <2> DEFINE q == Size(n).num
               u == Cut(n)
    <2>1. Total >= 1024
      BY <1>1, <1>4, WithinLimits, SMT DEF Bytes
    <2>2. Near(Fraction(n), n, q, u)
      BY <1>4, LargeSize, SMT DEF Bytes
    <2> HIDE DEF q, u
    <2>3. u <= n + Half
      <3>1. CASE Total < 10240
        <4>1. Half = 1 /\ n <= 10240
          BY <1>1, <2>1, <3>1, UnitFacts, WithinLimits, SMT DEF Half, Bytes
        <4>2. CASE n < 10240
          <5>1. Near(1000, n, q, u)
            BY <1>4, <2>2, <4>2, UnitFacts, SMT DEF Bytes
          <5> QED BY <4>1, <5>1, SMT DEF Near, Bytes
        <4>3. CASE n = 10240
          <5>1. Near(100, n, q, u)
            BY <2>2, <4>3, UnitFacts, SMT DEF Bytes
          <5> QED BY <4>1, <4>3, <5>1, SMT DEF Near
        <4> QED BY <4>1, <4>2, <4>3, SMT DEF Bytes
      <3>2. CASE 10240 <= Total /\ Total < 102400
        <4>1. Half = 6 /\ n <= 102400
          BY <1>1, <3>2, UnitFacts, WithinLimits, SMT DEF Half, Bytes
        <4>2. CASE n < 10240
          <5>1. Near(1000, n, q, u)
            BY <1>4, <2>2, <4>2, UnitFacts, SMT DEF Bytes
          <5> QED BY <4>1, <5>1, SMT DEF Near, Bytes
        <4>3. CASE 10240 <= n /\ n < 102400
          <5>1. Near(100, n, q, u)
            BY <2>2, <4>3, UnitFacts, SMT DEF Bytes
          <5> QED BY <4>1, <4>3, <5>1, SMT DEF Near, Bytes
        <4>4. CASE n = 102400
          <5>1. Near(10, n, q, u)
            BY <2>2, <4>4, UnitFacts, SMT DEF Bytes
          <5> QED BY <4>1, <4>4, <5>1, SMT DEF Near
        <4> QED BY <4>1, <4>2, <4>3, <4>4, SMT DEF Bytes
      <3>3. CASE 102400 <= Total /\ Total < 1024000
        <4>1. Half = 52 /\ n <= 1024000
          BY <1>1, <3>3, UnitFacts, WithinLimits, SMT DEF Half, Bytes
        <4>2. CASE n = 1024000
          <5>1. Near(1, n, q, u)
            BY <2>2, <4>2, UnitFacts, SMT DEF Bytes
          <5> QED BY <4>1, <4>2, <5>1, SMT DEF Near
        <4>3. CASE n < 1024000
          <5>1. Near(1000, n, q, u) \/ Near(100, n, q, u) \/ Near(10, n, q, u)
            BY <1>4, <2>2, <4>3, UnitFacts, SMT DEF Bytes
          <5> QED BY <4>1, <5>1, SMT DEF Near, Bytes
        <4> QED BY <4>1, <4>2, <4>3, SMT DEF Bytes
      <3>4. CASE 1024000 <= Total
        <4>1. Half = 513
          BY <1>1, <3>4, UnitFacts, SMT DEF Half, Bytes
        <4>2. Near(1000, n, q, u) \/ Near(100, n, q, u) \/ Near(10, n, q, u) \/ Near(1, n, q, u)
          BY <1>4, <2>2, UnitFacts, SMT DEF Bytes
        <4> QED BY <4>1, <4>2, SMT DEF Near, Bytes
      <3> QED BY <1>1, <2>1, <3>1, <3>2, <3>3, <3>4, SMT DEF Bytes
    <2> QED BY <1>2, <2>3, SMT DEF u
  <1> QED BY <1>3, <1>4, SMT DEF Bytes

(***************************************************************************)
(* What is left of a machine, one binding after the other.                 *)
(***************************************************************************)

\* The highest number of a set is that set's.
LEMMA Highest ==
    ASSUME NEW n \in Nat, NEW S \in SUBSET (1 .. n), S # {}
    PROVE  /\ Max(S) \in S
           /\ n \in S => Max(S) = n
  <1> DEFINE Below == {n - x : x \in S}
  <1>1. Below \in SUBSET Nat /\ Below # {}
    <2>1. \A x \in S : n - x \in Nat
      OBVIOUS
    <2>2. PICK x \in S : TRUE
      OBVIOUS
    <2>3. n - x \in Below
      BY <2>2
    <2> QED BY <2>1, <2>3
  <1>2. Min(Below) \in Below /\ \A d \in Below : Min(Below) <= d
    BY <1>1, Smallest
  <1>3. PICK m \in S : Min(Below) = n - m
    BY <1>2
  <1>4. \A x \in S : x <= m
    <2>1. \A x \in S : n - m <= n - x
      BY <1>2, <1>3
    <2> QED BY <2>1
  <1>5. \A x \in S : (\A y \in S : x >= y) <=> x = m
    BY <1>4
  <1>6. Max(S) = m
    BY <1>5 DEF Max
  <1>7. n \in S => m = n
    BY <1>4
  <1> QED BY <1>6, <1>7

\* g takes the elements of s one after the other, by the table step, for every
\* part of the sequence s.
Takes(g, D, start, step, s) ==
    /\ s \in Seq(Nat)
    /\ g \in [SUBSET DOMAIN s -> D]
    /\ g[{}] = start
    /\ \A T \in SUBSET DOMAIN s : T # {} => g[T] = step[<<g[T \ {Max(T)}], s[Max(T)]>>]

\* Lemma: there is such a g.
LEMMA CanBeTaken ==
    ASSUME NEW D, NEW start \in D, NEW step \in [D \X Nat -> D], NEW s \in Seq(Nat)
    PROVE  \E g : Takes(g, D, start, step, s)
  <1> DEFINE Q == {n \in Nat : \A l \in Seq(Nat) : Len(l) = n => \E g : Takes(g, D, start, step, l)}
  <1>1. 0 \in Q
    <2>1. ASSUME NEW l \in Seq(Nat), Len(l) = 0
          PROVE  \E g : Takes(g, D, start, step, l)
      <3>1. DOMAIN l = {}
        BY <2>1
      <3>2. Takes([T \in SUBSET DOMAIN l |-> start], D, start, step, l)
        BY <3>1 DEF Takes
      <3> QED BY <3>2
    <2> QED BY <2>1
  <1>2. ASSUME NEW n \in Nat, n \in Q PROVE n + 1 \in Q
    <2> SUFFICES ASSUME NEW l \in Seq(Nat), Len(l) = n + 1
                 PROVE  \E g : Takes(g, D, start, step, l)
      OBVIOUS
    <2> DEFINE m == SubSeq(l, 1, n)
    <2>1. m \in Seq(Nat) /\ Len(m) = n /\ \A i \in 1 .. n : m[i] = l[i]
      OBVIOUS
    <2>2. DOMAIN l = 1 .. n + 1 /\ DOMAIN m = 1 .. n
      BY <2>1
    <2> HIDE DEF m
    <2>3. PICK h : Takes(h, D, start, step, m)
      BY <1>2, <2>1
    <2> DEFINE g == [T \in SUBSET DOMAIN l |->
                        IF n + 1 \in T THEN step[<<h[T \ {n + 1}], l[n + 1]>>] ELSE h[T]]
    <2>4. ASSUME NEW T \in SUBSET DOMAIN l
          PROVE  T \ {n + 1} \in SUBSET DOMAIN m /\ (n + 1 \notin T => T \in SUBSET DOMAIN m)
      <3>1. \A x \in T : x \in 1 .. n \/ x = n + 1
        BY <2>2
      <3> QED BY <2>2, <3>1
    <2>5. l[n + 1] \in Nat
      OBVIOUS
    <2>6. g \in [SUBSET DOMAIN l -> D]
      <3>1. ASSUME NEW T \in SUBSET DOMAIN l
            PROVE  (IF n + 1 \in T THEN step[<<h[T \ {n + 1}], l[n + 1]>>] ELSE h[T]) \in D
        BY <2>3, <2>4, <2>5 DEF Takes
      <3> QED BY <3>1
    <2>7. \A T \in SUBSET DOMAIN l :
             g[T] = IF n + 1 \in T THEN step[<<h[T \ {n + 1}], l[n + 1]>>] ELSE h[T]
      OBVIOUS
    <2> HIDE DEF g
    <2>8. g[{}] = start
      BY <2>3, <2>7 DEF Takes
    <2>9. ASSUME NEW T \in SUBSET DOMAIN l, T # {}
          PROVE  g[T] = step[<<g[T \ {Max(T)}], l[Max(T)]>>]
      <3>1. CASE n + 1 \in T
        <4>1. Max(T) = n + 1
          BY <2>2, <2>9, <3>1, Highest, SMTT(20)
        <4>2. g[T \ {n + 1}] = h[T \ {n + 1}]
          BY <2>7
        <4> QED BY <2>7, <3>1, <4>1, <4>2
      <3>2. CASE n + 1 \notin T
        <4>1. T \in SUBSET (1 .. n)
          BY <2>2, <2>4, <3>2
        <4>2. Max(T) \in T
          BY <2>9, <4>1, Highest
        <4>3. g[T] = h[T] /\ g[T \ {Max(T)}] = h[T \ {Max(T)}]
          BY <2>7, <3>2
        <4>4. m[Max(T)] = l[Max(T)]
          BY <2>1, <4>1, <4>2
        <4> QED BY <2>2, <2>3, <2>9, <4>1, <4>3, <4>4 DEF Takes
      <3> QED BY <3>1, <3>2
    <2> QED BY <2>6, <2>8, <2>9 DEF Takes
  <1> HIDE DEF Q
  <1>3. Len(s) \in Nat /\ Nat \subseteq Q
    <2>1. Nat \subseteq Q
      BY <1>1, <1>2, AllNumbers
    <2> QED BY <2>1
  <1> QED BY <1>3 DEF Q

\* f takes the first n elements so.
Follows(f, D, start, step, s, n) ==
    /\ n \in 0 .. Len(s)
    /\ f[{}] = start
    /\ \A T \in SUBSET (1 .. n) : T # {} =>
          (f[T \ {Max(T)}] \in D => f[T] = step[<<f[T \ {Max(T)}], s[Max(T)]>>])

\* f and g take the parts of the first n elements alike.
Alike(f, g, n) == \A T \in SUBSET (1 .. n) : f[T] = g[T]

\* Lemma: there is one way to take the first n elements.
LEMMA TakenOnce ==
    ASSUME NEW D, NEW start, NEW step, NEW s, NEW g, Takes(g, D, start, step, s),
           NEW f, NEW n, Follows(f, D, start, step, s, n)
    PROVE  Alike(f, g, n)
  <1>0. s \in Seq(Nat) /\ n \in 0 .. Len(s)
    BY DEF Takes, Follows
  <1> DEFINE Q == {k \in Nat : k <= n => \A T \in SUBSET (1 .. k) : f[T] = g[T]}
  <1>1. 0 \in Q
    <2>1. 1 .. 0 = {}
      OBVIOUS
    <2> QED BY <2>1 DEF Takes, Follows
  <1>2. ASSUME NEW k \in Nat, k \in Q PROVE k + 1 \in Q
    <2>0. f[{}] = g[{}]
      BY DEF Takes, Follows
    <2>1. ASSUME k + 1 <= n, NEW T \in SUBSET (1 .. k + 1), T # {}
          PROVE  f[T] = g[T]
      <3>1. Max(T) \in T /\ (k + 1 \in T => Max(T) = k + 1)
        BY <2>1, Highest
      <3>2. T \ {Max(T)} \in SUBSET (1 .. k)
        <4>1. \A x \in T : x \in 1 .. k \/ x = k + 1
          OBVIOUS
        <4> QED BY <3>1, <4>1
      <3>3. f[T \ {Max(T)}] = g[T \ {Max(T)}]
        <4>1. k <= n
          BY <1>0, <2>1
        <4>2. \A S \in SUBSET (1 .. k) : f[S] = g[S]
          BY <1>2, <4>1
        <4> QED BY <3>2, <4>2, Zenon
      <3>4. T \in SUBSET (1 .. n) /\ T \in SUBSET DOMAIN s /\ T \ {Max(T)} \in SUBSET DOMAIN s
        <4>1. 1 .. k + 1 \subseteq 1 .. n /\ 1 .. n \subseteq DOMAIN s
          BY <1>0, <2>1
        <4> QED BY <2>1, <4>1, Zenon
      <3>5. g[T \ {Max(T)}] \in D /\ g[T] = step[<<g[T \ {Max(T)}], s[Max(T)]>>]
        BY <2>1, <3>4 DEF Takes
      <3> QED BY <2>1, <3>3, <3>4, <3>5 DEF Follows
    <2>2. k + 1 <= n => \A T \in SUBSET (1 .. k + 1) : f[T] = g[T]
      BY <2>0, <2>1
    <2> QED BY <2>2
  <1> HIDE DEF Q
  <1>3. Nat \subseteq Q
    BY <1>1, <1>2, AllNumbers
  <1>4. n \in Q /\ n <= n
    BY <1>0, <1>3
  <1> QED BY <1>4 DEF Q, Alike

\* The texts of sizes.
Text == [num : Int, den : {1000, 100, 10, 1}, unit : {1, 1024}]

\* Lemma: Sub gives a text.
LEMMA TextFacts ==
    /\ \A n \in Int : Size(n) \in Text
    /\ \A b \in Text : Unwrap(b) \in Int
    /\ \A b \in Text, n \in Int : Sub(b, n) \in Text
  <1>1. ASSUME NEW n \in Int PROVE Size(n) \in Text
    <2> DEFINE f == Fraction(n)
    <2>1. f \in {1000, 100, 10, 1} /\ Unit(n) \in {1, 1024}
      BY UnitFacts, SMT
    <2>2. n * f \in Int
      BY <2>1
    <2> HIDE DEF f
    <2>3. Rounded(n * f, 1) \in Int /\ Rounded(n * f, 1024) \in Int
      BY <2>2, NearestMultiple
    <2> QED BY <2>1, <2>3 DEF f, Size, Text
  <1>2. ASSUME NEW b \in Text PROVE Unwrap(b) \in Int
    <2>1. b.num \in Int /\ b.den \in {1000, 100, 10, 1} /\ b.unit \in {1, 1024}
      BY DEF Text
    <2> QED BY <2>1 DEF Unwrap
  <1>3. ASSUME NEW b \in Text, NEW n \in Int PROVE Sub(b, n) \in Text
    <2>1. Unwrap(b) - n \in Int
      BY <1>2
    <2> QED BY <1>1, <2>1 DEF Sub
  <1> QED BY <1>1, <1>2, <1>3

\* What is left of b when the sizes in l have been taken off.
From(b, l) == FoldLeft(Sub, b, l)

SubTable == [p \in Text \X Nat |-> Sub(p[1], p[2])]

\* Lemma: the table is Sub.
LEMMA TableFacts ==
    /\ SubTable \in [Text \X Nat -> Text]
    /\ \A c \in Text, n \in Nat : SubTable[<<c, n>>] = Sub(c, n)
  <1>1. ASSUME NEW p \in Text \X Nat PROVE Sub(p[1], p[2]) \in Text
    <2>1. p[1] \in Text /\ p[2] \in Int
      OBVIOUS
    <2> QED BY <2>1, TextFacts
  <1>2. ASSUME NEW c \in Text, NEW n \in Nat PROVE SubTable[<<c, n>>] = Sub(c, n)
    <2>1. <<c, n>> \in Text \X Nat /\ <<c, n>>[1] = c /\ <<c, n>>[2] = n
      OBVIOUS
    <2> QED BY <2>1 DEF SubTable
  <1> QED BY <1>1, <1>2 DEF SubTable

\* Lemma: FoldLeft takes off the sizes as SubTable does.
LEMMA FromIsTaken ==
    ASSUME NEW b \in Text, NEW l \in Seq(Nat), NEW g, Takes(g, Text, b, SubTable, l)
    PROVE  From(b, l) = g[DOMAIN l]
  <1> DEFINE F(it) == it = [T \in SUBSET DOMAIN l |->
                            IF T = {} THEN b ELSE Sub(it[T \ {Max(T)}], l[Max(T)])]
             iter == CHOOSE it : F(it)
  <1>1. From(b, l) = iter[DOMAIN l]
    BY DEF From, FoldLeft, MapThenFoldSet
  <1>2. DOMAIN l = 1 .. Len(l) /\ Len(l) \in 0 .. Len(l)
    OBVIOUS
  <1>3. \A T \in SUBSET DOMAIN l : T # {} => l[Max(T)] \in Nat
    <2> SUFFICES ASSUME NEW T \in SUBSET DOMAIN l, T # {} PROVE l[Max(T)] \in Nat
      OBVIOUS
    <2>1. Len(l) \in Nat /\ T \in SUBSET (1 .. Len(l))
      BY <1>2
    <2>2. Max(T) \in T
      BY <2>1, Highest
    <2> QED BY <1>2, <2>2
  <1>4. \A c \in Text, n \in Nat : SubTable[<<c, n>>] = Sub(c, n)
    BY TableFacts
  <1>5. F(g)
    <2>1. ASSUME NEW T \in SUBSET DOMAIN l
          PROVE  g[T] = IF T = {} THEN b ELSE Sub(g[T \ {Max(T)}], l[Max(T)])
      BY <1>3, <1>4 DEF Takes
    <2> QED BY <2>1 DEF Takes
  <1>6. F(iter)
    BY <1>5
  <1> HIDE DEF iter
  <1>7. iter[{}] = b
    BY <1>6
  <1>8. Follows(iter, Text, b, SubTable, l, Len(l))
    <2>1. ASSUME NEW T \in SUBSET (1 .. Len(l)), T # {}, iter[T \ {Max(T)}] \in Text
          PROVE  iter[T] = SubTable[<<iter[T \ {Max(T)}], l[Max(T)]>>]
      <3>1. iter[T] = Sub(iter[T \ {Max(T)}], l[Max(T)]) /\ l[Max(T)] \in Nat
        BY <1>2, <1>3, <1>6, <2>1
      <3> QED BY <1>4, <2>1, <3>1
    <2>2. \A T \in SUBSET (1 .. Len(l)) : T # {} =>
             (iter[T \ {Max(T)}] \in Text => iter[T] = SubTable[<<iter[T \ {Max(T)}], l[Max(T)]>>])
      BY <2>1, Zenon
    <2> QED BY <1>2, <1>7, <2>2, Zenon DEF Follows
  <1> HIDE DEF F
  <1>9. Alike(iter, g, Len(l))
    BY <1>8, TakenOnce, Zenon
  <1>10. 1 .. Len(l) \in SUBSET (1 .. Len(l))
    OBVIOUS
  <1> QED BY <1>1, <1>2, <1>9, <1>10, Zenon DEF Alike

\* Lemma: one after the other.
LEMMA OneMoreTaken ==
    ASSUME NEW b \in Text, NEW l \in Seq(Nat)
    PROVE  /\ From(b, SubSeq(l, 1, 0)) = b
           /\ \A k \in 0 .. Len(l) : From(b, SubSeq(l, 1, k)) \in Text
           /\ \A k \in 0 .. Len(l) - 1 :
                 From(b, SubSeq(l, 1, k + 1)) = Sub(From(b, SubSeq(l, 1, k)), l[k + 1])
  <1>1. SubTable \in [Text \X Nat -> Text] /\ \A c \in Text, n \in Nat : SubTable[<<c, n>>] = Sub(c, n)
    BY TableFacts
  <1>2. ASSUME NEW k \in 0 .. Len(l)
        PROVE  /\ SubSeq(l, 1, k) \in Seq(Nat) /\ DOMAIN SubSeq(l, 1, k) = 1 .. k
               /\ Len(SubSeq(l, 1, k)) = k /\ \A i \in 1 .. k : SubSeq(l, 1, k)[i] = l[i]
    OBVIOUS
  <1>3. ASSUME NEW k \in 0 .. Len(l)
        PROVE  \E g : /\ Takes(g, Text, b, SubTable, SubSeq(l, 1, k))
                      /\ From(b, SubSeq(l, 1, k)) = g[1 .. k]
    <2> DEFINE m == SubSeq(l, 1, k)
    <2>1. m \in Seq(Nat) /\ DOMAIN m = 1 .. k
      BY <1>2
    <2> HIDE DEF m
    <2>2. PICK g : Takes(g, Text, b, SubTable, m)
      BY <1>1, <2>1, CanBeTaken
    <2>3. From(b, m) = g[DOMAIN m]
      BY <2>1, <2>2, FromIsTaken
    <2> QED BY <2>1, <2>2, <2>3 DEF m
  <1>4. From(b, SubSeq(l, 1, 0)) = b
    <2>1. 0 \in 0 .. Len(l) /\ 1 .. 0 = {}
      OBVIOUS
    <2>2. PICK g : Takes(g, Text, b, SubTable, SubSeq(l, 1, 0)) /\ From(b, SubSeq(l, 1, 0)) = g[1 .. 0]
      BY <1>3, <2>1
    <2> QED BY <2>1, <2>2 DEF Takes
  <1>5. ASSUME NEW k \in 0 .. Len(l) PROVE From(b, SubSeq(l, 1, k)) \in Text
    <2>1. PICK g : Takes(g, Text, b, SubTable, SubSeq(l, 1, k)) /\ From(b, SubSeq(l, 1, k)) = g[1 .. k]
      BY <1>3
    <2>2. DOMAIN SubSeq(l, 1, k) = 1 .. k
      BY <1>2
    <2> QED BY <2>1, <2>2 DEF Takes
  <1>6. ASSUME NEW k \in 0 .. Len(l) - 1
        PROVE  From(b, SubSeq(l, 1, k + 1)) = Sub(From(b, SubSeq(l, 1, k)), l[k + 1])
    <2> DEFINE m == SubSeq(l, 1, k)
               n == SubSeq(l, 1, k + 1)
    <2>0. k \in 0 .. Len(l) /\ k + 1 \in 0 .. Len(l) /\ k \in Nat
      OBVIOUS
    <2>1. /\ m \in Seq(Nat) /\ DOMAIN m = 1 .. k /\ Len(m) = k /\ \A i \in 1 .. k : m[i] = l[i]
          /\ DOMAIN n = 1 .. k + 1 /\ \A i \in 1 .. k + 1 : n[i] = l[i]
      BY <1>2, <2>0
    <2>2. PICK h : Takes(h, Text, b, SubTable, m) /\ From(b, m) = h[1 .. k]
      BY <1>3, <2>0
    <2>3. PICK g : Takes(g, Text, b, SubTable, n) /\ From(b, n) = g[1 .. k + 1]
      BY <1>3, <2>0
    <2> HIDE DEF m, n
    <2>4. \A T \in SUBSET (1 .. k) : T # {} => g[T] = SubTable[<<g[T \ {Max(T)}], m[Max(T)]>>]
      <3>1. ASSUME NEW T \in SUBSET (1 .. k), T # {}
            PROVE  g[T] = SubTable[<<g[T \ {Max(T)}], m[Max(T)]>>]
        <4>1. Max(T) \in 1 .. k
          BY <2>0, <3>1, Highest
        <4>2. T \in SUBSET DOMAIN n /\ m[Max(T)] = n[Max(T)]
          BY <2>0, <2>1, <4>1
        <4> QED BY <2>3, <3>1, <4>2 DEF Takes
      <3> QED BY <3>1
    <2>5. k \in 0 .. Len(m) /\ Follows(g, Text, b, SubTable, m, k)
      <3>1. g[{}] = b
        BY <2>3 DEF Takes
      <3>2. k \in 0 .. Len(m)
        BY <2>0, <2>1
      <3>3. Follows(g, Text, b, SubTable, m, k)
        BY <2>4, <3>1, <3>2, Zenon DEF Follows
      <3> QED BY <3>2, <3>3
    <2>6. g[1 .. k] = h[1 .. k]
      <3>1. Alike(g, h, k)
        BY <2>2, <2>5, TakenOnce, Zenon
      <3>2. 1 .. k \in SUBSET (1 .. k)
        OBVIOUS
      <3> QED BY <3>1, <3>2, Zenon DEF Alike
    <2>7. g[1 .. k + 1] = SubTable[<<g[1 .. k], l[k + 1]>>]
      <3>1. 1 .. k + 1 # {} /\ k + 1 \in 1 .. k + 1 /\ (1 .. k + 1) \ {k + 1} = 1 .. k
        BY <2>0, SMTT(20)
      <3>2. Max(1 .. k + 1) = k + 1
        <4>1. k + 1 \in Nat /\ 1 .. k + 1 \in SUBSET (1 .. k + 1)
          BY <2>0
        <4> QED BY <3>1, <4>1, Highest
      <3>3. n[k + 1] = l[k + 1]
        BY <2>1, <3>1
      <3>4. 1 .. k + 1 \in SUBSET DOMAIN n
        BY <2>1
      <3>5. g[1 .. k + 1] = SubTable[<<g[(1 .. k + 1) \ {Max(1 .. k + 1)}], n[Max(1 .. k + 1)]>>]
        BY <2>3, <3>1, <3>4 DEF Takes
      <3> QED BY <3>1, <3>2, <3>3, <3>5
    <2>8. l[k + 1] \in Nat /\ h[1 .. k] \in Text
      <3>1. l[k + 1] \in Nat
        OBVIOUS
      <3>2. 1 .. k \in SUBSET DOMAIN m
        BY <2>1
      <3> QED BY <2>2, <3>1, <3>2 DEF Takes
    <2> QED BY <1>1, <2>2, <2>3, <2>6, <2>7, <2>8 DEF m, n
  <1> QED BY <1>4, <1>5, <1>6

\* The sizes in l added up.
Given(l) == FoldLeft(+, 0, l)

PlusTable == [p \in Nat \X Nat |-> p[1] + p[2]]

\* Lemma: the table is the sum.
LEMMA PlusFacts ==
    /\ PlusTable \in [Nat \X Nat -> Nat]
    /\ \A c \in Nat, n \in Nat : PlusTable[<<c, n>>] = c + n
  <1>1. ASSUME NEW p \in Nat \X Nat PROVE p[1] + p[2] \in Nat
    OBVIOUS
  <1>2. ASSUME NEW c \in Nat, NEW n \in Nat PROVE PlusTable[<<c, n>>] = c + n
    <2>1. <<c, n>> \in Nat \X Nat /\ <<c, n>>[1] = c /\ <<c, n>>[2] = n
      OBVIOUS
    <2> QED BY <2>1 DEF PlusTable
  <1> QED BY <1>1, <1>2 DEF PlusTable

\* Lemma: FoldLeft adds up the sizes as PlusTable does.
LEMMA SumIsTaken ==
    ASSUME NEW l \in Seq(Nat), NEW g, Takes(g, Nat, 0, PlusTable, l)
    PROVE  Given(l) = g[DOMAIN l]
  <1> DEFINE F(it) == it = [T \in SUBSET DOMAIN l |->
                            IF T = {} THEN 0 ELSE it[T \ {Max(T)}] + l[Max(T)]]
             iter == CHOOSE it : F(it)
  <1>1. Given(l) = iter[DOMAIN l]
    BY DEF Given, FoldLeft, MapThenFoldSet
  <1>2. DOMAIN l = 1 .. Len(l) /\ Len(l) \in 0 .. Len(l)
    OBVIOUS
  <1>3. \A T \in SUBSET DOMAIN l : T # {} => l[Max(T)] \in Nat
    <2> SUFFICES ASSUME NEW T \in SUBSET DOMAIN l, T # {} PROVE l[Max(T)] \in Nat
      OBVIOUS
    <2>1. Len(l) \in Nat /\ T \in SUBSET (1 .. Len(l))
      BY <1>2
    <2>2. Max(T) \in T
      BY <2>1, Highest
    <2> QED BY <1>2, <2>2
  <1>4. \A c \in Nat, n \in Nat : PlusTable[<<c, n>>] = c + n
    BY PlusFacts
  <1>5. F(g)
    <2>1. ASSUME NEW T \in SUBSET DOMAIN l
          PROVE  g[T] = IF T = {} THEN 0 ELSE g[T \ {Max(T)}] + l[Max(T)]
      BY <1>3, <1>4 DEF Takes
    <2> QED BY <2>1 DEF Takes
  <1>6. F(iter)
    BY <1>5
  <1> HIDE DEF iter
  <1>7. iter[{}] = 0
    BY <1>6
  <1>8. Follows(iter, Nat, 0, PlusTable, l, Len(l))
    <2>1. ASSUME NEW T \in SUBSET (1 .. Len(l)), T # {}, iter[T \ {Max(T)}] \in Nat
          PROVE  iter[T] = PlusTable[<<iter[T \ {Max(T)}], l[Max(T)]>>]
      <3>1. iter[T] = iter[T \ {Max(T)}] + l[Max(T)] /\ l[Max(T)] \in Nat
        BY <1>2, <1>3, <1>6, <2>1
      <3> QED BY <1>4, <2>1, <3>1
    <2>2. \A T \in SUBSET (1 .. Len(l)) : T # {} =>
             (iter[T \ {Max(T)}] \in Nat => iter[T] = PlusTable[<<iter[T \ {Max(T)}], l[Max(T)]>>])
      BY <2>1, Zenon
    <2> QED BY <1>2, <1>7, <2>2, Zenon DEF Follows
  <1> HIDE DEF F
  <1>9. Alike(iter, g, Len(l))
    BY <1>8, TakenOnce, Zenon
  <1>10. 1 .. Len(l) \in SUBSET (1 .. Len(l))
    OBVIOUS
  <1> QED BY <1>1, <1>2, <1>9, <1>10, Zenon DEF Alike

\* Lemma: one after the other they add up.
LEMMA OneMoreAdded ==
    ASSUME NEW l \in Seq(Nat)
    PROVE  /\ Given(SubSeq(l, 1, 0)) = 0
           /\ \A k \in 0 .. Len(l) : Given(SubSeq(l, 1, k)) \in Nat
           /\ \A k \in 0 .. Len(l) - 1 :
                 Given(SubSeq(l, 1, k + 1)) = Given(SubSeq(l, 1, k)) + l[k + 1]
  <1>1. PlusTable \in [Nat \X Nat -> Nat] /\ \A c \in Nat, n \in Nat : PlusTable[<<c, n>>] = c + n
    BY PlusFacts
  <1>2. ASSUME NEW k \in 0 .. Len(l)
        PROVE  /\ SubSeq(l, 1, k) \in Seq(Nat) /\ DOMAIN SubSeq(l, 1, k) = 1 .. k
               /\ Len(SubSeq(l, 1, k)) = k /\ \A i \in 1 .. k : SubSeq(l, 1, k)[i] = l[i]
    OBVIOUS
  <1>3. ASSUME NEW k \in 0 .. Len(l)
        PROVE  \E g : /\ Takes(g, Nat, 0, PlusTable, SubSeq(l, 1, k))
                      /\ Given(SubSeq(l, 1, k)) = g[1 .. k]
    <2> DEFINE m == SubSeq(l, 1, k)
    <2>1. m \in Seq(Nat) /\ DOMAIN m = 1 .. k
      BY <1>2
    <2> HIDE DEF m
    <2>2. PICK g : Takes(g, Nat, 0, PlusTable, m)
      BY <1>1, <2>1, CanBeTaken
    <2>3. Given(m) = g[DOMAIN m]
      BY <2>1, <2>2, SumIsTaken
    <2> QED BY <2>1, <2>2, <2>3 DEF m
  <1>4. Given(SubSeq(l, 1, 0)) = 0
    <2>1. 0 \in 0 .. Len(l) /\ 1 .. 0 = {}
      OBVIOUS
    <2>2. PICK g : Takes(g, Nat, 0, PlusTable, SubSeq(l, 1, 0)) /\ Given(SubSeq(l, 1, 0)) = g[1 .. 0]
      BY <1>3, <2>1
    <2> QED BY <2>1, <2>2 DEF Takes
  <1>5. ASSUME NEW k \in 0 .. Len(l) PROVE Given(SubSeq(l, 1, k)) \in Nat
    <2>1. PICK g : Takes(g, Nat, 0, PlusTable, SubSeq(l, 1, k)) /\ Given(SubSeq(l, 1, k)) = g[1 .. k]
      BY <1>3
    <2>2. DOMAIN SubSeq(l, 1, k) = 1 .. k
      BY <1>2
    <2> QED BY <2>1, <2>2 DEF Takes
  <1>6. ASSUME NEW k \in 0 .. Len(l) - 1
        PROVE  Given(SubSeq(l, 1, k + 1)) = Given(SubSeq(l, 1, k)) + l[k + 1]
    <2> DEFINE m == SubSeq(l, 1, k)
               n == SubSeq(l, 1, k + 1)
    <2>0. k \in 0 .. Len(l) /\ k + 1 \in 0 .. Len(l) /\ k \in Nat
      OBVIOUS
    <2>1. /\ m \in Seq(Nat) /\ DOMAIN m = 1 .. k /\ Len(m) = k /\ \A i \in 1 .. k : m[i] = l[i]
          /\ DOMAIN n = 1 .. k + 1 /\ \A i \in 1 .. k + 1 : n[i] = l[i]
      BY <1>2, <2>0
    <2>2. PICK h : Takes(h, Nat, 0, PlusTable, m) /\ Given(m) = h[1 .. k]
      BY <1>3, <2>0
    <2>3. PICK g : Takes(g, Nat, 0, PlusTable, n) /\ Given(n) = g[1 .. k + 1]
      BY <1>3, <2>0
    <2> HIDE DEF m, n
    <2>4. \A T \in SUBSET (1 .. k) : T # {} => g[T] = PlusTable[<<g[T \ {Max(T)}], m[Max(T)]>>]
      <3>1. ASSUME NEW T \in SUBSET (1 .. k), T # {}
            PROVE  g[T] = PlusTable[<<g[T \ {Max(T)}], m[Max(T)]>>]
        <4>1. Max(T) \in 1 .. k
          BY <2>0, <3>1, Highest
        <4>2. T \in SUBSET DOMAIN n /\ m[Max(T)] = n[Max(T)]
          BY <2>0, <2>1, <4>1
        <4> QED BY <2>3, <3>1, <4>2 DEF Takes
      <3> QED BY <3>1
    <2>5. k \in 0 .. Len(m) /\ Follows(g, Nat, 0, PlusTable, m, k)
      <3>1. g[{}] = 0
        BY <2>3 DEF Takes
      <3>2. k \in 0 .. Len(m)
        BY <2>0, <2>1
      <3>3. Follows(g, Nat, 0, PlusTable, m, k)
        BY <2>4, <3>1, <3>2, Zenon DEF Follows
      <3> QED BY <3>2, <3>3
    <2>6. g[1 .. k] = h[1 .. k]
      <3>1. Alike(g, h, k)
        BY <2>2, <2>5, TakenOnce, Zenon
      <3>2. 1 .. k \in SUBSET (1 .. k)
        OBVIOUS
      <3> QED BY <3>1, <3>2, Zenon DEF Alike
    <2>7. g[1 .. k + 1] = PlusTable[<<g[1 .. k], l[k + 1]>>]
      <3>1. 1 .. k + 1 # {} /\ k + 1 \in 1 .. k + 1 /\ (1 .. k + 1) \ {k + 1} = 1 .. k
        BY <2>0
      <3>2. Max(1 .. k + 1) = k + 1
        <4>1. k + 1 \in Nat /\ 1 .. k + 1 \in SUBSET (1 .. k + 1)
          BY <2>0
        <4> QED BY <3>1, <4>1, Highest
      <3>3. n[k + 1] = l[k + 1]
        BY <2>1, <3>1
      <3>4. 1 .. k + 1 \in SUBSET DOMAIN n
        BY <2>1
      <3>5. g[1 .. k + 1] = PlusTable[<<g[(1 .. k + 1) \ {Max(1 .. k + 1)}], n[Max(1 .. k + 1)]>>]
        BY <2>3, <3>1, <3>4 DEF Takes
      <3> QED BY <3>1, <3>2, <3>3, <3>5
    <2>8. l[k + 1] \in Nat /\ h[1 .. k] \in Nat
      <3>1. l[k + 1] \in Nat
        OBVIOUS
      <3>2. 1 .. k \in SUBSET DOMAIN m
        BY <2>1
      <3> QED BY <2>2, <3>1, <3>2 DEF Takes
    <2> QED BY <1>1, <2>2, <2>3, <2>6, <2>7, <2>8 DEF m, n
  <1> QED BY <1>4, <1>5, <1>6

(***************************************************************************)
(* What is left is a size that can be printed again.                       *)
(***************************************************************************)

\* A text that has been printed for a size and can be read back.
Good(t) ==
    /\ t \in Text /\ IsValid(t)
    /\ Unwrap(t) \in Bytes /\ Cut(Unwrap(t)) <= Unwrap(t)

\* Lemma: every size of the machine is printed so (Size).
LEMMA PrintedIsGood ==
    ASSUME NEW n \in Bytes
    PROVE  Good(Size(n)) /\ Unwrap(Size(n)) = Cut(n)
  <1>1. n \in Int /\ n >= 0
    BY SMT DEF Bytes
  <1>2. Unwrap(Size(n)) = Cut(n)
    BY DEF Cut
  <1>3. Size(n) \in Text
    BY <1>1, TextFacts
  <1>4. IsValid(Size(n))
    <2>1. CASE n < 1024
      BY <1>1, <2>1, SmallSize
    <2>2. CASE n >= 1024
      BY <1>1, <2>2, LargeSize DEF IsValid
    <2> QED BY <1>1, <2>1, <2>2
  <1>5. Cut(n) \in Bytes /\ Cut(Cut(n)) <= Cut(n)
    BY WithinLimits, AgainIsLess
  <1> QED BY <1>2, <1>3, <1>4, <1>5, Zenon DEF Good

\* Lemma: a subtraction gives what can be read exactly when there is enough, no
\* more than there was, and more of more (Sub).
LEMMA Subtracted ==
    ASSUME NEW b, Good(b), NEW n \in Nat
    PROVE  /\ IsValid(Sub(b, n)) <=> Unwrap(b) >= n
           /\ Unwrap(b) >= n => Good(Sub(b, n)) /\ Unwrap(Sub(b, n)) <= Unwrap(b)
           /\ Unwrap(b) >= n /\ Unwrap(b) <= Cut(Total)
              => Unwrap(Sub(b, n)) <= (Unwrap(b) - n) + Half
           /\ \A c : Good(c) /\ Unwrap(b) >= n /\ Unwrap(b) <= Unwrap(c)
              => Unwrap(Sub(b, n)) <= Unwrap(Sub(c, n))
  <1> DEFINE u == Unwrap(b)
  <1>1. u \in Bytes /\ Cut(u) <= u /\ Sub(b, n) = Size(u - n)
    BY DEF Good, Sub
  <1> HIDE DEF u
  <1>2. u \in Nat /\ u <= 1048576
    BY <1>1, SMT DEF Bytes
  <1>3. ASSUME u >= n
        PROVE  /\ u - n \in Bytes /\ Good(Sub(b, n)) /\ IsValid(Sub(b, n))
               /\ Unwrap(Sub(b, n)) = Cut(u - n) /\ Cut(u - n) \in Nat
    <2>1. u - n \in Bytes
      BY <1>2, <1>3, SMT DEF Bytes
    <2>2. Cut(u - n) \in Nat
      BY <2>1, WithinLimits, SMT DEF Bytes
    <2> QED BY <1>1, <2>1, <2>2, PrintedIsGood, Zenon DEF Good
  <1>4. ASSUME u < n PROVE ~IsValid(Sub(b, n))
    <2>1. u - n \in Int /\ u - n < 1024 /\ ~(u - n >= 0)
      BY <1>2, <1>4
    <2> QED BY <1>1, <2>1, SmallSize
  <1>5. IsValid(Sub(b, n)) <=> u >= n
    BY <1>2, <1>3, <1>4
  <1>6. u >= n => Unwrap(Sub(b, n)) <= u
    <2>1. u >= n => u - n <= u /\ u - n \in Bytes
      BY <1>2, <1>3
    <2>2. u >= n => Cut(u - n) <= Cut(u)
      BY <1>1, <2>1, MoreIsMore
    <2>3. Cut(u) \in Nat
      BY <1>1, WithinLimits, SMT DEF Bytes
    <2> QED BY <1>1, <1>2, <1>3, <2>2, <2>3
  <1>7. u >= n /\ u <= Cut(Total) => Unwrap(Sub(b, n)) <= (u - n) + Half
    <2> SUFFICES ASSUME u >= n, u <= Cut(Total)
                 PROVE  Unwrap(Sub(b, n)) <= (u - n) + Half
      OBVIOUS
    <2>1. Cut(Total) \in Nat
      <3>1. Total \in Bytes
        BY SizesAssumption, SMT DEF Bytes
      <3> QED BY <3>1, WithinLimits, SMT DEF Bytes
    <2>2. u - n <= Cut(Total) /\ u - n \in Bytes
      BY <1>2, <1>3, <2>1
    <2>3. Cut(u - n) <= (u - n) + Half
      BY <2>2, GrowsByHalf
    <2> QED BY <1>3, <2>3
  <1>8. ASSUME NEW c, Good(c), u >= n, u <= Unwrap(c)
        PROVE  Unwrap(Sub(b, n)) <= Unwrap(Sub(c, n))
    <2> DEFINE v == Unwrap(c)
    <2>1. v \in Bytes /\ Sub(c, n) = Size(v - n)
      BY <1>8 DEF Good, Sub
    <2>2. u <= v
      BY <1>8
    <2> HIDE DEF v
    <2>3. v - n \in Bytes /\ u - n <= v - n
      BY <1>2, <1>8, <2>1, <2>2, SMT DEF Bytes
    <2>4. Unwrap(Sub(c, n)) = Cut(v - n)
      BY <2>1, <2>3, PrintedIsGood
    <2>5. Cut(u - n) <= Cut(v - n)
      BY <1>3, <1>8, <2>3, MoreIsMore
    <2> QED BY <1>3, <1>8, <2>4, <2>5
  <1> QED BY <1>3, <1>5, <1>6, <1>7, <1>8, Zenon DEF u

\* What is left of b behind the first k bindings of l.
Left(b, l, k) == From(b, SubSeq(l, 1, k))

\* Every subtraction gives what can be read.
Fit(b, l) == \A k \in 0 .. Len(l) : IsValid(Left(b, l, k))

\* Lemma: as long as it can be read it is good.
LEMMA StaysGood ==
    ASSUME NEW b, Good(b), NEW l \in Seq(Nat), NEW n \in 0 .. Len(l),
           \A k \in 0 .. n : IsValid(Left(b, l, k))
    PROVE  \A k \in 0 .. n : Good(Left(b, l, k))
  <1>0. /\ b \in Text
        /\ Left(b, l, 0) = b
        /\ \A k \in 0 .. Len(l) - 1 : Left(b, l, k + 1) = Sub(Left(b, l, k), l[k + 1])
    BY OneMoreTaken DEF Good, Left
  <1> DEFINE Q == {k \in Nat : k <= n => Good(Left(b, l, k))}
  <1>1. 0 \in Q
    BY <1>0
  <1>2. ASSUME NEW k \in Nat, k \in Q PROVE k + 1 \in Q
    <2>1. ASSUME k + 1 <= n PROVE Good(Left(b, l, k + 1))
      <3>1. k \in 0 .. Len(l) - 1 /\ k + 1 \in 0 .. n /\ k <= n
        BY <2>1
      <3>2. l[k + 1] \in Nat
        BY <3>1
      <3>3. Good(Left(b, l, k))
        BY <1>2, <3>1
      <3>4. Left(b, l, k + 1) = Sub(Left(b, l, k), l[k + 1]) /\ IsValid(Left(b, l, k + 1))
        BY <1>0, <3>1
      <3> QED BY <3>2, <3>3, <3>4, Subtracted, Zenon
    <2> QED BY <2>1
  <1> HIDE DEF Q
  <1>3. Nat \subseteq Q
    BY <1>1, <1>2, AllNumbers
  <1>4. ASSUME NEW k \in 0 .. n PROVE Good(Left(b, l, k))
    <2>1. k \in Nat /\ k <= n
      OBVIOUS
    <2> QED BY <1>3, <2>1 DEF Q
  <1> QED BY <1>4

\* l goes on after p as m goes on after q.
GoesOn(l, p, m, q) ==
    /\ l \in Seq(Nat) /\ p \in 0 .. Len(l)
    /\ m \in Seq(Nat) /\ q \in 0 .. Len(m)
    /\ Len(l) - p = Len(m) - q
    /\ \A j \in Nat : j >= 1 /\ j <= Len(l) - p => l[p + j] = m[q + j]

\* Lemma: with at least as much left, what still has to be subtracted fits too.
LEMMA MoreFits ==
    ASSUME NEW b, Good(b), NEW l, NEW p, Fit(b, l),
           NEW c, Good(c), NEW m, NEW q, GoesOn(l, p, m, q),
           \A k \in 0 .. q : IsValid(Left(c, m, k)),
           Unwrap(Left(b, l, p)) <= Unwrap(Left(c, m, q))
    PROVE  Fit(c, m)
  <1>0. /\ l \in Seq(Nat) /\ p \in 0 .. Len(l) /\ m \in Seq(Nat) /\ q \in 0 .. Len(m)
        /\ Len(l) - p = Len(m) - q
        /\ \A j \in Nat : j >= 1 /\ j <= Len(l) - p => l[p + j] = m[q + j]
    BY DEF GoesOn
  <1>1. /\ \A k \in 0 .. Len(l) - 1 : Left(b, l, k + 1) = Sub(Left(b, l, k), l[k + 1])
        /\ \A k \in 0 .. Len(m) - 1 : Left(c, m, k + 1) = Sub(Left(c, m, k), m[k + 1])
    <2>1. b \in Text /\ c \in Text
      BY DEF Good
    <2> QED BY <1>0, <2>1, OneMoreTaken DEF Left
  <1>2. \A k \in 0 .. Len(l) : IsValid(Left(b, l, k)) /\ Good(Left(b, l, k))
    <2>1. \A k \in 0 .. Len(l) : IsValid(Left(b, l, k))
      BY DEF Fit
    <2>2. Len(l) \in 0 .. Len(l)
      BY <1>0
    <2>3. \A k \in 0 .. Len(l) : Good(Left(b, l, k))
      BY <1>0, <2>1, <2>2, StaysGood
    <2> QED BY <2>1, <2>3
  <1>3. \A k \in 0 .. q : Good(Left(c, m, k))
    BY <1>0, StaysGood
  <1> DEFINE Q == {j \in Nat : j <= Len(l) - p =>
                      /\ Good(Left(c, m, q + j))
                      /\ Unwrap(Left(b, l, p + j)) <= Unwrap(Left(c, m, q + j))}
  <1>4. 0 \in Q
    <2>1. q \in 0 .. q /\ p + 0 = p /\ q + 0 = q
      BY <1>0
    <2> QED BY <1>3, <2>1
  <1>5. ASSUME NEW j \in Nat, j \in Q PROVE j + 1 \in Q
    <2>1. ASSUME j + 1 <= Len(l) - p
          PROVE  /\ Good(Left(c, m, q + (j + 1)))
                 /\ Unwrap(Left(b, l, p + (j + 1))) <= Unwrap(Left(c, m, q + (j + 1)))
      <3> DEFINE x == Left(b, l, p + j)
                 y == Left(c, m, q + j)
                 n == l[p + (j + 1)]
      <3>1. /\ p + j \in 0 .. Len(l) - 1 /\ q + j \in 0 .. Len(m) - 1
            /\ p + (j + 1) = (p + j) + 1 /\ q + (j + 1) = (q + j) + 1
            /\ p + j \in 0 .. Len(l) /\ p + (j + 1) \in 0 .. Len(l) /\ p + (j + 1) \in 1 .. Len(l)
            /\ j + 1 \in Nat /\ j + 1 >= 1 /\ j <= Len(l) - p
        BY <1>0, <2>1
      <3>2. n \in Nat /\ n = m[q + (j + 1)]
        <4>1. n = m[q + (j + 1)]
          BY <1>0, <2>1, <3>1
        <4>2. n \in Nat
          BY <1>0, <3>1, SMTT(20)
        <4> QED BY <4>1, <4>2
      <3>3. Left(b, l, p + (j + 1)) = Sub(x, n) /\ Left(c, m, q + (j + 1)) = Sub(y, n)
        <4>1. Left(b, l, (p + j) + 1) = Sub(x, l[(p + j) + 1])
          BY <1>1, <3>1
        <4>2. Left(c, m, (q + j) + 1) = Sub(y, m[(q + j) + 1])
          BY <1>1, <3>1
        <4> QED BY <3>1, <3>2, <4>1, <4>2
      <3>4. Good(x) /\ IsValid(Left(b, l, p + (j + 1)))
        BY <1>2, <3>1
      <3>5. Good(y) /\ Unwrap(x) <= Unwrap(y)
        BY <1>5, <3>1
      <3> HIDE DEF x, y, n
      <3>6. Unwrap(x) >= n
        BY <3>2, <3>3, <3>4, Subtracted
      <3>7. Unwrap(Sub(x, n)) <= Unwrap(Sub(y, n))
        BY <3>2, <3>4, <3>5, <3>6, Subtracted
      <3>8. Unwrap(y) >= n
        <4>1. Unwrap(x) \in Nat /\ Unwrap(y) \in Nat
          BY <3>4, <3>5, SMT DEF Good, Bytes
        <4> QED BY <3>2, <3>5, <3>6, <4>1
      <3>9. Good(Sub(y, n))
        BY <3>2, <3>5, <3>8, Subtracted
      <3> QED BY <3>3, <3>7, <3>9
    <2> QED BY <2>1
  <1> HIDE DEF Q
  <1>6. Nat \subseteq Q
    BY <1>4, <1>5, AllNumbers
  <1>7. ASSUME NEW k \in 0 .. Len(m) PROVE IsValid(Left(c, m, k))
    <2>1. CASE k <= q
      <3>1. k \in 0 .. q
        BY <1>0, <2>1
      <3> QED BY <3>1
    <2>2. CASE k > q
      <3>1. k - q \in Nat /\ k - q <= Len(l) - p /\ q + (k - q) = k
        BY <1>0, <2>2
      <3>2. Good(Left(c, m, q + (k - q)))
        BY <1>6, <3>1 DEF Q
      <3> QED BY <3>1, <3>2 DEF Good
    <2>3. k <= q \/ k > q
      BY <1>0
    <2> QED BY <2>1, <2>2, <2>3
  <1> QED BY <1>7 DEF Fit

(***************************************************************************)
(* The machine.                                                            *)
(***************************************************************************)

\* No reserve is raised, and none is larger than the machine says it is.
ReserveFits == ~Raise /\ \A n \in Reserve : n <= Unwrap(Reported)

\* Everything bound can be subtracted from what the machine has to give.
AllFit ==
    /\ reserve \in Reserve
    /\ list \in Seq(Nat)
    /\ Fit(Available, list)

\* Lemma: what a machine has to give can be read, and is part of it.
LEMMA AvailableFacts ==
    ASSUME ReserveFits, NEW n \in Reserve
    PROVE  /\ Good(Sub(Reported, n)) /\ Unwrap(Sub(Reported, n)) <= Cut(Total)
           /\ \A o \in Reserve : o <= n => Unwrap(Sub(Reported, n)) <= Unwrap(Sub(Reported, o))
  <1>1. Total \in Bytes
    BY SizesAssumption, SMT DEF Bytes
  <1>2. Good(Reported) /\ Unwrap(Reported) = Cut(Total)
    BY <1>1, PrintedIsGood DEF Reported
  <1>3. \A m \in Reserve : m \in Nat /\ Unwrap(Reported) >= m
    BY <1>1, <1>2, SizesAssumption, SMT DEF ReserveFits, Good, Bytes
  <1>4. Good(Sub(Reported, n)) /\ Unwrap(Sub(Reported, n)) <= Cut(Total)
    BY <1>2, <1>3, Subtracted
  <1>5. ASSUME NEW o \in Reserve, o <= n
        PROVE  Unwrap(Sub(Reported, n)) <= Unwrap(Sub(Reported, o))
    <2>1. /\ Sub(Reported, n) = Size(Unwrap(Reported) - n)
          /\ Sub(Reported, o) = Size(Unwrap(Reported) - o)
      BY DEF Sub
    <2>2. /\ Unwrap(Reported) - n \in Bytes /\ Unwrap(Reported) - o \in Bytes
          /\ Unwrap(Reported) - n <= Unwrap(Reported) - o
      BY <1>2, <1>3, <1>5, SMT DEF Good, Bytes
    <2>3. Cut(Unwrap(Reported) - n) <= Cut(Unwrap(Reported) - o)
      BY <2>2, MoreIsMore
    <2> QED BY <2>1, <2>2, <2>3, PrintedIsGood
  <1> QED BY <1>4, <1>5

\* Lemma: the whole of a list is its longest beginning.
LEMMA WholeList ==
    ASSUME NEW l \in Seq(Nat)
    PROVE  SubSeq(l, 1, Len(l)) = l
  OBVIOUS

\* Lemma: one list behind another.
LEMMA Joined ==
    ASSUME NEW u \in Seq(Nat), NEW v \in Seq(Nat)
    PROVE  u \o v \in Seq(Nat) /\ Len(u \o v) = Len(u) + Len(v)
  OBVIOUS

\* Lemma: lists that begin alike.
LEMMA SameBeginning ==
    ASSUME NEW l \in Seq(Nat), NEW m \in Seq(Nat), NEW k \in 0 .. Len(l), k <= Len(m),
           \A j \in 1 .. k : m[j] = l[j]
    PROVE  SubSeq(m, 1, k) = SubSeq(l, 1, k)
  <1> DEFINE x == SubSeq(l, 1, k)
             y == SubSeq(m, 1, k)
  <1>1. x \in Seq(Nat) /\ Len(x) = k /\ \A j \in 1 .. k : x[j] = l[j]
    OBVIOUS
  <1>2. y \in Seq(Nat) /\ Len(y) = k /\ \A j \in 1 .. k : y[j] = m[j]
    OBVIOUS
  <1> HIDE DEF x, y
  <1>3. \A j \in 1 .. k : y[j] = x[j]
    BY <1>1, <1>2
  <1>4. x = y
    BY <1>1, <1>2, <1>3
  <1> QED BY <1>4 DEF x, y

\* Lemma: Init fits.
LEMMA FitInit ==
    ASSUME ReserveFits, Init
    PROVE  AllFit
  <1>1. reserve \in Reserve /\ list = <<>> /\ list \in Seq(Nat) /\ Len(list) = 0
    BY DEF Init
  <1>2. Good(Available)
    BY <1>1, AvailableFacts DEF Available
  <1>3. Left(Available, list, 0) = Available
    <2>1. Available \in Text
      BY <1>2 DEF Good
    <2> QED BY <1>1, <2>1, OneMoreTaken DEF Left
  <1>4. ASSUME NEW k \in 0 .. Len(list) PROVE IsValid(Left(Available, list, k))
    <2>1. k = 0
      BY <1>1
    <2> QED BY <1>2, <1>3, <2>1 DEF Good
  <1> QED BY <1>1, <1>4 DEF AllFit, Fit

\* Lemma: a binding that is no overflow fits behind the others (Bind).
LEMMA FitBind ==
    ASSUME ReserveFits, AllFit, NEW n \in Asked, Bind(n)
    PROVE  AllFit'
  <1> DEFINE b == Available
             l == list
             m == list'
  <1>0. /\ reserve \in Reserve /\ l \in Seq(Nat) /\ n \in Nat /\ Fit(b, l)
        /\ m = Append(l, n) /\ reserve' = reserve
    BY SizesAssumption DEF AllFit, Bind
  <1>1. Good(b)
    BY <1>0, AvailableFacts DEF Available
  <1>2. m \in Seq(Nat) /\ Len(m) = Len(l) + 1 /\ m[Len(l) + 1] = n /\ Len(l) \in Nat
    BY <1>0
  <1>3. ASSUME NEW k \in 0 .. Len(l) PROVE Left(b, m, k) = Left(b, l, k)
    <2>1. SubSeq(m, 1, k) = SubSeq(l, 1, k)
      BY <1>0
    <2> QED BY <2>1 DEF Left
  <1>4. Left(b, l, Len(l)) = Rest(list)
    <2>1. SubSeq(l, 1, Len(l)) = l
      BY <1>0, WholeList
    <2> QED BY <2>1 DEF Left, From, Rest
  <1>5. Unwrap(Left(b, l, Len(l))) >= n
    BY <1>4 DEF Bind
  <1>6. Good(Left(b, l, Len(l)))
    <2>1. \A k \in 0 .. Len(l) : IsValid(Left(b, l, k))
      BY <1>0 DEF Fit
    <2>2. Len(l) \in 0 .. Len(l)
      BY <1>2
    <2> QED BY <1>0, <1>1, <2>1, <2>2, StaysGood
  <1>7. Left(b, m, Len(l) + 1) = Sub(Left(b, l, Len(l)), n)
    <2>1. b \in Text
      BY <1>1 DEF Good
    <2>2. Len(l) \in 0 .. Len(m) - 1 /\ Len(l) \in 0 .. Len(l)
      BY <1>2
    <2>3. Left(b, m, Len(l) + 1) = Sub(Left(b, m, Len(l)), m[Len(l) + 1])
      BY <1>2, <2>1, <2>2, OneMoreTaken DEF Left
    <2> QED BY <1>2, <1>3, <2>2, <2>3
  <1>8. IsValid(Left(b, m, Len(l) + 1))
    BY <1>0, <1>5, <1>6, <1>7, Subtracted
  <1>9. Fit(b, m)
    <2>1. ASSUME NEW k \in 0 .. Len(m) PROVE IsValid(Left(b, m, k))
      <3>1. k \in 0 .. Len(l) \/ k = Len(l) + 1
        BY <1>2
      <3> QED BY <1>0, <1>3, <1>8, <3>1 DEF Fit
    <2> QED BY <2>1 DEF Fit
  <1>10. Available' = Available
    BY <1>0 DEF Available
  <1> QED BY <1>0, <1>2, <1>9, <1>10 DEF AllFit

\* Lemma: without one of them the others still fit, in whatever place it was (Release).
LEMMA FitRelease ==
    ASSUME ReserveFits, AllFit, NEW i \in 1 .. Len(list), Release(i)
    PROVE  AllFit'
  <1> DEFINE b == Available
             l == list
             m == list'
  <1>0. /\ reserve \in Reserve /\ l \in Seq(Nat) /\ Fit(b, l) /\ Len(l) \in Nat
        /\ m = SubSeq(l, 1, i - 1) \o SubSeq(l, i + 1, Len(l)) /\ reserve' = reserve
    BY DEF AllFit, Release, RemoveAt
  <1>1. Good(b)
    BY <1>0, AvailableFacts DEF Available
  <1>2. i \in Nat /\ i >= 1 /\ i <= Len(l) /\ i - 1 \in 0 .. Len(l) /\ Len(l) \in Nat
    BY <1>0
  <1> DEFINE u == SubSeq(l, 1, i - 1)
             v == SubSeq(l, i + 1, Len(l))
  <1>3. u \in Seq(Nat) /\ Len(u) = i - 1 /\ \A j \in 1 .. i - 1 : u[j] = l[j]
    BY <1>0, <1>2
  <1>4. v \in Seq(Nat) /\ Len(v) = Len(l) - i /\ \A j \in 1 .. Len(l) - i : v[j] = l[i + j]
    BY <1>0, <1>2
  <1>5. m = u \o v
    BY <1>0
  <1> HIDE DEF u, v
  <1>6. /\ m \in Seq(Nat) /\ Len(m) = Len(l) - 1
        /\ \A j \in 1 .. i - 1 : m[j] = l[j]
        /\ \A j \in 1 .. Len(l) - i : m[(i - 1) + j] = l[i + j]
    <2>1. m \in Seq(Nat) /\ Len(m) = Len(u) + Len(v)
      BY <1>3, <1>4, <1>5, Joined
    <2>2. ASSUME NEW j \in 1 .. i - 1 PROVE m[j] = l[j]
      <3>1. j \in 1 .. Len(u)
        BY <1>3
      <3>2. m[j] = u[j]
        BY <1>3, <1>4, <1>5, <3>1
      <3> QED BY <1>3, <3>2
    <2>3. ASSUME NEW j \in 1 .. Len(l) - i PROVE m[(i - 1) + j] = l[i + j]
      <3>1. (i - 1) + j \in 1 .. Len(u) + Len(v) /\ ~((i - 1) + j <= Len(u)) /\ ((i - 1) + j) - Len(u) = j
        BY <1>0, <1>2, <1>3, <1>4
      <3>2. m[(i - 1) + j] = v[j]
        BY <1>3, <1>4, <1>5, <3>1, SMTT(20)
      <3> QED BY <1>4, <3>2
    <2>4. Len(u) + Len(v) = Len(l) - 1
      BY <1>0, <1>2, <1>3, <1>4
    <2> QED BY <2>1, <2>2, <2>3, <2>4
  <1>7. ASSUME NEW k \in 0 .. i - 1 PROVE Left(b, m, k) = Left(b, l, k)
    <2>1. k \in 0 .. Len(l) /\ k <= Len(m)
      <3>1. Len(m) = Len(l) - 1
        BY <1>6
      <3> QED BY <1>2, <3>1
    <2>2. \A j \in 1 .. k : m[j] = l[j]
      <3>1. 1 .. k \subseteq 1 .. i - 1
        BY <1>2
      <3> QED BY <1>6, <3>1
    <2>3. SubSeq(m, 1, k) = SubSeq(l, 1, k)
      BY <1>0, <1>6, <2>1, <2>2, SameBeginning
    <2> QED BY <2>3 DEF Left
  <1>8. GoesOn(l, i, m, i - 1)
    <2>1. i \in 0 .. Len(l) /\ i - 1 \in 0 .. Len(m) /\ Len(l) - i = Len(m) - (i - 1)
      <3>1. Len(m) = Len(l) - 1
        BY <1>6
      <3> QED BY <1>2, <3>1
    <2>2. ASSUME NEW j \in Nat, j >= 1, j <= Len(l) - i PROVE l[i + j] = m[(i - 1) + j]
      <3>1. j \in 1 .. Len(l) - i
        BY <1>0, <1>2, <2>2
      <3> QED BY <1>6, <3>1
    <2> QED BY <1>0, <1>6, <2>1, <2>2, Zenon DEF GoesOn
  <1>9. \A k \in 0 .. i - 1 : IsValid(Left(b, m, k))
    <2>1. ASSUME NEW k \in 0 .. i - 1 PROVE IsValid(Left(b, m, k))
      <3>1. k \in 0 .. Len(l)
        BY <1>0, <1>2
      <3> QED BY <1>0, <1>7, <3>1 DEF Fit
    <2> QED BY <2>1
  <1>10. Unwrap(Left(b, l, i)) <= Unwrap(Left(b, m, i - 1))
    <2> DEFINE x == Left(b, l, i - 1)
    <2>1. i - 1 \in 0 .. i - 1 /\ i - 1 \in 0 .. Len(l) - 1 /\ (i - 1) + 1 = i /\ i \in 0 .. Len(l)
      BY <1>0, <1>2
    <2>2. Left(b, m, i - 1) = x
      BY <1>7, <2>1
    <2>3. Left(b, l, i) = Sub(x, l[i])
      <3>1. b \in Text
        BY <1>1 DEF Good
      <3>2. Left(b, l, (i - 1) + 1) = Sub(x, l[(i - 1) + 1])
        BY <1>0, <2>1, <3>1, OneMoreTaken DEF Left
      <3> QED BY <2>1, <3>2
    <2>4. Good(x)
      <3>1. \A k \in 0 .. Len(l) : IsValid(Left(b, l, k))
        BY <1>0 DEF Fit
      <3>2. Len(l) \in 0 .. Len(l) /\ i - 1 \in 0 .. Len(l)
        BY <1>0, <1>2
      <3> QED BY <1>0, <1>1, <3>1, <3>2, StaysGood
    <2>5. IsValid(Left(b, l, i))
      BY <1>0, <2>1 DEF Fit
    <2>6. l[i] \in Nat
      BY <1>0
    <2> HIDE DEF x
    <2> QED BY <2>2, <2>3, <2>4, <2>5, <2>6, Subtracted
  <1>11. Fit(b, m)
    BY <1>0, <1>1, <1>8, <1>9, <1>10, MoreFits, Zenon
  <1>12. Available' = Available
    BY <1>0 DEF Available
  <1> QED BY <1>0, <1>6, <1>11, <1>12 DEF AllFit

\* Lemma: with a smaller reserve they fit (EditReserve).
LEMMA FitEditReserve ==
    ASSUME ReserveFits, AllFit, NEW n \in Reserve, EditReserve(n)
    PROVE  AllFit'
  <1> DEFINE b == Available
             c == Sub(Reported, n)
             l == list
  <1>0. /\ reserve \in Reserve /\ l \in Seq(Nat) /\ Fit(b, l) /\ n < reserve
        /\ reserve' = n /\ list' = l
    BY DEF AllFit, EditReserve, ReserveFits
  <1>1. n \in Int /\ reserve \in Int /\ n <= reserve
    BY <1>0, SizesAssumption
  <1>2. Good(b) /\ Good(c) /\ Unwrap(b) <= Unwrap(c)
    BY <1>0, <1>1, AvailableFacts DEF Available
  <1>3. Left(b, l, 0) = b /\ Left(c, l, 0) = c
    BY <1>0, <1>2, OneMoreTaken DEF Left, Good
  <1>4. GoesOn(l, 0, l, 0)
    BY <1>0 DEF GoesOn
  <1>5. \A k \in 0 .. 0 : IsValid(Left(c, l, k))
    <2>1. \A k \in 0 .. 0 : k = 0
      OBVIOUS
    <2> QED BY <1>2, <1>3, <2>1 DEF Good
  <1>6. Fit(c, l)
    <2>1. Unwrap(Left(b, l, 0)) <= Unwrap(Left(c, l, 0))
      BY <1>2, <1>3
    <2> QED BY <1>0, <1>2, <1>4, <1>5, <2>1, MoreFits, Zenon
  <1>7. Available' = c
    BY <1>0 DEF Available
  <1> QED BY <1>0, <1>6, <1>7 DEF AllFit

\* Lemma: whatever has been bound, released and reserved, everything bound fits.
LEMMA AlwaysFits ==
    ASSUME ReserveFits
    PROVE  Spec => []AllFit
  <1>1. Init => AllFit
    BY FitInit
  <1>2. AllFit /\ [Next]_vars => AllFit'
    <2> SUFFICES ASSUME AllFit, [Next]_vars PROVE AllFit'
      OBVIOUS
    <2>1. CASE \E n \in Asked : Bind(n)
      BY <2>1, FitBind
    <2>2. CASE \E i \in 1 .. Len(list) : Release(i)
      BY <2>2, FitRelease
    <2>3. CASE \E n \in Reserve : EditReserve(n)
      BY <2>3, FitEditReserve
    <2>4. CASE UNCHANGED vars
      BY <2>4 DEF vars, AllFit, Available
    <2> QED BY <2>1, <2>2, <2>3, <2>4 DEF Next
  <1> QED BY <1>1, <1>2, PTL DEF Spec

\* Theorem (bytes_size.go:32, no panic "BytesSize(%s) is invalid"): if no reserve
\* is raised and none is larger than the machine says it is, then for all sizes
\* of machines and resources and after every history of binding and releasing
\* every size on the way to the rest of the machine can be read back.
THEOREM RestIsReadable ==
    ASSUME ReserveFits
    PROVE  Spec => []RestReadable
  <1>1. AllFit => RestReadable
    BY DEF AllFit, Fit, Left, From, Rest, RestReadable
  <1>2. Spec => []AllFit
    BY AlwaysFits
  <1> QED BY <1>1, <1>2, PTL

\* Lemma: what is given away and what is left are no more than there was, but for
\* half of the last digit for every binding.
LEMMA GivenBound ==
    ASSUME NEW b, Good(b), Unwrap(b) <= Cut(Total), NEW l \in Seq(Nat), Fit(b, l)
    PROVE  /\ Given(l) + Unwrap(Left(b, l, Len(l))) <= Unwrap(b) + Len(l) * Half
           /\ Unwrap(Left(b, l, Len(l))) \in Nat /\ Given(l) \in Nat /\ Half \in Nat
  <1> DEFINE S(k) == Given(SubSeq(l, 1, k))
             R(k) == Unwrap(Left(b, l, k))
  <1>0. /\ b \in Text /\ Unwrap(b) \in Nat /\ Len(l) \in Nat /\ Len(l) \in 0 .. Len(l)
        /\ Unwrap(b) \in Bytes
    BY SMT DEF Good, Bytes
  <1>1. Half \in Nat
    BY <1>0, GrowsByHalf
  <1>2. \A k \in 0 .. Len(l) : Good(Left(b, l, k))
    BY <1>0, StaysGood DEF Fit
  <1>3. \A k \in 0 .. Len(l) : R(k) \in Nat /\ S(k) \in Nat
    <2>1. ASSUME NEW k \in 0 .. Len(l) PROVE R(k) \in Nat
      BY <1>2, SMT DEF Good, Bytes
    <2> QED BY <2>1, OneMoreAdded
  <1>4. S(0) = 0 /\ Left(b, l, 0) = b
    BY <1>0, OneMoreTaken, OneMoreAdded DEF Left
  <1>5. Cut(Total) \in Nat
    <2>1. Total \in Bytes
      BY SizesAssumption, SMT DEF Bytes
    <2> QED BY <2>1, WithinLimits, SMT DEF Bytes
  <1> DEFINE Q == {k \in Nat : k <= Len(l) =>
                      S(k) + R(k) <= Unwrap(b) + k * Half /\ R(k) <= Cut(Total)}
  <1>6. 0 \in Q
    BY <1>0, <1>1, <1>4
  <1>7. ASSUME NEW k \in Nat, k \in Q PROVE k + 1 \in Q
    <2>1. ASSUME k + 1 <= Len(l)
          PROVE  /\ S(k + 1) + R(k + 1) <= Unwrap(b) + (k + 1) * Half
                 /\ R(k + 1) <= Cut(Total)
      <3> DEFINE x == Left(b, l, k)
                 n == l[k + 1]
      <3>1. /\ k \in 0 .. Len(l) - 1 /\ k \in 0 .. Len(l) /\ k + 1 \in 0 .. Len(l)
            /\ k + 1 \in 1 .. Len(l) /\ k <= Len(l)
        BY <1>0, <2>1
      <3>2. n \in Nat
        BY <3>1
      <3>3. Left(b, l, k + 1) = Sub(x, n) /\ S(k + 1) = S(k) + n
        BY <1>0, <3>1, OneMoreTaken, OneMoreAdded DEF Left
      <3>4. Good(x) /\ IsValid(Sub(x, n)) /\ R(k) <= Cut(Total)
        BY <1>2, <1>7, <3>1, <3>3 DEF Fit
      <3>5. Unwrap(x) >= n
        BY <3>2, <3>4, Subtracted
      <3>6. Unwrap(Sub(x, n)) <= (Unwrap(x) - n) + Half /\ Unwrap(Sub(x, n)) <= Unwrap(x)
        BY <3>2, <3>4, <3>5, Subtracted
      <3>7. S(k) + R(k) <= Unwrap(b) + k * Half
        BY <1>7, <3>1
      <3>8. (k + 1) * Half = k * Half + Half /\ k * Half \in Nat
        BY <1>1
      <3>9. S(k) \in Nat /\ R(k) \in Nat /\ R(k + 1) \in Nat
        BY <1>3, <3>1
      <3>10. R(k + 1) <= (R(k) - n) + Half /\ R(k + 1) <= R(k)
        BY <3>3, <3>6
      <3> DEFINE s == S(k)
                 r == R(k)
                 s1 == S(k + 1)
                 r1 == R(k + 1)
                 h == k * Half
                 h1 == (k + 1) * Half
                 w == Unwrap(b)
      <3>11. /\ s \in Nat /\ r \in Nat /\ r1 \in Nat /\ s1 = s + n /\ h \in Nat /\ h1 = h + Half
             /\ s + r <= w + h /\ r1 <= (r - n) + Half /\ r1 <= r /\ r <= Cut(Total) /\ w \in Nat
        BY <1>0, <3>3, <3>4, <3>7, <3>8, <3>9, <3>10
      <3> HIDE DEF s, r, s1, r1, h, h1, w, n
      <3>12. s1 + r1 <= w + h1 /\ r1 <= Cut(Total)
        BY <1>1, <1>5, <3>2, <3>11
      <3> QED BY <3>12, Zenon DEF s1, r1, h1, w
    <2> QED BY <2>1
  <1> HIDE DEF Q
  <1>8. Nat \subseteq Q
    BY <1>6, <1>7, AllNumbers
  <1>9. S(Len(l)) + R(Len(l)) <= Unwrap(b) + Len(l) * Half
    BY <1>0, <1>8 DEF Q
  <1>10. SubSeq(l, 1, Len(l)) = l
    BY WholeList
  <1> QED BY <1>0, <1>1, <1>3, <1>9, <1>10

\* Theorem (NewQuantity and Sub of BytesSize): under the same two conditions a
\* machine gives away no more than it has to give, but for half of the last digit
\* of its size for every resource on it, whatever their number is.
THEOREM OvercommitIsBounded ==
    ASSUME ReserveFits
    PROVE  Spec => []OvercommitBounded
  <1>1. AllFit => OvercommitBounded
    <2> SUFFICES ASSUME AllFit PROVE OvercommitBounded
      OBVIOUS
    <2>1. Good(Available) /\ Unwrap(Available) <= Cut(Total)
      BY AvailableFacts DEF AllFit, Available
    <2> DEFINE r == Unwrap(Left(Available, list, Len(list)))
               h == Len(list) * Half
    <2>2. /\ Given(list) + r <= Unwrap(Available) + h
          /\ r \in Nat /\ Given(list) \in Nat /\ Half \in Nat
      BY <2>1, GivenBound DEF AllFit
    <2>3. Unwrap(Available) \in Nat
      BY <2>1, SMT DEF Good, Bytes
    <2>4. h \in Nat
      BY <2>2 DEF AllFit
    <2> HIDE DEF r, h
    <2>5. Given(list) <= Unwrap(Available) + h
      BY <2>2, <2>3, <2>4
    <2> QED BY <2>5, Zenon DEF OvercommitBounded, Given, Half, h
  <1>2. Spec => []AllFit
    BY AlwaysFits
  <1> QED BY <1>1, <1>2, PTL
=============================================================================

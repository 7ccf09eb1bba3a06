----------------------------- MODULE Induction -----------------------------
(***************************************************************************)
(* Induction over a set of numbers instead of a predicate, which the       *)
(* provers can instantiate, and what follows from it for recursive         *)
(* functions, for the folds of FoldLeft and for the order a sort gives;    *)
(* and the bounds of a quotient. The facts that the other modules' proofs  *)
(* about rows, panes, bars and sums rest on.                               *)
(***************************************************************************)
EXTENDS Integers, FiniteSets, FiniteSetTheorems, WellFoundedInduction, TLAPS

\* A set with 0 and the successor of each of its numbers has all of them.
LEMMA SetInduction ==
    ASSUME NEW S, 0 \in S, \A n \in Nat : n \in S => n + 1 \in S
    PROVE  Nat \subseteq S
  <1> DEFINE T == Nat \ S
             R == {p \in Nat \X Nat : p[1] < p[2]}
  <1>1. SUFFICES ASSUME T # {} PROVE FALSE
    OBVIOUS
  <1>2. IsWellFoundedOn(R, Nat)
    BY NatLessThanWellFounded DEF OpToRel
  <1>3. PICK x \in T : \A y \in T : ~(<<y, x>> \in R)
    <2> HIDE DEF R
    <2> QED
      BY <1>1, <1>2, WFMin
  <1>4. x \in Nat /\ x # 0 /\ x - 1 \in Nat
    OBVIOUS
  <1>5. <<x - 1, x>> \in R
    BY <1>4
  <1>6. x - 1 \in S
    BY <1>3, <1>4, <1>5
  <1>7. (x - 1) + 1 = x
    BY <1>4
  <1> QED
    BY <1>4, <1>6, <1>7

-----------------------------------------------------------------------------
(* Quotients.                                                              *)

LEMMA Division ==
    ASSUME NEW a \in Int, NEW b \in Nat \ {0}
    PROVE  /\ a \div b \in Int /\ a % b \in 0..(b - 1)
           /\ a = b * (a \div b) + (a % b)
  OBVIOUS

LEMMA TimesMonotone ==
    ASSUME NEW a \in Int, NEW b \in Int, NEW s \in Nat, a <= b
    PROVE  a * s <= b * s
  OBVIOUS

\* What is less than the next multiple has no greater quotient, what is no
\* less than a multiple has no smaller one.
LEMMA QuotientBounds ==
    ASSUME NEW a \in Int, NEW b \in Nat \ {0}, NEW m \in Int
    PROVE  /\ a < b * m + b => a \div b <= m
           /\ b * m <= a => m <= a \div b
  <1> DEFINE q == a \div b
  <1>1. q \in Int /\ b * q <= a /\ a < b * q + b
    BY Division
  <1> HIDE DEF q
  <1>2. ASSUME a < b * m + b, m + 1 <= q PROVE FALSE
    <2>1. (m + 1) * b <= q * b
      BY <1>1, <1>2, TimesMonotone
    <2> QED
      BY <1>1, <1>2, <2>1
  <1>3. ASSUME b * m <= a, q + 1 <= m PROVE FALSE
    <2>1. (q + 1) * b <= m * b
      BY <1>1, <1>3, TimesMonotone
    <2> QED
      BY <1>1, <1>3, <2>1
  <1>4. (a < b * m + b => q <= m) /\ (b * m <= a => m <= q)
    BY <1>1, <1>2, <1>3
  <1> QED
    BY <1>4 DEF q

\* A quotient and a rest that fit are the only ones.
LEMMA QuotientIs ==
    ASSUME NEW a \in Int, NEW b \in Nat \ {0}, NEW q \in Int, NEW r \in 0..(b - 1),
           a = b * q + r
    PROVE  a \div b = q /\ a % b = r
  <1>1. a < b * q + b /\ b * q <= a /\ b * q \in Int
    OBVIOUS
  <1>2. a \div b <= q /\ q <= a \div b
    BY <1>1, QuotientBounds
  <1>3. a \div b \in Int /\ a = b * (a \div b) + (a % b) /\ a % b \in 0..(b - 1)
    BY Division
  <1>4. a \div b = q
    BY <1>2, <1>3
  <1> QED
    BY <1>1, <1>3, <1>4

-----------------------------------------------------------------------------
(* Recursion.                                                              *)

\* f goes on from its value before, from the first number of an interval on.
IsRecursion(f, low, high, A, b, G) ==
    /\ f \in [low..high -> A]
    /\ \A k \in low..high : f[k] = IF k = low THEN b ELSE G[<<f[k - 1], k>>]

\* There is such a function, so a recursive definition is of one.
LEMMA RecursionExists ==
    ASSUME NEW low \in Int, NEW high \in Int, NEW A, NEW b \in A,
           NEW G \in [A \X (low..high) -> A]
    PROVE  \E f : IsRecursion(f, low, high, A, b, G)
  <1> DEFINE Good(f, n) ==
                 /\ f \in [low..(low + n) -> A]
                 /\ \A k \in low..(low + n) : k <= high =>
                       f[k] = IF k = low THEN b ELSE G[<<f[k - 1], k>>]
             S == {n \in Nat : \E f : Good(f, n)}
  <1>1. 0 \in S
    <2> DEFINE f == [k \in low..(low + 0) |-> b]
    <2>1. Good(f, 0)
      OBVIOUS
    <2> QED
      BY <2>1
  <1>2. ASSUME NEW n \in Nat, n \in S PROVE n + 1 \in S
    <2>1. PICK f : Good(f, n)
      BY <1>2
    <2> DEFINE m == low + n + 1
               g == [k \in low..(low + (n + 1)) |->
                        IF k < m THEN f[k]
                        ELSE IF m <= high THEN G[<<f[m - 1], m>>] ELSE b]
    <2>2. m \in Int /\ m - 1 \in low..(low + n) /\ m > low
      OBVIOUS
    <2>3. \A k \in low..(low + (n + 1)) : k < m => k \in low..(low + n)
      OBVIOUS
    <2>4. \A k \in low..(low + (n + 1)) : ~(k < m) => k = m
      OBVIOUS
    <2>5. m <= high => G[<<f[m - 1], m>>] \in A
      BY <2>1, <2>2
    <2>6. g \in [low..(low + (n + 1)) -> A]
      BY <2>1, <2>3, <2>5
    <2>7. ASSUME NEW k \in low..(low + (n + 1)), k <= high
          PROVE  g[k] = IF k = low THEN b ELSE G[<<g[k - 1], k>>]
      <3>1. CASE k < m
        <4>1. k \in low..(low + n) /\ g[k] = f[k]
          BY <2>3, <3>1
        <4>2. k # low => k - 1 \in low..(low + (n + 1)) /\ k - 1 < m
          BY <3>1
        <4>3. k # low => g[k - 1] = f[k - 1]
          BY <4>2
        <4> QED
          BY <2>1, <2>7, <4>1, <4>3
      <3>2. CASE ~(k < m)
        <4>1. k = m
          BY <2>4, <3>2
        <4>2. k - 1 \in low..(low + (n + 1)) /\ k - 1 < m /\ k # low
          BY <2>2, <4>1
        <4>3. g[k - 1] = f[k - 1]
          BY <4>2
        <4>4. g[k] = G[<<f[m - 1], m>>]
          BY <2>7, <3>2, <4>1
        <4> QED
          BY <4>1, <4>2, <4>3, <4>4
      <3> QED
        BY <3>1, <3>2
    <2>8. Good(g, n + 1)
      <3> HIDE DEF g, m
      <3> QED
        BY <2>6, <2>7
    <2> QED
      <3> HIDE DEF Good
      <3> QED
        BY <2>8
  <1>3. \A n \in Nat : n \in S
    <2> HIDE DEF S
    <2> QED
      BY <1>1, <1>2, SetInduction
  <1>4. CASE low <= high
    <2>1. high - low \in Nat /\ low + (high - low) = high
      BY <1>4
    <2>2. PICK f : Good(f, high - low)
      <3> HIDE DEF Good
      <3> QED
        BY <1>3, <2>1
    <2>3. f \in [low..high -> A]
      BY <2>1, <2>2
    <2>4. \A k \in low..high : f[k] = IF k = low THEN b ELSE G[<<f[k - 1], k>>]
      BY <2>1, <2>2
    <2> QED
      BY <2>3, <2>4 DEF IsRecursion
  <1>5. CASE ~(low <= high)
    <2>1. low..high = {}
      BY <1>5
    <2> DEFINE f == [k \in low..high |-> b]
    <2>2. f \in [low..high -> A]
      BY <2>1
    <2> QED
      BY <2>1, <2>2 DEF IsRecursion
  <1> QED
    BY <1>4, <1>5

-----------------------------------------------------------------------------
(* Folds.                                                                  *)

\* it folds G over the subsets of 1..j, greatest element last, as FoldLeft folds
\* over the places of a sequence.
IsFold(it, j, A, b, G) ==
    /\ it \in [SUBSET (1..j) -> A]
    /\ it[{}] = b
    /\ \A s \in SUBSET (1..j) : \A m \in s :
          (\A k \in s : k <= m) => it[s] = G[<<it[s \ {m}], m>>]

\* There is such a fold, so FoldLeft chooses one.
LEMMA FoldExists ==
    ASSUME NEW n \in Nat, NEW A, NEW b \in A, NEW G \in [A \X (1..n) -> A]
    PROVE  \E it : IsFold(it, n, A, b, G)
  <1> DEFINE Good(it, j) == IsFold(it, j, A, b, G)
             S == {j \in Nat : j <= n => \E it : Good(it, j)}
  <1>1. 0 \in S
    <2> DEFINE it == [s \in SUBSET (1..0) |-> b]
    <2>1. 1..0 = {}
      OBVIOUS
    <2>2. Good(it, 0)
      BY <2>1 DEF IsFold
    <2> QED
      BY <2>2
  <1>2. ASSUME NEW j \in Nat, j \in S PROVE j + 1 \in S
    <2>1. SUFFICES ASSUME j + 1 <= n PROVE \E it : Good(it, j + 1)
      BY <1>2
    <2>2. PICK it : Good(it, j)
      BY <1>2, <2>1
    <2>0. /\ it \in [SUBSET (1..j) -> A]
          /\ it[{}] = b
          /\ \A s \in SUBSET (1..j) : \A m \in s :
                (\A k \in s : k <= m) => it[s] = G[<<it[s \ {m}], m>>]
      BY <2>2 DEF IsFold
    <2> DEFINE new == [s \in SUBSET (1..(j + 1)) |->
                         IF j + 1 \in s THEN G[<<it[s \ {j + 1}], j + 1>>] ELSE it[s]]
    <2>3. ASSUME NEW s \in SUBSET (1..(j + 1)) PROVE s \ {j + 1} \in SUBSET (1..j)
      OBVIOUS
    <2>4. ASSUME NEW s \in SUBSET (1..(j + 1)), j + 1 \notin s PROVE s \in SUBSET (1..j)
      BY <2>4
    <2>5. j + 1 \in 1..n
      BY <2>1
    <2>6. new \in [SUBSET (1..(j + 1)) -> A]
      <3> SUFFICES ASSUME NEW s \in SUBSET (1..(j + 1)) PROVE new[s] \in A
        OBVIOUS
      <3>1. CASE j + 1 \in s
        BY <2>0, <2>3, <2>5, <3>1
      <3>2. CASE j + 1 \notin s
        BY <2>0, <2>4, <3>2
      <3> QED
        BY <3>1, <3>2
    <2>7. new[{}] = b
      BY <2>0
    <2>8. ASSUME NEW s \in SUBSET (1..(j + 1)), NEW m \in s, \A k \in s : k <= m
          PROVE  new[s] = G[<<new[s \ {m}], m>>]
      <3>1. CASE j + 1 \in s
        <4>1. m = j + 1
          BY <2>8, <3>1
        <4>2. s \ {m} \in SUBSET (1..j) /\ s \ {m} \in SUBSET (1..(j + 1)) /\ j + 1 \notin s \ {m}
          BY <2>3, <4>1
        <4>3. new[s \ {m}] = it[s \ {m}]
          BY <4>2
        <4> QED
          BY <3>1, <4>1, <4>3
      <3>2. CASE j + 1 \notin s
        <4>1. s \in SUBSET (1..j) /\ s \ {m} \in SUBSET (1..(j + 1)) /\ j + 1 \notin s \ {m}
          BY <2>4, <3>2
        <4>2. new[s] = it[s] /\ new[s \ {m}] = it[s \ {m}]
          BY <4>1, <3>2
        <4> QED
          BY <2>0, <2>8, <4>1, <4>2
      <3> QED
        BY <3>1, <3>2
    <2>9. Good(new, j + 1)
      <3> HIDE DEF new
      <3> QED
        BY <2>6, <2>7, <2>8 DEF IsFold
    <2> QED
      BY <2>9
  <1>3. n \in S
    <2> HIDE DEF S
    <2> QED
      BY <1>1, <1>2, SetInduction
  <1> QED
    BY <1>3

\* Some numbers up to n have a greatest.
LEMMA HasGreatest ==
    ASSUME NEW n \in Nat, NEW s \in SUBSET (1..n), s # {}
    PROVE  \E m \in s : \A k \in s : k <= m
  <1> DEFINE S == {j \in Nat : \A t \in SUBSET (1..j) :
                      t # {} => \E m \in t : \A k \in t : k <= m}
  <1>1. 0 \in S
    <2>1. 1..0 = {}
      OBVIOUS
    <2> QED
      BY <2>1
  <1>2. ASSUME NEW j \in Nat, j \in S PROVE j + 1 \in S
    <2> SUFFICES ASSUME NEW t \in SUBSET (1..(j + 1)), t # {}
                 PROVE  \E m \in t : \A k \in t : k <= m
      OBVIOUS
    <2>1. CASE j + 1 \in t
      BY <2>1
    <2>2. CASE j + 1 \notin t
      <3>1. t \in SUBSET (1..j)
        BY <2>2
      <3> QED
        BY <3>1, <1>2
    <2> QED
      BY <2>1, <2>2
  <1>3. n \in S
    <2> HIDE DEF S
    <2> QED
      BY <1>1, <1>2, SetInduction
  <1> QED
    BY <1>3

-----------------------------------------------------------------------------
(* Sorting.                                                                *)

\* The places of 1..n before i in R.
Below(R, n, i) == {j \in 1..n : <<j, i>> \in R}

\* In a strict total order of n places, exactly one has k - 1 before it, and
\* whoever comes first has fewer.
LEMMA RankOf ==
    ASSUME NEW n \in Nat, NEW R,
           \A i \in 1..n : <<i, i>> \notin R,
           \A i, j \in 1..n : i # j => <<i, j>> \in R \/ <<j, i>> \in R,
           \A i, j, l \in 1..n : <<i, j>> \in R /\ <<j, l>> \in R => <<i, l>> \in R
    PROVE  /\ \A k \in 1..n : \E i \in 1..n :
                 /\ Cardinality(Below(R, n, i)) + 1 = k
                 /\ \A l \in 1..n : Cardinality(Below(R, n, l)) + 1 = k => l = i
           /\ \A i \in 1..n : Cardinality(Below(R, n, i)) + 1 \in 1..n
           /\ \A i, j \in 1..n :
                 <<i, j>> \in R => Cardinality(Below(R, n, i)) < Cardinality(Below(R, n, j))
  <1> DEFINE rank == [i \in 1..n |-> Cardinality(Below(R, n, i)) + 1]
  <1>1. IsFiniteSet(1..n) /\ Cardinality(1..n) = n
    BY FS_Interval
  <1>2. ASSUME NEW i \in 1..n
        PROVE  /\ IsFiniteSet(Below(R, n, i))
               /\ Cardinality(Below(R, n, i)) \in Nat
               /\ Cardinality(Below(R, n, i)) <= n - 1
    <2>1. /\ IsFiniteSet((1..n) \ {i}) /\ Cardinality((1..n) \ {i}) = n - 1
      BY <1>1, FS_RemoveElement
    <2>2. Below(R, n, i) \in SUBSET ((1..n) \ {i})
      BY DEF Below
    <2>3. IsFiniteSet(Below(R, n, i)) /\ Cardinality(Below(R, n, i)) <= n - 1
      BY <2>1, <2>2, FS_Subset
    <2> QED
      BY <2>3, FS_CardinalityType
  <1>3. ASSUME NEW i \in 1..n, NEW j \in 1..n, <<i, j>> \in R
        PROVE  Cardinality(Below(R, n, i)) < Cardinality(Below(R, n, j))
    <2>1. Below(R, n, i) \in SUBSET Below(R, n, j)
      BY <1>3 DEF Below
    <2>2. i \in Below(R, n, j) /\ i \notin Below(R, n, i)
      BY <1>3 DEF Below
    <2>3. Cardinality(Below(R, n, i)) <= Cardinality(Below(R, n, j))
          /\ (Cardinality(Below(R, n, j)) = Cardinality(Below(R, n, i))
                => Below(R, n, j) = Below(R, n, i))
      BY <1>2, <2>1, FS_Subset
    <2>4. Cardinality(Below(R, n, i)) \in Nat /\ Cardinality(Below(R, n, j)) \in Nat
      BY <1>2
    <2>5. Cardinality(Below(R, n, i)) # Cardinality(Below(R, n, j))
      BY <2>2, <2>3
    <2> QED
      BY <2>3, <2>4, <2>5
  <1>4. ASSUME NEW i \in 1..n PROVE rank[i] = Cardinality(Below(R, n, i)) + 1 /\ rank[i] \in 1..n
    <2>1. /\ Cardinality(Below(R, n, i)) \in Nat
          /\ Cardinality(Below(R, n, i)) <= n - 1
      BY <1>2
    <2> QED
      BY <2>1
  <1>5. ASSUME NEW i \in 1..n, NEW j \in 1..n, rank[i] = rank[j] PROVE i = j
    <2>1. /\ Cardinality(Below(R, n, i)) \in Nat
          /\ Cardinality(Below(R, n, j)) \in Nat
          /\ Cardinality(Below(R, n, i)) = Cardinality(Below(R, n, j))
      BY <1>2, <1>4, <1>5
    <2>2. CASE <<i, j>> \in R
      BY <1>3, <2>1, <2>2
    <2>3. CASE <<j, i>> \in R
      BY <1>3, <2>1, <2>3
    <2> QED
      BY <2>2, <2>3
  <1>6. rank \in Injection(1..n, 1..n)
    <2>1. rank \in [1..n -> 1..n]
      <3>1. rank = [i \in 1..n |-> rank[i]]
        OBVIOUS
      <3> HIDE DEF rank
      <3> QED
        BY <1>4, <3>1
    <2> HIDE DEF rank
    <2> QED
      BY <1>5, <2>1 DEF Injection, IsInjective
  <1>7. rank \in Surjection(1..n, 1..n)
    <2> HIDE DEF rank
    <2> QED
      BY <1>1, <1>6, FS_Injection
  <1> HIDE DEF rank
  <1>8. \A k \in 1..n : \E i \in 1..n : rank[i] = k
    BY <1>7 DEF Surjection
  <1> QED
    BY <1>3, <1>4, <1>5, <1>8

-----------------------------------------------------------------------------
(* Intervals.                                                              *)

\* What holds at the first of some numbers, and at each if at the one before.
LEMMA IntervalInduction ==
    ASSUME NEW S, NEW low \in Int, NEW high \in Int, low <= high => low \in S,
           \A k \in (low + 1)..high : k - 1 \in S => k \in S
    PROVE  low..high \subseteq S
  <1> DEFINE T == {n \in Nat : low + n <= high => low + n \in S}
  <1>1. 0 \in T
    OBVIOUS
  <1>2. ASSUME NEW n \in Nat, n \in T PROVE n + 1 \in T
    <2>1. SUFFICES ASSUME low + (n + 1) <= high PROVE low + (n + 1) \in S
      OBVIOUS
    <2>2. low + (n + 1) \in (low + 1)..high /\ low + (n + 1) - 1 = low + n /\ low + n <= high
      BY <2>1
    <2> QED
      BY <1>2, <2>2
  <1>3. Nat \subseteq T
    <2> HIDE DEF T
    <2> QED
      BY <1>1, <1>2, SetInduction
  <1> SUFFICES ASSUME NEW k \in low..high PROVE k \in S
    OBVIOUS
  <1>4. k - low \in Nat /\ low + (k - low) = k
    OBVIOUS
  <1> QED
    BY <1>3, <1>4

\* Some integers have a greatest and a least.
LEMMA ExtremesOf ==
    ASSUME NEW low \in Int, NEW high \in Int, low <= high, NEW f, \A k \in low..high : f[k] \in Int
    PROVE  /\ \E j \in low..high : \A k \in low..high : f[k] <= f[j]
           /\ \E j \in low..high : \A k \in low..high : f[k] >= f[j]
  <1> DEFINE S == {n \in low..high : /\ \E j \in low..n : \A k \in low..n : f[k] <= f[j]
                                     /\ \E j \in low..n : \A k \in low..n : f[k] >= f[j]}
  <1>1. low \in S
    <2>1. low..low = {low} /\ low \in low..high
      OBVIOUS
    <2> QED
      BY <2>1
  <1>2. ASSUME NEW n \in (low + 1)..high, n - 1 \in S PROVE n \in S
    <2>1. low..n = (low..(n - 1)) \cup {n} /\ n \in low..high /\ n - 1 \in low..high
      OBVIOUS
    <2>2. PICK a \in low..(n - 1) : \A k \in low..(n - 1) : f[k] <= f[a]
      BY <1>2
    <2>3. PICK b \in low..(n - 1) : \A k \in low..(n - 1) : f[k] >= f[b]
      BY <1>2
    <2>4. \A k \in low..n : f[k] \in Int
      BY <2>1
    <2>5. \E j \in low..n : \A k \in low..n : f[k] <= f[j]
      <3>1. CASE f[a] <= f[n]
        <4>1. \A k \in low..n : f[k] <= f[n]
          BY <2>1, <2>2, <2>4, <3>1
        <4> QED
          BY <2>1, <4>1
      <3>2. CASE ~(f[a] <= f[n])
        <4>1. \A k \in low..n : f[k] <= f[a]
          BY <2>1, <2>2, <2>4, <3>2
        <4> QED
          BY <2>1, <4>1
      <3> QED
        BY <3>1, <3>2
    <2>6. \E j \in low..n : \A k \in low..n : f[k] >= f[j]
      <3>1. CASE f[b] >= f[n]
        <4>1. \A k \in low..n : f[k] >= f[n]
          BY <2>1, <2>3, <2>4, <3>1
        <4> QED
          BY <2>1, <4>1
      <3>2. CASE ~(f[b] >= f[n])
        <4>1. \A k \in low..n : f[k] >= f[b]
          BY <2>1, <2>3, <2>4, <3>2
        <4> QED
          BY <2>1, <4>1
      <3> QED
        BY <3>1, <3>2
    <2> QED
      BY <2>1, <2>5, <2>6
  <1>3. low..high \subseteq S
    <2> HIDE DEF S
    <2> QED
      BY <1>1, <1>2, IntervalInduction
  <1>4. high \in S
    <2> HIDE DEF S
    <2> QED
      BY <1>3
  <1> QED
    BY <1>4
=============================================================================

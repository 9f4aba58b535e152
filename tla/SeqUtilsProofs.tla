---------------------------- MODULE SeqUtilsProofs ----------------------------
(***************************************************************************)
(* What the proofs of the other modules need of sums, subsequences and     *)
(* flattened sequences.  Instead of induction, which takes an operator as  *)
(* a parameter, the proofs look at the least counterexample.               *)
(***************************************************************************)
EXTENDS SeqUtils, SequencesExt, FiniteSetTheorems, SequenceTheorems, WellFoundedInduction, TLAPS

-----------------------------------------------------------------------------
(* Least elements *)

\* A set of naturals has a least element: what stands in for induction.
LEMMA LeastNat ==
    ASSUME NEW S \in SUBSET Nat, S # {}
    PROVE  \E n \in S : \A m \in S : n <= m
<1>1. PICK n \in S : \A m \in S : ~ (<<m, n>> \in OpToRel(<, Nat))
  BY NatLessThanWellFounded, WFMin, S # {}, S \subseteq Nat, Zenon
<1>2. \A m \in S : ~ (m < n)
  BY <1>1, S \subseteq Nat, Zenon DEF OpToRel
<1>. QED BY <1>2, S \subseteq Nat

-----------------------------------------------------------------------------
(* Sums *)

\* f is the running sum of s.
IsRunningSum(f, s) ==
    /\ f \in [0..Len(s) -> Int] /\ f[0] = 0
    /\ \A n \in 1..Len(s) : f[n] = f[n - 1] + s[n]

\* Two running functions compare as their increments do.
LEMMA Telescope ==
    ASSUME NEW n \in Nat, NEW f \in [0..n -> Int], NEW g \in [0..n -> Int], f[0] <= g[0],
           \A i \in 1..n : f[i] - f[i - 1] <= g[i] - g[i - 1]
    PROVE  \A i \in 0..n : f[i] <= g[i]
<1>. SUFFICES ASSUME NEW m \in 0..n, ~(f[m] <= g[m]) PROVE FALSE
  OBVIOUS
<1>. DEFINE Bad == {i \in 0..n : ~(f[i] <= g[i])}
<1>. HIDE DEF Bad
<1>0. m \in Bad
  BY DEF Bad
<1>1. Bad \in SUBSET Nat
  BY DEF Bad
<1>2. PICK i \in Bad : \A j \in Bad : i <= j
  BY <1>0, <1>1, LeastNat
<1>3. i \in 1..n /\ ~(f[i] <= g[i])
  BY DEF Bad
<1>4. i - 1 \in 0..n /\ ~(i - 1 \in Bad)
  BY <1>2, <1>3, <1>1
<1>5. f[i - 1] <= g[i - 1]
  BY <1>4 DEF Bad
<1>6. f[i] \in Int /\ g[i] \in Int /\ f[i - 1] \in Int /\ g[i - 1] \in Int
  BY <1>3, <1>4
<1>. QED BY <1>3, <1>5, <1>6

\* Running functions with the same increments are the same.
LEMMA SameIncrements ==
    ASSUME NEW n \in Nat, NEW f \in [0..n -> Int], NEW g \in [0..n -> Int], f[0] = g[0],
           \A i \in 1..n : f[i] - f[i - 1] = g[i] - g[i - 1]
    PROVE  f[n] = g[n]
<1>1. f[0] \in Int /\ g[0] \in Int /\ f[n] \in Int /\ g[n] \in Int /\ n \in 0..n
  OBVIOUS
<1>2. \A i \in 1..n : f[i] - f[i - 1] \in Int
  <2>. TAKE i \in 1..n
  <2>1. i \in 0..n /\ i - 1 \in 0..n
    OBVIOUS
  <2>. QED BY <2>1
<1>3. \A i \in 1..n : /\ f[i] - f[i - 1] <= g[i] - g[i - 1]
                      /\ g[i] - g[i - 1] <= f[i] - f[i - 1]
  BY <1>2
<1>4. f[n] <= g[n]
  <2>1. f[0] <= g[0]
    BY <1>1
  <2>2. \A i \in 0..n : f[i] <= g[i]
    BY <2>1, <1>3, Telescope
  <2>. QED BY <2>2, <1>1
<1>5. g[n] <= f[n]
  <2>1. g[0] <= f[0]
    BY <1>1
  <2>2. \A i \in 0..n : g[i] <= f[i]
    BY <2>1, <1>3, Telescope
  <2>. QED BY <2>2, <1>1
<1>. QED BY <1>1, <1>4, <1>5

\* Every sequence of integers has a running sum.
LEMMA RunningSumExists ==
    ASSUME NEW s \in Seq(Int)
    PROVE  \E f : IsRunningSum(f, s)
<1>. DEFINE Upto(n, f) == /\ f \in [0..n -> Int] /\ f[0] = 0
                          /\ \A i \in 1..n : f[i] = f[i - 1] + s[i]
            Bad == {n \in 0..Len(s) : ~ \E f : Upto(n, f)}
<1>. SUFFICES ASSUME Bad # {} PROVE FALSE
  <2>1. Len(s) \in 0..Len(s)
    BY LenProperties
  <2>2. Len(s) \notin Bad => \E f : Upto(Len(s), f)
    BY <2>1
  <2>3. \A f : Upto(Len(s), f) => IsRunningSum(f, s)
    BY DEF IsRunningSum
  <2>. HIDE DEF Bad, Upto
  <2>. QED BY <2>2, <2>3
<1>. HIDE DEF Bad
<1>0. Bad \in SUBSET Nat
  BY DEF Bad
<1>1. PICK n \in Bad : \A j \in Bad : n <= j
  BY <1>0, LeastNat
<1>2. n # 0
  <2>1. Upto(0, [i \in 0..0 |-> 0])
    OBVIOUS
  <2>. QED BY <2>1 DEF Bad
<1>3. n \in 1..Len(s) /\ n - 1 \in 0..Len(s)
  BY <1>2 DEF Bad
<1>9. ~(n - 1 \in Bad)
  BY <1>1, <1>3
<1>4. PICK f : Upto(n - 1, f)
  BY <1>3, <1>9 DEF Bad
<1>. DEFINE g == [i \in 0..n |-> IF i = n THEN f[n - 1] + s[n] ELSE f[i]]
<1>5. s[n] \in Int /\ f[n - 1] \in Int
  BY <1>3, <1>4
<1>6. g \in [0..n -> Int] /\ g[0] = 0
  BY <1>3, <1>4, <1>5
<1>7. ASSUME NEW i \in 1..n
      PROVE  g[i] = g[i - 1] + s[i]
  <2>1. i \in 0..n /\ i - 1 \in 0..n /\ i - 1 # n
    BY <1>3
  <2>2. CASE i = n
    BY <2>1, <2>2
  <2>3. CASE i # n
    BY <2>1, <2>3, <1>4, <1>3
  <2>. QED BY <2>2, <2>3
<1>8. Upto(n, g)
  BY <1>6, <1>7
<1>. QED BY <1>8, <1>1 DEF Bad

\* The sum is what the running sum ends with.
LEMMA SumIsLast ==
    ASSUME NEW s \in Seq(Int)
    PROVE  \E f : IsRunningSum(f, s) /\ SeqSum(s) = f[Len(s)]
<1>. DEFINE Rec(f) == f = [n \in 0..Len(s) |-> IF n = 0 THEN 0 ELSE f[n - 1] + s[n]]
            upTo == CHOOSE f : Rec(f)
<1>1. PICK f : IsRunningSum(f, s)
  BY RunningSumExists
<1>2. Rec(f)
  BY <1>1 DEF IsRunningSum
<1>3. Rec(upTo)
  BY <1>2
<1>4. SeqSum(s) = upTo[Len(s)]
  BY DEF SeqSum
<1>. HIDE DEF upTo
<1>5. upTo[0] = 0 /\ \A n \in 1..Len(s) : upTo[n] = upTo[n - 1] + s[n]
  <2>1. Len(s) \in Nat /\ 0 \in 0..Len(s) /\ \A n \in 1..Len(s) : n \in 0..Len(s) /\ n # 0
    OBVIOUS
  <2>. QED BY <1>3, <2>1
<1>6. \A n \in 0..Len(s) : upTo[n] = f[n]
  <2>. DEFINE Bad == {n \in 0..Len(s) : upTo[n] # f[n]}
  <2>. SUFFICES ASSUME Bad # {} PROVE FALSE
    OBVIOUS
  <2>. HIDE DEF Bad
  <2>1. Bad \in SUBSET Nat
    BY DEF Bad
  <2>2. PICK n \in Bad : \A j \in Bad : n <= j
    BY <2>1, LeastNat
  <2>3. n \in 1..Len(s)
    BY <1>5, <1>1 DEF Bad, IsRunningSum
  <2>4. n - 1 \in 0..Len(s) /\ ~(n - 1 \in Bad)
    BY <2>2, <2>3
  <2>5. upTo[n - 1] = f[n - 1]
    BY <2>4 DEF Bad
  <2>. QED BY <2>3, <2>5, <1>5, <1>1 DEF Bad, IsRunningSum
<1>. QED BY <1>1, <1>4, <1>6

\* A sum of integers is an integer, a sum of naturals a natural.
LEMMA SumTyped ==
    /\ \A s \in Seq(Int) : SeqSum(s) \in Int
    /\ \A s \in Seq(Nat) : SeqSum(s) \in Nat
<1>1. \A s \in Seq(Int) : SeqSum(s) \in Int
  BY SumIsLast DEF IsRunningSum
<1>2. ASSUME NEW s \in Seq(Nat)
      PROVE  SeqSum(s) \in Nat
  <2>1. s \in Seq(Int)
    OBVIOUS
  <2>2. PICK f : IsRunningSum(f, s) /\ SeqSum(s) = f[Len(s)]
    BY <2>1, SumIsLast
  <2>. DEFINE z == [i \in 0..Len(s) |-> 0]
  <2>3. f \in [0..Len(s) -> Int] /\ z \in [0..Len(s) -> Int] /\ z[0] <= f[0]
    BY <2>2 DEF IsRunningSum
  <2>4. \A i \in 1..Len(s) : z[i] - z[i - 1] <= f[i] - f[i - 1]
    <3>. TAKE i \in 1..Len(s)
    <3>1. s[i] \in Nat /\ f[i] = f[i - 1] + s[i] /\ i - 1 \in 0..Len(s) /\ i \in 0..Len(s)
      BY <2>2 DEF IsRunningSum
    <3>2. f[i - 1] \in Int
      BY <3>1, <2>3
    <3>3. z[i] = 0 /\ z[i - 1] = 0
      BY <3>1
    <3>. QED BY <3>1, <3>2, <3>3
  <2>. HIDE DEF z
  <2>5. \A i \in 0..Len(s) : z[i] <= f[i]
    <3>1. Len(s) \in Nat
      OBVIOUS
    <3>. QED BY <3>1, <2>3, <2>4, Telescope
  <2>. QED BY <2>2, <2>3, <2>5 DEF z
<1>. QED BY <1>1, <1>2

\* The sum of nothing.
LEMMA SumEmpty == SeqSum(<<>>) = 0
<1>1. <<>> \in Seq(Int)
  OBVIOUS
<1>. QED BY <1>1, SumIsLast DEF IsRunningSum

\* What a sum has been increased by.
LEMMA Difference == \A a, b \in Int : \A c : c = a + b => c - a = b
OBVIOUS

\* The order of adding three integers.
LEMMA Reassociated ==
    \A a, b, c \in Int :
        (a + b) + c = a + (b + c) /\ (a + b) + c = (a + c) + b /\ a + c \in Int
OBVIOUS

\* Two sequences with running sums f and g: their sums compare when their elements do.
LEMMA SumMonotone ==
    ASSUME NEW v \in Seq(Int), NEW w \in Seq(Int), Len(v) = Len(w),
           \A i \in 1..Len(v) : v[i] <= w[i]
    PROVE  SeqSum(v) <= SeqSum(w)
<1>1. PICK f : IsRunningSum(f, v) /\ SeqSum(v) = f[Len(v)]
  BY SumIsLast
<1>2. PICK g : IsRunningSum(g, w) /\ SeqSum(w) = g[Len(w)]
  BY SumIsLast
<1>3. f \in [0..Len(v) -> Int] /\ g \in [0..Len(v) -> Int] /\ f[0] <= g[0] /\ Len(v) \in Nat
  BY <1>1, <1>2 DEF IsRunningSum
<1>4. ASSUME NEW i \in 1..Len(v)
      PROVE  f[i] - f[i - 1] <= g[i] - g[i - 1]
  <2>1. f[i] = f[i - 1] + v[i] /\ g[i] = g[i - 1] + w[i]
    BY <1>1, <1>2 DEF IsRunningSum
  <2>2. i - 1 \in 0..Len(v) /\ v[i] \in Int /\ w[i] \in Int
    OBVIOUS
  <2>3. f[i - 1] \in Int /\ g[i - 1] \in Int
    BY <1>3, <2>2
  <2>4. f[i] - f[i - 1] = v[i]
    BY <2>1, <2>2, <2>3, Difference, Zenon
  <2>5. g[i] - g[i - 1] = w[i]
    BY <2>1, <2>2, <2>3, Difference, Zenon
  <2>. QED BY <2>4, <2>5
<1>5. \A i \in 0..Len(v) : f[i] <= g[i]
  BY <1>3, <1>4, Telescope
<1>. QED BY <1>1, <1>2, <1>3, <1>5

\* The sum of zeros.
LEMMA SumZeros ==
    ASSUME NEW v \in Seq(Int), \A k \in 1..Len(v) : v[k] = 0
    PROVE  SeqSum(v) = 0
<1>1. PICK f : IsRunningSum(f, v) /\ SeqSum(v) = f[Len(v)]
  BY SumIsLast
<1>2. PICK g : g \in [0..Len(v) -> Int] /\ \A i \in 0..Len(v) : g[i] = 0
  <2>1. [i \in 0..Len(v) |-> 0] \in [0..Len(v) -> Int]
    OBVIOUS
  <2>2. \A i \in 0..Len(v) : [j \in 0..Len(v) |-> 0][i] = 0
    OBVIOUS
  <2>. QED BY <2>1, <2>2, Zenon
<1>3. f \in [0..Len(v) -> Int] /\ Len(v) \in Nat /\ f[0] = g[0] /\ g[Len(v)] = 0
  BY <1>1, <1>2 DEF IsRunningSum
<1>4. ASSUME NEW i \in 1..Len(v)
      PROVE  f[i] - f[i - 1] = g[i] - g[i - 1]
  <2>1. i \in 0..Len(v) /\ i - 1 \in 0..Len(v) /\ v[i] = 0
    OBVIOUS
  <2>2. f[i - 1] \in Int /\ f[i] = f[i - 1] + v[i] /\ g[i] = 0 /\ g[i - 1] = 0
    BY <1>1, <1>2, <1>3, <2>1 DEF IsRunningSum
  <2>. QED BY <2>1, <2>2
<1>5. f[Len(v)] = g[Len(v)]
  BY <1>2, <1>3, <1>4, SameIncrements
<1>. QED BY <1>1, <1>3, <1>5

\* Two sequences that differ in one element: their sums differ by as much.
LEMMA SumChanged ==
    ASSUME NEW u \in Seq(Int), NEW v \in Seq(Int), Len(u) = Len(v), NEW p \in 1..Len(u),
           \A k \in 1..Len(u) : k # p => u[k] = v[k]
    PROVE  SeqSum(u) = SeqSum(v) + (u[p] - v[p])
<1>. DEFINE n == Len(u)
            d == u[p] - v[p]
<1>1. PICK f : IsRunningSum(f, u) /\ SeqSum(u) = f[n]
  BY SumIsLast
<1>2. PICK g : IsRunningSum(g, v) /\ SeqSum(v) = g[n]
  BY SumIsLast
<1>3. /\ n \in Nat /\ p \in 1..n /\ d \in Int /\ u[p] = v[p] + d
      /\ \A k \in 1..n : u[k] \in Int /\ v[k] \in Int
  OBVIOUS
<1>4. /\ f \in [0..n -> Int] /\ f[0] = 0 /\ \A i \in 1..n : f[i] = f[i - 1] + u[i]
      /\ g \in [0..n -> Int] /\ g[0] = 0 /\ \A i \in 1..n : g[i] = g[i - 1] + v[i]
  BY <1>1, <1>2 DEF IsRunningSum
<1>. HIDE DEF n, d
<1>5. PICK h : /\ h \in [0..n -> Int]
               /\ \A i \in 0..n : h[i] = IF i < p THEN g[i] ELSE g[i] + d
  <2>1. [i \in 0..n |-> IF i < p THEN g[i] ELSE g[i] + d] \in [0..n -> Int]
    <3>1. g \in [0..n -> Int] /\ d \in Int
      BY <1>3, <1>4
    <3>2. \A i \in 0..n : g[i] \in Int /\ g[i] + d \in Int
      BY <3>1
    <3>. QED BY <3>2
  <2>2. \A i \in 0..n : [j \in 0..n |-> IF j < p THEN g[j] ELSE g[j] + d][i]
                            = IF i < p THEN g[i] ELSE g[i] + d
    OBVIOUS
  <2>. QED BY <2>1, <2>2, Zenon
<1>6. h[0] = f[0] /\ h[n] = g[n] + d
  BY <1>3, <1>4, <1>5
<1>7. ASSUME NEW i \in 1..n
      PROVE  f[i] - f[i - 1] = h[i] - h[i - 1]
  <2>1. /\ i \in 0..n /\ i - 1 \in 0..n /\ u[i] \in Int /\ v[i] \in Int
        /\ i \in Int /\ p \in Int
    BY <1>3
  <2>2. f[i - 1] \in Int /\ g[i - 1] \in Int
    BY <1>4, <2>1
  <2>3. f[i] = f[i - 1] + u[i] /\ g[i] = g[i - 1] + v[i]
    BY <1>4
  <2>6. /\ h[i] = IF i < p THEN g[i] ELSE g[i] + d
        /\ h[i - 1] = IF i - 1 < p THEN g[i - 1] ELSE g[i - 1] + d
    BY <1>5, <2>1
  <2>7. d \in Int /\ u[p] = v[p] + d /\ u[p] \in Int /\ v[p] \in Int
    BY <1>3
  <2>8. f[i] - f[i - 1] = u[i]
    BY <2>1, <2>2, <2>3, Difference, Zenon
  <2>4. CASE i = p
    <3>1. ~(i < p) /\ i - 1 < p /\ u[i] = v[i] + d
      BY <2>1, <2>4, <2>7
    <3>2. h[i] = g[i] + d /\ h[i - 1] = g[i - 1]
      BY <2>6, <3>1
    <3>3. h[i] = (g[i - 1] + v[i]) + d
      BY <2>3, <3>2, Zenon
    <3>4. h[i] = g[i - 1] + (v[i] + d)
      <4>1. g[i - 1] \in Int /\ v[i] \in Int /\ d \in Int
        BY <2>1, <2>2, <2>7
      <4>2. (g[i - 1] + v[i]) + d = g[i - 1] + (v[i] + d)
        BY <4>1, Reassociated
      <4>. QED BY <3>3, <4>2, Zenon
    <3>5. h[i] - h[i - 1] = v[i] + d
      <4>1. v[i] + d \in Int /\ h[i] = h[i - 1] + (v[i] + d)
        BY <2>1, <2>7, <3>2, <3>4, Reassociated, Zenon
      <4>. QED BY <2>2, <3>2, <4>1, Difference, Zenon
    <3>. QED BY <2>8, <3>1, <3>5
  <2>5. CASE i # p
    <3>1. u[i] = v[i]
      BY <2>5 DEF n
    <3>2. i < p <=> i - 1 < p
      BY <2>1, <2>5
    <3>3. CASE i < p
      <4>1. h[i] = g[i] /\ h[i - 1] = g[i - 1]
        BY <2>6, <3>2, <3>3
      <4>2. h[i] - h[i - 1] = v[i]
        <5>1. h[i] = h[i - 1] + v[i] /\ h[i - 1] \in Int /\ v[i] \in Int
          BY <2>1, <2>2, <2>3, <4>1, Zenon
        <5>. QED BY <5>1, Difference, Zenon
      <4>. QED BY <2>8, <3>1, <4>2
    <3>4. CASE ~(i < p)
      <4>1. h[i] = g[i] + d /\ h[i - 1] = g[i - 1] + d
        BY <2>6, <3>2, <3>4
      <4>2. d \in Int
        BY <2>7
      <4>3. h[i] = (g[i - 1] + v[i]) + d
        BY <2>3, <4>1
      <4>4. (g[i - 1] + v[i]) + d = (g[i - 1] + d) + v[i] /\ g[i - 1] + d \in Int
        <5>1. g[i - 1] \in Int /\ v[i] \in Int /\ d \in Int
          BY <2>1, <2>2, <4>2
        <5>2. (g[i - 1] + v[i]) + d = (g[i - 1] + d) + v[i]
          BY <5>1, Reassociated
        <5>3. g[i - 1] + d \in Int
          BY <5>1, Reassociated
        <5>. QED BY <5>2, <5>3
      <4>5. h[i] = h[i - 1] + v[i] /\ h[i - 1] \in Int
        BY <4>1, <4>3, <4>4, Zenon
      <4>6. h[i] - h[i - 1] = v[i]
        BY <2>1, <4>5, Difference, Zenon
      <4>. QED BY <2>8, <3>1, <4>6
    <3>. QED BY <3>3, <3>4
  <2>. QED BY <2>4, <2>5
<1>8. f[n] = h[n]
  BY <1>3, <1>4, <1>5, <1>6, <1>7, SameIncrements
<1>. QED BY <1>1, <1>2, <1>6, <1>8 DEF n, d

\* The sum of a concatenation.
LEMMA SumConcat ==
    ASSUME NEW v \in Seq(Int), NEW w \in Seq(Int)
    PROVE  SeqSum(v \o w) = SeqSum(v) + SeqSum(w)
<1>. DEFINE u == v \o w
            m == Len(v)
            n == Len(v) + Len(w)
<1>0. u \in Seq(Int) /\ Len(u) = n /\ m \in Nat /\ n \in Nat /\ m <= n /\ Len(w) = n - m
  OBVIOUS
<1>1. PICK f : IsRunningSum(f, u) /\ SeqSum(u) = f[n]
  BY <1>0, SumIsLast
<1>2. PICK g : IsRunningSum(g, v) /\ SeqSum(v) = g[m]
  BY SumIsLast
<1>3. PICK h : IsRunningSum(h, w) /\ SeqSum(w) = h[n - m]
  BY <1>0, SumIsLast
<1>. DEFINE gh == [i \in 0..n |-> IF i <= m THEN g[i] ELSE g[m] + h[i - m]]
<1>4. f \in [0..n -> Int] /\ g \in [0..m -> Int] /\ h \in [0..(n - m) -> Int]
  BY <1>0, <1>1, <1>2, <1>3 DEF IsRunningSum
<1>5. \A i \in 1..n : u[i] = IF i <= m THEN v[i] ELSE w[i - m]
  BY <1>0
<1>. HIDE DEF u, m, n
<1>6. f[0] = 0 /\ g[0] = 0 /\ h[0] = 0
  BY <1>1, <1>2, <1>3 DEF IsRunningSum
<1>7. gh \in [0..n -> Int]
  <2>. SUFFICES ASSUME NEW i \in 0..n
                PROVE  (IF i <= m THEN g[i] ELSE g[m] + h[i - m]) \in Int
    OBVIOUS
  <2>1. CASE i <= m
    <3>1. i \in 0..m
      BY <2>1, <1>0
    <3>. QED BY <3>1, <2>1, <1>4
  <2>2. CASE ~(i <= m)
    <3>1. i - m \in 0..(n - m) /\ m \in 0..m
      BY <2>2, <1>0
    <3>2. h[i - m] \in Int /\ g[m] \in Int
      BY <3>1, <1>4
    <3>. QED BY <3>2, <2>2
  <2>. QED BY <2>1, <2>2
<1>8. gh[0] = 0
  BY <1>0, <1>6
<1>9. gh[n] = g[m] + h[n - m]
  <2>1. CASE n = m
    BY <2>1, <1>0, <1>6, <1>4
  <2>2. CASE n # m
    BY <2>2, <1>0
  <2>. QED BY <2>1, <2>2
<1>10. ASSUME NEW i \in 1..n
       PROVE  f[i] - f[i - 1] = gh[i] - gh[i - 1]
  <2>1. f[i] = f[i - 1] + u[i] /\ i \in 0..n /\ i - 1 \in 0..n
    BY <1>0, <1>1 DEF IsRunningSum
  <2>2. f[i - 1] \in Int
    BY <2>1, <1>4
  <2>3. CASE i <= m
    <3>1. i \in 1..m /\ i - 1 \in 0..m /\ i - 1 <= m
      BY <2>3, <1>0
    <3>4. g[i] = g[i - 1] + v[i]
      BY <3>1, <1>2 DEF IsRunningSum, m
    <3>5. v[i] \in Int
      BY <3>1 DEF m
    <3>2. g[i] = g[i - 1] + v[i] /\ v[i] \in Int /\ g[i - 1] \in Int
      BY <3>1, <3>4, <3>5, <1>4
    <3>3. gh[i] = g[i] /\ gh[i - 1] = g[i - 1]
      BY <3>1, <2>1, <2>3
    <3>. HIDE DEF gh
    <3>. QED BY <3>2, <3>3, <2>1, <2>2, <2>3, <1>5
  <2>4. CASE ~(i <= m)
    <3>1. i - m \in 1..(n - m) /\ (i - m) - 1 \in 0..(n - m) /\ (i - 1) - m = (i - m) - 1 /\ m \in 0..m
      BY <2>4, <1>0
    <3>2. h[i - m] = h[(i - m) - 1] + w[i - m]
      BY <3>1, <1>3, <1>0 DEF IsRunningSum
    <3>6. w[i - m] \in Int
      BY <3>1, <1>0
    <3>3. w[i - m] \in Int /\ h[(i - m) - 1] \in Int /\ g[m] \in Int
      BY <3>1, <3>6, <1>4
    <3>4. gh[i] = g[m] + h[i - m]
      BY <2>1, <2>4
    <3>5. gh[i - 1] = g[m] + h[(i - m) - 1]
      <4>1. CASE i - 1 <= m
        <5>1. i - 1 = m /\ (i - m) - 1 = 0
          BY <4>1, <2>4, <1>0
        <5>. QED BY <5>1, <1>6, <3>3, <2>1, <4>1
      <4>2. CASE ~(i - 1 <= m)
        BY <4>2, <2>1, <3>1
      <4>. QED BY <4>1, <4>2
    <3>. HIDE DEF gh
    <3>. QED BY <3>2, <3>3, <3>4, <3>5, <2>1, <2>2, <2>4, <1>5
  <2>. QED BY <2>3, <2>4
<1>. HIDE DEF gh
<1>14. f[n] = gh[n]
  <2>1. n \in Nat /\ f[0] = gh[0]
    BY <1>0, <1>6, <1>8
  <2>. QED BY <2>1, <1>4, <1>7, <1>10, SameIncrements
<1>. QED BY <1>1, <1>2, <1>3, <1>9, <1>14 DEF u, m

\* The same of a sequence that is the concatenation of two others, element by element.
LEMMA SumJoined ==
    ASSUME NEW u \in Seq(Int), NEW v \in Seq(Int), NEW w \in Seq(Int), Len(u) = Len(v) + Len(w),
           \A i \in 1..Len(v) : u[i] = v[i], \A i \in 1..Len(w) : u[Len(v) + i] = w[i]
    PROVE  SeqSum(u) = SeqSum(v) + SeqSum(w)
<1>1. /\ v \o w \in Seq(Int) /\ Len(v \o w) = Len(v) + Len(w) /\ Len(v) \in Nat /\ Len(w) \in Nat
      /\ \A i \in 1..Len(v) + Len(w) : (v \o w)[i] = IF i <= Len(v) THEN v[i] ELSE w[i - Len(v)]
  BY ConcatProperties
<1>2. ASSUME NEW i \in 1..Len(u)
      PROVE  u[i] = (v \o w)[i]
  <2>1. CASE i <= Len(v)
    BY <2>1, <1>1
  <2>2. CASE ~(i <= Len(v))
    <3>1. i - Len(v) \in 1..Len(w) /\ Len(v) + (i - Len(v)) = i
      BY <2>2, <1>1
    <3>2. u[i] = w[i - Len(v)]
      BY <3>1
    <3>. QED BY <3>2, <2>2, <1>1
  <2>. QED BY <2>1, <2>2
<1>3. u = v \o w
  BY <1>1, <1>2, SeqEqual
<1>. QED BY <1>3, SumConcat

\* A sum is the sum of the two parts of the sequence.
LEMMA SumSplit ==
    ASSUME NEW s \in Seq(Int), NEW k \in 0..Len(s)
    PROVE  SeqSum(s) = SeqSum(SubSeq(s, 1, k)) + SeqSum(SubSeq(s, k + 1, Len(s)))
<1>1. SubSeq(s, 1, k) \in Seq(Int) /\ SubSeq(s, k + 1, Len(s)) \in Seq(Int)
  OBVIOUS
<1>2. SubSeq(s, 1, k) \o SubSeq(s, k + 1, Len(s)) = SubSeq(s, 1, Len(s))
  <2>1. 1 \in 1..Len(s) + 1 /\ k \in 1 - 1..Len(s) /\ Len(s) \in k..Len(s)
    OBVIOUS
  <2>. QED BY <2>1, ConcatAdjacentSubSeq
<1>3. SubSeq(s, 1, Len(s)) = s
  BY SubSeqFull
<1>4. SeqSum(SubSeq(s, 1, k) \o SubSeq(s, k + 1, Len(s)))
        = SeqSum(SubSeq(s, 1, k)) + SeqSum(SubSeq(s, k + 1, Len(s)))
  BY <1>1, SumConcat
<1>. QED BY <1>2, <1>3, <1>4, Zenon

\* The sum of one element.
LEMMA SumOne ==
    ASSUME NEW x \in Int
    PROVE  SeqSum(<<x>>) = x
<1>1. <<x>> \in Seq(Int) /\ Len(<<x>>) = 1
  OBVIOUS
<1>2. PICK f : IsRunningSum(f, <<x>>) /\ SeqSum(<<x>>) = f[1]
  BY <1>1, SumIsLast
<1>3. f[0] = 0 /\ f[1] = f[1 - 1] + <<x>>[1]
  BY <1>1, <1>2 DEF IsRunningSum
<1>. QED BY <1>2, <1>3

\* A sum of naturals is no less than any of them.
LEMMA SumAtLeast ==
    ASSUME NEW s \in Seq(Nat), NEW i \in 1..Len(s)
    PROVE  s[i] <= SeqSum(s)
<1>1. s \in Seq(Int) /\ i - 1 \in 0..Len(s)
  OBVIOUS
<1>. DEFINE front == SubSeq(s, 1, i - 1)
            back == SubSeq(s, i, Len(s))
            rest == SubSeq(back, 2, Len(back))
<1>2. SeqSum(s) = SeqSum(front) + SeqSum(back)
  <2>1. (i - 1) + 1 = i
    OBVIOUS
  <2>. QED BY <1>1, <2>1, SumSplit
<1>3. back \in Seq(Nat) /\ front \in Seq(Nat) /\ Len(back) = Len(s) - i + 1 /\ back[1] = s[i]
  BY SubSeqProperties
<1>4. back \in Seq(Int) /\ 1 \in 0..Len(back)
  BY <1>3
<1>. HIDE DEF front, back
<1>5. SubSeq(back, 1, 1) = <<s[i]>> /\ s[i] \in Nat
  <2>0. s[i] \in Nat
    BY ElementOfSeq
  <2>1. s[i] \in Nat /\ 1 \in 1..Len(back) /\ 1 \in 1..1
    BY <2>0, <1>4
  <2>2. Head(SubSeq(back, 1, 1)) = back[1] /\ Tail(SubSeq(back, 1, 1)) = SubSeq(back, 2, 1)
    BY <2>1, <1>3, HeadTailOfSubSeq
  <2>3. SubSeq(back, 1, 1) = <<back[1]>> \o SubSeq(back, 2, 1)
    BY <2>1, <1>3, SubSeqRecursiveFirst
  <2>4. SubSeq(back, 2, 1) = <<>>
    BY SubSeqEmpty
  <2>5. <<s[i]>> \o <<>> = <<s[i]>>
    BY <2>1
  <2>. QED BY <2>1, <2>3, <2>4, <2>5, <1>3
<1>6. SeqSum(back) = SeqSum(SubSeq(back, 1, 1)) + SeqSum(rest)
  BY <1>4, SumSplit
<1>7. SeqSum(<<s[i]>>) = s[i]
  BY <1>5, SumOne
<1>8. rest \in Seq(Nat)
  <2>1. ASSUME NEW j \in 2..Len(back)
        PROVE  back[j] \in Nat
    <3>1. back \in Seq(Nat)
      BY <1>3
    <3>2. j \in 1..Len(back)
      OBVIOUS
    <3>. QED BY <3>1, <3>2, ElementOfSeq
  <2>2. 2 \in Int /\ Len(back) \in Int
    BY <1>3
  <2>. QED BY <2>1, <2>2, SubSeqProperties
<1>. HIDE DEF rest
<1>9. SeqSum(front) \in Nat /\ SeqSum(rest) \in Nat
  BY <1>3, <1>8, SumTyped
<1>10. SeqSum(s) = SeqSum(front) + (s[i] + SeqSum(rest))
  BY <1>2, <1>5, <1>6, <1>7
<1>. QED BY <1>5, <1>9, <1>10

-----------------------------------------------------------------------------
(* The elements of a sequence *)

\* The elements of a sequence over S are in S, and are its values at its positions.
LEMMA ElementsOf ==
    ASSUME NEW S, NEW s \in Seq(S)
    PROVE  /\ ToSet(s) \subseteq S /\ ToSet(s) = {s[i] : i \in 1..Len(s)}
           /\ ToSet(s) = {} <=> s = <<>>
<1>1. DOMAIN s = 1..Len(s) /\ \A i \in 1..Len(s) : s[i] \in S
  BY ElementOfSeq
<1>2. Len(s) \in Nat /\ (s # <<>> => Len(s) # 0)
  BY EmptySeq
<1>3. s = <<>> => ToSet(s) = {}
  BY DEF ToSet
<1>4. s # <<>> => s[1] \in ToSet(s)
  BY <1>1, <1>2 DEF ToSet
<1>. QED BY <1>1, <1>3, <1>4 DEF ToSet

\* The elements of a concatenation.
LEMMA ToSetConcat ==
    ASSUME NEW S, NEW s \in Seq(S), NEW t \in Seq(S)
    PROVE  ToSet(s \o t) = ToSet(s) \cup ToSet(t)
<1>1. s \o t \in Seq(S) /\ Len(s \o t) = Len(s) + Len(t) /\ Len(s) \in Nat /\ Len(t) \in Nat
  OBVIOUS
<1>2. \A i \in 1..Len(s) + Len(t) : (s \o t)[i] = IF i <= Len(s) THEN s[i] ELSE t[i - Len(s)]
  BY ConcatProperties
<1>3. /\ DOMAIN s = 1..Len(s) /\ DOMAIN t = 1..Len(t) /\ DOMAIN (s \o t) = 1..Len(s) + Len(t)
  BY <1>1
<1>4. ASSUME NEW x \in ToSet(s \o t)
      PROVE  x \in ToSet(s) \cup ToSet(t)
  <2>1. PICK i \in 1..Len(s) + Len(t) : x = (s \o t)[i]
    BY <1>3 DEF ToSet
  <2>2. CASE i <= Len(s)
    BY <2>1, <2>2, <1>1, <1>2, <1>3 DEF ToSet
  <2>3. CASE ~(i <= Len(s))
    <3>1. i - Len(s) \in 1..Len(t)
      BY <2>3, <1>1
    <3>2. x = t[i - Len(s)]
      BY <2>1, <2>3, <1>2
    <3>. QED BY <3>1, <3>2, <1>3 DEF ToSet
  <2>. QED BY <2>2, <2>3
<1>5. ASSUME NEW x \in ToSet(s)
      PROVE  x \in ToSet(s \o t)
  <2>1. PICK i \in 1..Len(s) : x = s[i]
    BY <1>3 DEF ToSet
  <2>2. i \in 1..Len(s) + Len(t) /\ i <= Len(s)
    BY <1>1
  <2>. QED BY <2>1, <2>2, <1>2, <1>3 DEF ToSet
<1>6. ASSUME NEW x \in ToSet(t)
      PROVE  x \in ToSet(s \o t)
  <2>1. PICK i \in 1..Len(t) : x = t[i]
    BY <1>3 DEF ToSet
  <2>2. i + Len(s) \in 1..Len(s) + Len(t) /\ ~(i + Len(s) <= Len(s)) /\ i + Len(s) - Len(s) = i
    BY <1>1
  <2>3. (s \o t)[i + Len(s)] = t[i]
    BY <2>2, <1>2
  <2>. QED BY <2>1, <2>2, <2>3, <1>3 DEF ToSet
<1>. QED BY <1>4, <1>5, <1>6

\* Nothing is repeated in a concatenation when nothing is in either part or in both.
LEMMA InjectiveConcat ==
    ASSUME NEW S, NEW s \in Seq(S), NEW t \in Seq(S), IsInjective(s), IsInjective(t),
           ToSet(s) \cap ToSet(t) = {}
    PROVE  IsInjective(s \o t)
<1>1. Len(s \o t) = Len(s) + Len(t) /\ Len(s) \in Nat /\ Len(t) \in Nat
  OBVIOUS
<1>2. \A i \in 1..Len(s) + Len(t) : (s \o t)[i] = IF i <= Len(s) THEN s[i] ELSE t[i - Len(s)]
  BY ConcatProperties
<1>3. /\ DOMAIN s = 1..Len(s) /\ DOMAIN t = 1..Len(t) /\ DOMAIN (s \o t) = 1..Len(s) + Len(t)
  BY <1>1
<1>. SUFFICES ASSUME NEW i \in 1..Len(s) + Len(t), NEW j \in 1..Len(s) + Len(t),
                     (s \o t)[i] = (s \o t)[j]
              PROVE  i = j
  BY <1>3 DEF IsInjective
<1>4. CASE i <= Len(s) /\ j <= Len(s)
  BY <1>1, <1>2, <1>3, <1>4 DEF IsInjective
<1>5. CASE ~(i <= Len(s)) /\ ~(j <= Len(s))
  <2>1. i - Len(s) \in 1..Len(t) /\ j - Len(s) \in 1..Len(t)
    BY <1>5, <1>1
  <2>2. t[i - Len(s)] = t[j - Len(s)]
    BY <1>5, <1>2
  <2>3. i - Len(s) = j - Len(s)
    BY <2>1, <2>2, <1>3 DEF IsInjective
  <2>. QED BY <2>3, <1>1
<1>6. CASE i <= Len(s) /\ ~(j <= Len(s))
  <2>1. j - Len(s) \in 1..Len(t) /\ i \in 1..Len(s)
    BY <1>6, <1>1
  <2>2. s[i] = t[j - Len(s)]
    BY <1>6, <1>2
  <2>. QED BY <2>1, <2>2, <1>3 DEF ToSet
<1>7. CASE ~(i <= Len(s)) /\ j <= Len(s)
  <2>1. i - Len(s) \in 1..Len(t) /\ j \in 1..Len(s)
    BY <1>7, <1>1
  <2>2. s[j] = t[i - Len(s)]
    BY <1>7, <1>2
  <2>. QED BY <2>1, <2>2, <1>3 DEF ToSet
<1>. QED BY <1>4, <1>5, <1>6, <1>7

\* One element more.
LEMMA AppendFacts ==
    ASSUME NEW S, NEW s \in Seq(S), NEW x \in S
    PROVE  /\ ToSet(Append(s, x)) = ToSet(s) \cup {x}
           /\ IsInjective(s) /\ x \notin ToSet(s) => IsInjective(Append(s, x))
<1>0. <<x>> \in Seq(S)
  OBVIOUS
<1>1. Append(s, x) = s \o <<x>> /\ <<x>> \in Seq(S)
  BY <1>0, AppendIsConcat
<1>2. ToSet(<<x>>) = {x} /\ IsInjective(<<x>>)
  BY DEF ToSet, IsInjective
<1>3. ToSet(s \o <<x>>) = ToSet(s) \cup {x}
  <2>1. ToSet(s \o <<x>>) = ToSet(s) \cup ToSet(<<x>>)
    BY <1>0, ToSetConcat
  <2>. QED BY <1>2, <2>1, Zenon
<1>4. IsInjective(s) /\ x \notin ToSet(s) => IsInjective(s \o <<x>>)
  <2>. HAVE IsInjective(s) /\ x \notin ToSet(s)
  <2>1. ToSet(s) \cap ToSet(<<x>>) = {}
    BY <1>2
  <2>. QED BY <1>1, <1>2, <2>1, InjectiveConcat
<1>. QED BY <1>1, <1>3, <1>4, Zenon

\* The first element and the others.
LEMMA HeadTailFacts ==
    ASSUME NEW S, NEW s \in Seq(S), s # <<>>, IsInjective(s)
    PROVE  /\ Head(s) \in ToSet(s) /\ Tail(s) \in Seq(S) /\ IsInjective(Tail(s))
           /\ ToSet(Tail(s)) = ToSet(s) \ {Head(s)}
<1>1. /\ Tail(s) \in Seq(S) /\ Len(Tail(s)) = Len(s) - 1 /\ Len(s) \in Nat /\ Len(s) >= 1
      /\ \A i \in 1..Len(Tail(s)) : Tail(s)[i] = s[i + 1]
  BY HeadTailProperties, EmptySeq
<1>2. DOMAIN s = 1..Len(s) /\ DOMAIN Tail(s) = 1..Len(s) - 1 /\ Head(s) = s[1]
  BY <1>1
<1>3. Head(s) \in ToSet(s)
  BY <1>1, <1>2 DEF ToSet
<1>4. IsInjective(Tail(s))
  <2>. SUFFICES ASSUME NEW i \in 1..Len(s) - 1, NEW j \in 1..Len(s) - 1, Tail(s)[i] = Tail(s)[j]
                PROVE  i = j
    BY <1>2 DEF IsInjective
  <2>1. i + 1 \in 1..Len(s) /\ j + 1 \in 1..Len(s) /\ s[i + 1] = s[j + 1]
    BY <1>1
  <2>2. i + 1 = j + 1
    BY <2>1, <1>2 DEF IsInjective
  <2>. QED BY <2>2, <1>1
<1>5. ASSUME NEW x \in ToSet(Tail(s))
      PROVE  x \in ToSet(s) \ {Head(s)}
  <2>1. PICK i \in 1..Len(s) - 1 : x = Tail(s)[i]
    BY <1>2 DEF ToSet
  <2>2. x = s[i + 1] /\ i + 1 \in 1..Len(s) /\ 1 \in 1..Len(s) /\ i + 1 # 1
    BY <2>1, <1>1
  <2>. QED BY <2>2, <1>2 DEF ToSet, IsInjective
<1>6. ASSUME NEW x \in ToSet(s) \ {Head(s)}
      PROVE  x \in ToSet(Tail(s))
  <2>1. PICK i \in 1..Len(s) : x = s[i]
    BY <1>2 DEF ToSet
  <2>2. i - 1 \in 1..Len(s) - 1 /\ (i - 1) + 1 = i
    BY <2>1, <1>1, <1>2
  <2>3. x = Tail(s)[i - 1]
    BY <2>1, <2>2, <1>1
  <2>. QED BY <2>2, <2>3, <1>2 DEF ToSet
<1>. QED BY <1>1, <1>3, <1>4, <1>5, <1>6

-----------------------------------------------------------------------------
(* Suffixes *)

\* What is left of a sequence after k elements.
After(s, k) == SubSeq(s, k + 1, Len(s))

\* A suffix of a sequence is one; what follows a cut is a suffix.
LEMMA AfterFacts ==
    ASSUME NEW S, NEW s \in Seq(S), NEW k \in 0..Len(s)
    PROVE  /\ After(s, k) \in Seq(S) /\ Len(After(s, k)) = Len(s) - k
           /\ \A i \in 1..Len(s) - k : After(s, k)[i] = s[k + i]
           /\ SubSeq(s, 1, k) \in Seq(S) /\ Len(SubSeq(s, 1, k)) = k
           /\ SubSeq(s, 1, k) \o After(s, k) = s
<1>1. \A i \in k + 1..Len(s) : s[i] \in S
  BY ElementOfSeq
<1>2. k \in Nat /\ Len(s) \in Nat /\ k <= Len(s) /\ k + 1 \in Int /\ Len(s) \in Int
  OBVIOUS
<1>3. /\ After(s, k) \in Seq(S)
      /\ Len(After(s, k)) = IF k + 1 <= Len(s) THEN Len(s) - (k + 1) + 1 ELSE 0
      /\ \A i \in 1..Len(s) - (k + 1) + 1 : After(s, k)[i] = s[(k + 1) + i - 1]
  BY <1>1, <1>2, SubSeqProperties DEF After
<1>4. Len(After(s, k)) = Len(s) - k /\ Len(s) - (k + 1) + 1 = Len(s) - k
  BY <1>2, <1>3
<1>5. \A i \in 1..Len(s) - k : After(s, k)[i] = s[k + i]
  <2>. TAKE i \in 1..Len(s) - k
  <2>1. (k + 1) + i - 1 = k + i
    BY <1>2
  <2>. QED BY <2>1, <1>3, <1>4
<1>6. SubSeq(s, 1, k) \in Seq(S) /\ Len(SubSeq(s, 1, k)) = k
  OBVIOUS
<1>7. SubSeq(s, 1, k) \o SubSeq(s, k + 1, Len(s)) = SubSeq(s, 1, Len(s))
  <2>1. 1 \in 1..Len(s) + 1 /\ k \in 1 - 1..Len(s) /\ Len(s) \in k..Len(s)
    OBVIOUS
  <2>. QED BY <2>1, ConcatAdjacentSubSeq
<1>8. SubSeq(s, 1, Len(s)) = s
  BY SubSeqFull
<1>. QED BY <1>3, <1>4, <1>5, <1>6, <1>7, <1>8, Zenon DEF After

\* A suffix grows with its sequence.
LEMMA AfterConcat ==
    ASSUME NEW S, NEW s \in Seq(S), NEW t \in Seq(S), NEW k \in 0..Len(s)
    PROVE  After(s \o t, k) = After(s, k) \o t
<1>1. /\ s \o t \in Seq(S) /\ Len(s \o t) = Len(s) + Len(t) /\ k \in 0..Len(s \o t)
      /\ Len(s) \in Nat /\ Len(t) \in Nat /\ k \in Nat /\ k <= Len(s)
  OBVIOUS
<1>2. /\ After(s \o t, k) \in Seq(S) /\ Len(After(s \o t, k)) = Len(s) + Len(t) - k
      /\ \A i \in 1..Len(s) + Len(t) - k : After(s \o t, k)[i] = (s \o t)[k + i]
  <2>. DEFINE u == s \o t
  <2>1. u \in Seq(S) /\ k \in 0..Len(u) /\ Len(u) = Len(s) + Len(t)
    BY <1>1
  <2>. HIDE DEF u
  <2>2. /\ After(u, k) \in Seq(S) /\ Len(After(u, k)) = Len(u) - k
        /\ \A i \in 1..Len(u) - k : After(u, k)[i] = u[k + i]
    BY <2>1, AfterFacts
  <2>. QED BY <2>1, <2>2 DEF u
<1>3. /\ After(s, k) \in Seq(S) /\ Len(After(s, k)) = Len(s) - k
      /\ \A i \in 1..Len(s) - k : After(s, k)[i] = s[k + i]
  BY AfterFacts
<1>4. /\ After(s, k) \o t \in Seq(S) /\ Len(After(s, k) \o t) = (Len(s) - k) + Len(t)
      /\ \A i \in 1..(Len(s) - k) + Len(t) :
            (After(s, k) \o t)[i] = IF i <= Len(s) - k THEN After(s, k)[i] ELSE t[i - (Len(s) - k)]
  <2>. DEFINE u == After(s, k)
  <2>1. u \in Seq(S) /\ Len(u) = Len(s) - k
    BY <1>3
  <2>. HIDE DEF u
  <2>2. /\ u \o t \in Seq(S) /\ Len(u \o t) = Len(u) + Len(t)
        /\ \A i \in 1..Len(u) + Len(t) : (u \o t)[i] = IF i <= Len(u) THEN u[i] ELSE t[i - Len(u)]
    BY <2>1, ConcatProperties
  <2>. QED BY <2>1, <2>2 DEF u
<1>5. \A i \in 1..Len(s) + Len(t) : (s \o t)[i] = IF i <= Len(s) THEN s[i] ELSE t[i - Len(s)]
  BY ConcatProperties
<1>6. ASSUME NEW i \in 1..Len(s) + Len(t) - k
      PROVE  After(s \o t, k)[i] = (After(s, k) \o t)[i]
  <2>1. /\ k + i \in 1..Len(s) + Len(t) /\ i \in 1..(Len(s) - k) + Len(t)
        /\ (k + i <= Len(s) <=> i <= Len(s) - k) /\ (k + i) - Len(s) = i - (Len(s) - k)
    BY <1>1
  <2>2. After(s \o t, k)[i] = IF i <= Len(s) - k THEN s[k + i] ELSE t[i - (Len(s) - k)]
    BY <2>1, <1>2, <1>5
  <2>3. i <= Len(s) - k => After(s, k)[i] = s[k + i]
    BY <2>1, <1>3
  <2>. QED BY <2>1, <2>2, <2>3, <1>4
<1>7. Len(s) + Len(t) - k = (Len(s) - k) + Len(t)
  BY <1>1
<1>. QED BY <1>2, <1>4, <1>6, <1>7, SeqEqual

\* w is t, then u.
Joins(w, t, u) == w = t \o u

\* Dropping the head of a suffix leaves a suffix.
LEMMA AfterAfter ==
    ASSUME NEW S, NEW s \in Seq(S), NEW k \in 0..Len(s), NEW t \in Seq(S), NEW u \in Seq(S),
           Joins(After(s, k), t, u)
    PROVE  k + Len(t) \in 0..Len(s) /\ After(s, k + Len(t)) = u
<1>1. /\ Len(After(s, k)) = Len(s) - k
      /\ \A i \in 1..Len(s) - k : After(s, k)[i] = s[k + i]
  BY AfterFacts
<1>2. Len(t \o u) = Len(t) + Len(u) /\ Len(t) \in Nat /\ Len(u) \in Nat /\ Len(s) \in Nat /\ k \in Nat
  OBVIOUS
<1>3. Len(s) - k = Len(t) + Len(u) /\ After(s, k) = t \o u
  BY <1>1, <1>2 DEF Joins
<1>4. k + Len(t) \in 0..Len(s) /\ Len(s) - (k + Len(t)) = Len(u)
  BY <1>2, <1>3
<1>5. /\ After(s, k + Len(t)) \in Seq(S) /\ Len(After(s, k + Len(t))) = Len(u)
      /\ \A i \in 1..Len(u) : After(s, k + Len(t))[i] = s[(k + Len(t)) + i]
  <2>. DEFINE m == k + Len(t)
  <2>1. m \in 0..Len(s) /\ Len(s) - m = Len(u)
    BY <1>4
  <2>. HIDE DEF m
  <2>2. /\ After(s, m) \in Seq(S) /\ Len(After(s, m)) = Len(s) - m
        /\ \A i \in 1..Len(s) - m : After(s, m)[i] = s[m + i]
    BY <2>1, AfterFacts
  <2>. QED BY <2>1, <2>2 DEF m
<1>6. ASSUME NEW i \in 1..Len(u)
      PROVE  After(s, k + Len(t))[i] = u[i]
  <2>1. /\ Len(t) + i \in 1..Len(s) - k /\ k + (Len(t) + i) = (k + Len(t)) + i
        /\ ~(Len(t) + i <= Len(t)) /\ (Len(t) + i) - Len(t) = i
        /\ Len(t) + i \in 1..Len(t) + Len(u)
    BY <1>2, <1>3
  <2>2. After(s, k)[Len(t) + i] = u[i]
    BY <2>1, <1>3, ConcatProperties
  <2>3. After(s, k)[Len(t) + i] = s[(k + Len(t)) + i]
    BY <2>1, <1>1
  <2>. QED BY <2>2, <2>3, <1>5
<1>. QED BY <1>4, <1>5, <1>6, SeqEqual

-----------------------------------------------------------------------------
(* Positions and subsequences *)

\* How many of the positions I are no later than i.
Rank(I, i) == Cardinality({j \in I : j <= i})

\* Ranks number the positions from 1, in order.
LEMMA RankFacts ==
    ASSUME NEW n \in Nat, NEW I \in SUBSET (1..n)
    PROVE  /\ IsFiniteSet(I) /\ Cardinality(I) \in Nat
           /\ \A i \in I : Rank(I, i) \in 1..Cardinality(I)
           /\ \A i, j \in I : Rank(I, i) = Rank(I, j) => i = j
           /\ \A k \in 1..Cardinality(I) : \E i \in I : Rank(I, i) = k
<1>1. IsFiniteSet(I) /\ Cardinality(I) \in Nat
  <2>1. IsFiniteSet(1..n)
    BY FS_Interval
  <2>. QED BY <2>1, FS_Subset, FS_CardinalityType
<1>2. ASSUME NEW i \in I
      PROVE  /\ IsFiniteSet({j \in I : j <= i}) /\ Rank(I, i) \in 1..Cardinality(I)
             /\ Rank(I, i) \in Nat
  <2>1. {j \in I : j <= i} \in SUBSET I /\ i \in {j \in I : j <= i}
    OBVIOUS
  <2>2. /\ IsFiniteSet({j \in I : j <= i})
        /\ Cardinality({j \in I : j <= i}) <= Cardinality(I)
    BY <1>1, <2>1, FS_Subset
  <2>3. Cardinality({j \in I : j <= i}) \in Nat /\ Cardinality({j \in I : j <= i}) # 0
    BY <2>1, <2>2, FS_CardinalityType, FS_EmptySet
  <2>. QED BY <1>1, <2>2, <2>3 DEF Rank
<1>3. ASSUME NEW i \in I, NEW j \in I, i < j
      PROVE  Rank(I, i) # Rank(I, j)
  <2>1. {k \in I : k <= i} \in SUBSET {k \in I : k <= j}
    <3>1. I \subseteq Int
      OBVIOUS
    <3>2. \A k \in I : k <= i => k <= j
      BY <3>1, <1>3
    <3>. QED BY <3>2
  <2>2. j \in {k \in I : k <= j} /\ j \notin {k \in I : k <= i}
    BY <1>3
  <2>3. {k \in I : k <= j} # {k \in I : k <= i}
    BY <2>2, Zenon
  <2>. QED BY <1>2, <2>1, <2>3, FS_Subset DEF Rank
<1>4. \A i, j \in I : Rank(I, i) = Rank(I, j) => i = j
  <2>. TAKE i, j \in I
  <2>1. i < j \/ j < i \/ i = j
    OBVIOUS
  <2>. QED BY <2>1, <1>3
<1>. DEFINE rank == [i \in I |-> Rank(I, i)]
<1>5. rank \in Injection(I, 1..Cardinality(I))
  BY <1>2, <1>4 DEF Injection, IsInjective
<1>6. IsFiniteSet(1..Cardinality(I)) /\ Cardinality(1..Cardinality(I)) = Cardinality(I)
  BY <1>1, FS_Interval
<1>7. rank \in Surjection(I, 1..Cardinality(I))
  BY <1>5, <1>6, FS_Injection
<1>8. \A k \in 1..Cardinality(I) : \E i \in I : Rank(I, i) = k
  BY <1>7 DEF Surjection
<1>. QED BY <1>1, <1>2, <1>4, <1>8

\* A later position has a greater rank.
LEMMA RankGrows ==
    ASSUME NEW n \in Nat, NEW I \in SUBSET (1..n), NEW i \in I, NEW j \in I, i < j
    PROVE  Rank(I, i) < Rank(I, j)
<1>1. {k \in I : k <= i} \in SUBSET {k \in I : k <= j}
  <2>1. \A k \in I : k \in Int
    OBVIOUS
  <2>2. \A k \in I : k <= i => k <= j
    BY <2>1
  <2>. QED BY <2>2
<1>2. IsFiniteSet({k \in I : k <= j}) /\ IsFiniteSet({k \in I : k <= i})
  <2>1. {k \in I : k <= j} \in SUBSET I /\ {k \in I : k <= i} \in SUBSET I
    OBVIOUS
  <2>. QED BY <2>1, RankFacts, FS_Subset
<1>3. Cardinality({k \in I : k <= i}) <= Cardinality({k \in I : k <= j})
  BY <1>1, <1>2, FS_Subset
<1>4. Rank(I, i) # Rank(I, j)
  <2>1. i # j
    OBVIOUS
  <2>. QED BY <2>1, RankFacts
<1>. QED BY <1>2, <1>3, <1>4, FS_CardinalityType DEF Rank

\* The k-th position.
LEMMA NthPositionFacts ==
    ASSUME NEW n \in Nat, NEW I \in SUBSET (1..n), NEW k \in 1..Cardinality(I)
    PROVE  NthPosition(I, k) \in I /\ Rank(I, NthPosition(I, k)) = k
<1>1. \E i \in I : Rank(I, i) = k
  BY RankFacts
<1>2. NthPosition(I, k) = CHOOSE i \in I : Rank(I, i) = k
  BY DEF NthPosition, Rank
<1>. QED BY <1>1, <1>2

\* A subsequence has the elements at its positions, and repeats nothing the sequence does not.
LEMMA SubsequenceFacts ==
    ASSUME NEW S, NEW s \in Seq(S), NEW I \in SUBSET (1..Len(s))
    PROVE  /\ SubsequenceAt(s, I) \in Seq(S)
           /\ Len(SubsequenceAt(s, I)) = Cardinality(I) /\ Cardinality(I) \in Nat
           /\ ToSet(SubsequenceAt(s, I)) = {s[i] : i \in I}
           /\ IsInjective(s) => IsInjective(SubsequenceAt(s, I))
           /\ SubsequenceAt(s, I) = <<>> <=> I = {}
<1>. DEFINE n == Cardinality(I)
            sub == SubsequenceAt(s, I)
<1>1. Len(s) \in Nat /\ n \in Nat /\ IsFiniteSet(I) /\ \A i \in 1..Len(s) : s[i] \in S
  <2>1. Len(s) \in Nat
    OBVIOUS
  <2>. QED BY <2>1, RankFacts, ElementOfSeq
<1>2. \A k \in 1..n : NthPosition(I, k) \in I /\ Rank(I, NthPosition(I, k)) = k
  BY <1>1, NthPositionFacts
<1>3. \A i \in I : Rank(I, i) \in 1..n /\ NthPosition(I, Rank(I, i)) = i
  <2>1. \A i \in I : Rank(I, i) \in 1..n
    BY <1>1, RankFacts
  <2>2. \A i, j \in I : Rank(I, i) = Rank(I, j) => i = j
    BY <1>1, RankFacts
  <2>. QED BY <2>1, <2>2, <1>2
<1>4. DOMAIN sub = 1..n /\ \A k \in 1..n : sub[k] = s[NthPosition(I, k)]
  BY DEF SubsequenceAt
<1>5. sub \in [1..n -> S]
  BY <1>1, <1>2, <1>4 DEF SubsequenceAt
<1>6. sub \in Seq(S) /\ Len(sub) = n
  <2>. HIDE DEF sub, n
  <2>1. sub \in Seq(S)
    BY <1>1, <1>5, SeqDef
  <2>. QED BY <2>1, <1>1, <1>4
<1>7. ToSet(sub) = {s[i] : i \in I}
  <2>1. ASSUME NEW x \in ToSet(sub)
        PROVE  x \in {s[i] : i \in I}
    BY <1>2, <1>4 DEF ToSet
  <2>2. ASSUME NEW i \in I
        PROVE  s[i] \in ToSet(sub)
    <3>1. Rank(I, i) \in 1..n /\ sub[Rank(I, i)] = s[i]
      BY <1>3, <1>4
    <3>. QED BY <3>1, <1>4 DEF ToSet
  <2>. QED BY <2>1, <2>2
<1>8. ASSUME IsInjective(s)
      PROVE  IsInjective(sub)
  <2>. SUFFICES ASSUME NEW k \in 1..n, NEW m \in 1..n, sub[k] = sub[m]
                PROVE  k = m
    BY <1>4 DEF IsInjective
  <2>0. DOMAIN s = 1..Len(s)
    OBVIOUS
  <2>1. NthPosition(I, k) \in DOMAIN s /\ NthPosition(I, m) \in DOMAIN s
    BY <1>2, <2>0
  <2>2. NthPosition(I, k) = NthPosition(I, m)
    BY <1>4, <1>8, <2>1 DEF IsInjective
  <2>. QED BY <1>2, <2>2
<1>9. sub = <<>> <=> I = {}
  <2>1. sub = <<>> <=> ToSet(sub) = {}
    BY <1>6, ElementsOf
  <2>. QED BY <1>7, <2>1
<1>. QED BY <1>1, <1>6, <1>7, <1>8, <1>9

\* The positions I, and the positions J moved m to the right.
BothPositions(m, I, J) == I \cup {m + j : j \in J}

\* The positions in a concatenation, counted in its two parts.
LEMMA CountConcat ==
    ASSUME NEW m \in Nat, NEW I, NEW J, I \subseteq 1..m, J \subseteq Nat \ {0}, IsFiniteSet(J)
    PROVE  Cardinality(BothPositions(m, I, J)) = Cardinality(I) + Cardinality(J)
<1>. DEFINE shifted == {m + j : j \in J}
            shift == [j \in J |-> m + j]
<1>1. IsFiniteSet(I) /\ IsFiniteSet(J) /\ Cardinality(I) \in Nat /\ Cardinality(J) \in Nat
  BY RankFacts, FS_CardinalityType
<1>2. shift \in Bijection(J, shifted)
  BY DEF Bijection, Injection, Surjection, IsInjective
<1>3. IsFiniteSet(shifted) /\ Cardinality(shifted) = Cardinality(J)
  BY <1>1, <1>2, FS_Bijection DEF ExistsBijection
<1>4. I \cap shifted = {}
  OBVIOUS
<1>. HIDE DEF shifted
<1>5. Cardinality(I \cup shifted) = Cardinality(I) + Cardinality(shifted) - Cardinality({})
  BY <1>1, <1>3, <1>4, FS_Union
<1>. QED BY <1>1, <1>3, <1>5, FS_EmptySet DEF shifted, BothPositions

-----------------------------------------------------------------------------
(* Flattened sequences *)

\* f[i] is the concatenation of the first i sequences.
IsFlattening(f, seqs, n) ==
    DOMAIN f = 1..n /\ \A i \in 1..n : f[i] = IF i = 1 THEN seqs[i] ELSE f[i - 1] \o seqs[i]

\* Sequences can be concatenated one after the other.
LEMMA FlatteningExists ==
    ASSUME NEW seqs, NEW n \in Nat \ {0}
    PROVE  \E f : IsFlattening(f, seqs, n)
<1>. DEFINE Bad == {i \in Nat \ {0} : ~ \E f : IsFlattening(f, seqs, i)}
<1>. SUFFICES ASSUME Bad # {} PROVE FALSE
  OBVIOUS
<1>. HIDE DEF Bad
<1>0. Bad \in SUBSET Nat
  BY DEF Bad
<1>1. PICK i \in Bad : \A j \in Bad : i <= j
  BY <1>0, LeastNat
<1>2. i \in Nat \ {0} /\ ~ \E f : IsFlattening(f, seqs, i)
  BY DEF Bad
<1>3. i # 1
  <2>1. IsFlattening([j \in 1..1 |-> seqs[1]], seqs, 1)
    BY DEF IsFlattening
  <2>. QED BY <2>1, <1>2
<1>4. i - 1 \in Nat \ {0} /\ ~(i - 1 \in Bad)
  BY <1>1, <1>2, <1>3
<1>5. PICK f : IsFlattening(f, seqs, i - 1)
  BY <1>4 DEF Bad
<1>. DEFINE g == [j \in 1..i |-> IF j = i THEN f[i - 1] \o seqs[i] ELSE f[j]]
<1>6. DOMAIN g = 1..i
  OBVIOUS
<1>7. ASSUME NEW j \in 1..i
      PROVE  g[j] = IF j = 1 THEN seqs[j] ELSE g[j - 1] \o seqs[j]
  <2>1. CASE j = i
    <3>1. i - 1 \in 1..i /\ i - 1 # i /\ g[i - 1] = f[i - 1]
      BY <1>2, <1>4
    <3>. QED BY <2>1, <3>1, <1>3
  <2>2. CASE j # i /\ j = 1
    <3>1. j \in 1..i - 1
      BY <2>2, <1>2, <1>4
    <3>2. f[j] = seqs[j]
      BY <3>1, <2>2, <1>5 DEF IsFlattening
    <3>. QED BY <2>2, <3>2
  <2>3. CASE j # i /\ j # 1
    <3>1. j \in 1..i - 1 /\ j - 1 \in 1..i /\ j - 1 # i
      BY <2>3, <1>2, <1>4
    <3>2. f[j] = f[j - 1] \o seqs[j]
      BY <3>1, <2>3, <1>5 DEF IsFlattening
    <3>3. g[j] = f[j] /\ g[j - 1] = f[j - 1]
      BY <3>1, <2>3
    <3>. QED BY <2>3, <3>2, <3>3
  <2>. QED BY <2>1, <2>2, <2>3
<1>8. IsFlattening(g, seqs, i)
  BY <1>6, <1>7 DEF IsFlattening
<1>. QED BY <1>2, <1>8

\* The concatenation of a sequence of sequences is the last of its flattenings.
LEMMA FlattenIsLast ==
    ASSUME NEW seqs, Len(seqs) \in Nat \ {0}
    PROVE  \E f : IsFlattening(f, seqs, Len(seqs)) /\ FlattenSeq(seqs) = f[Len(seqs)]
<1>. DEFINE Rec(f) == f = [i \in 1..Len(seqs) |-> IF i = 1 THEN seqs[i] ELSE f[i - 1] \o seqs[i]]
            flatten == CHOOSE f : Rec(f)
<1>1. PICK f : IsFlattening(f, seqs, Len(seqs))
  BY FlatteningExists
<1>4. FlattenSeq(seqs) = flatten[Len(seqs)]
  BY DEF FlattenSeq
<1>5. \E g : Rec(g)
  <2>. DEFINE g == [i \in 1..Len(seqs) |-> f[i]]
  <2>1. ASSUME NEW i \in 1..Len(seqs)
        PROVE  g[i] = IF i = 1 THEN seqs[i] ELSE g[i - 1] \o seqs[i]
    <3>1. i # 1 => i - 1 \in 1..Len(seqs)
      OBVIOUS
    <3>. QED BY <3>1, <1>1 DEF IsFlattening
  <2>2. Rec(g)
    BY <2>1
  <2>. QED BY <2>2
<1>6. Rec(flatten)
  <2>1. PICK g : Rec(g)
    BY <1>5
  <2>. HIDE DEF Rec
  <2>. QED BY <2>1
<1>. HIDE DEF flatten
<1>7. IsFlattening(flatten, seqs, Len(seqs))
  <2>1. DOMAIN flatten = 1..Len(seqs)
    BY <1>6
  <2>2. \A i \in 1..Len(seqs) : flatten[i] = IF i = 1 THEN seqs[i] ELSE flatten[i - 1] \o seqs[i]
    BY <1>6
  <2>. QED BY <2>1, <2>2 DEF IsFlattening
<1>. QED BY <1>4, <1>7

\* A flattened sequence has the elements of all the sequences, each once if no element is
\* repeated in one of them or found in two.
LEMMA FlattenFacts ==
    ASSUME NEW S, NEW seqs \in Seq(Seq(S)),
           \A i \in 1..Len(seqs) : IsInjective(seqs[i]),
           \A i, j \in 1..Len(seqs) : i # j => ToSet(seqs[i]) \cap ToSet(seqs[j]) = {}
    PROVE  /\ FlattenSeq(seqs) \in Seq(S)
           /\ ToSet(FlattenSeq(seqs)) = UNION {ToSet(seqs[i]) : i \in 1..Len(seqs)}
           /\ IsInjective(FlattenSeq(seqs))
<1>1. Len(seqs) \in Nat /\ \A i \in 1..Len(seqs) : seqs[i] \in Seq(S)
  BY ElementOfSeq
<1>2. CASE Len(seqs) = 0
  <2>1. FlattenSeq(seqs) = seqs /\ seqs = <<>>
    BY <1>2, EmptySeq DEF FlattenSeq
  <2>2. ToSet(<<>>) = {} /\ IsInjective(<<>>) /\ <<>> \in Seq(S)
    BY DEF ToSet, IsInjective
  <2>. QED BY <1>2, <2>1, <2>2
<1>3. CASE Len(seqs) # 0
  <2>. DEFINE Flat(q, n) == /\ q \in Seq(S) /\ IsInjective(q)
                            /\ ToSet(q) = UNION {ToSet(seqs[i]) : i \in 1..n}
  <2>1. PICK f : IsFlattening(f, seqs, Len(seqs)) /\ FlattenSeq(seqs) = f[Len(seqs)]
    BY <1>1, <1>3, FlattenIsLast
  <2>. DEFINE Bad == {i \in 1..Len(seqs) : ~Flat(f[i], i)}
  <2>. SUFFICES ASSUME Bad # {} PROVE FALSE
    <3>1. Len(seqs) \in 1..Len(seqs)
      BY <1>1, <1>3
    <3>2. Flat(f[Len(seqs)], Len(seqs))
      BY <3>1
    <3>. QED BY <3>2, <2>1
  <2>. HIDE DEF Bad
  <2>2. PICK n \in Bad : \A j \in Bad : n <= j
    <3>1. Bad \in SUBSET Nat
      BY DEF Bad
    <3>. QED BY <3>1, LeastNat
  <2>3. n \in 1..Len(seqs) /\ ~Flat(f[n], n)
    BY DEF Bad
  <2>4. CASE n = 1
    <3>1. f[n] = seqs[1]
      BY <2>1, <2>3, <2>4 DEF IsFlattening
    <3>2. UNION {ToSet(seqs[i]) : i \in 1..1} = ToSet(seqs[1])
      OBVIOUS
    <3>. QED BY <3>1, <3>2, <2>3, <2>4, <1>1
  <2>5. CASE n # 1
    <3>1. n - 1 \in 1..Len(seqs) /\ ~(n - 1 \in Bad) /\ n \in Nat /\ n - 1 \in Nat
      BY <2>2, <2>3, <2>5, <1>1
    <3>2. Flat(f[n - 1], n - 1)
      BY <3>1 DEF Bad
    <3>3. f[n] = f[n - 1] \o seqs[n]
      BY <2>1, <2>3, <2>5 DEF IsFlattening
    <3>4. seqs[n] \in Seq(S) /\ IsInjective(seqs[n])
      BY <1>1, <2>3
    <3>5. ToSet(f[n - 1]) \cap ToSet(seqs[n]) = {}
      <4>1. \A i \in 1..n - 1 : i \in 1..Len(seqs) /\ i # n
        BY <2>3, <1>1
      <4>2. \A i \in 1..n - 1 : ToSet(seqs[i]) \cap ToSet(seqs[n]) = {}
        BY <4>1, <2>3
      <4>. QED BY <4>2, <3>2
    <3>6. ToSet(f[n - 1]) \cup ToSet(seqs[n]) = UNION {ToSet(seqs[i]) : i \in 1..n}
      <4>1. 1..n = (1..n - 1) \cup {n}
        BY <3>1
      <4>. QED BY <4>1, <3>2
    <3>. DEFINE front == f[n - 1]
                back == seqs[n]
    <3>. HIDE DEF front, back
    <3>7. front \o back \in Seq(S)
      BY <3>2, <3>4 DEF front, back
    <3>8. ToSet(front \o back) = ToSet(front) \cup ToSet(back)
      BY <3>2, <3>4, ToSetConcat DEF front, back
    <3>9. IsInjective(front \o back)
      BY <3>2, <3>4, <3>5, InjectiveConcat DEF front, back
    <3>. QED BY <3>3, <3>6, <3>7, <3>8, <3>9, <2>3 DEF front, back
  <2>. QED BY <2>4, <2>5
<1>. QED BY <1>2, <1>3

-----------------------------------------------------------------------------
(* Least and greatest elements *)

\* Min of a nonempty set of naturals.
LEMMA MinFacts ==
    ASSUME NEW S \in SUBSET Nat, S # {}
    PROVE  Min(S) \in S /\ \A n \in S : Min(S) <= n
<1>1. \E n \in S : \A m \in S : n <= m
  BY LeastNat
<1>. QED BY <1>1 DEF Min

\* Max of a nonempty bounded set of naturals.
LEMMA MaxFacts ==
    ASSUME NEW S \in SUBSET Nat, S # {}, NEW b \in Nat, \A n \in S : n <= b
    PROVE  Max(S) \in S /\ \A n \in S : n <= Max(S)
<1>. DEFINE Bounds == {k \in Nat : \A n \in S : n <= k}
<1>. HIDE DEF Bounds
<1>1. PICK k \in Bounds : \A j \in Bounds : k <= j
  <2>1. Bounds \in SUBSET Nat /\ b \in Bounds
    BY DEF Bounds
  <2>. QED BY <2>1, LeastNat
<1>2. k \in Nat /\ \A n \in S : n <= k
  BY DEF Bounds
<1>3. k \in S
  <2>. SUFFICES ASSUME k \notin S PROVE FALSE
    OBVIOUS
  <2>1. k # 0
    <3>1. PICK n \in S : TRUE
      OBVIOUS
    <3>2. n \in Nat /\ n <= k /\ n # k
      BY <1>2
    <3>. QED BY <3>2, <1>2
  <2>2. k - 1 \in Nat /\ \A n \in S : n <= k - 1
    BY <1>2, <2>1
  <2>3. k - 1 \in Bounds
    BY <2>2 DEF Bounds
  <2>4. k <= k - 1
    BY <2>3, <1>1
  <2>. QED BY <2>4, <1>2
<1>4. \E x \in S : \A y \in S : x >= y
  BY <1>2, <1>3
<1>. QED BY <1>4 DEF Max
=============================================================================

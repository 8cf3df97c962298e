---------------------------- MODULE ChipsProofs ----------------------------
(***************************************************************************)
(* What adding up holdings does, for any number of holders.  The induction *)
(* theorems of the library take an operator for a parameter, so induction  *)
(* is done here over sets: the least number not in S does not exist.       *)
(***************************************************************************)
EXTENDS Chips, FiniteSetTheorems, WellFoundedInduction, TLAPS

\* Induction on the natural numbers, for a set in place of a predicate.
LEMMA SetInduction ==
  ASSUME NEW S, 0 \in S, \A n \in Nat : n \in S => n + 1 \in S
  PROVE  Nat \subseteq S
<1>1. SUFFICES ASSUME Nat \ S # {} PROVE FALSE
  OBVIOUS
<1>2. PICK x \in Nat \ S : \A y \in Nat \ S : <<y, x>> \notin OpToRel(<, Nat)
  BY <1>1, NatLessThanWellFounded, WFMin DEF OpToRel
<1>3. x # 0 /\ x - 1 \in Nat /\ x - 1 < x
  OBVIOUS
<1>4. x - 1 \in S
  BY <1>2, <1>3 DEF OpToRel
<1>5. (x - 1) + 1 \in S
  BY <1>3, <1>4
<1> QED
  BY <1>3, <1>5

\* The running sums of f up to n.
IsSum(g, f, n) == g = [i \in 0..n |-> IF i = 0 THEN 0 ELSE g[i - 1] + f[i]]

LEMMA SumExists ==
  ASSUME NEW f
  PROVE  \A n \in Nat : \E g : IsSum(g, f, n)
<1> DEFINE S == {n \in Nat : \E g : IsSum(g, f, n)}
<1>1. 0 \in S
  <2> DEFINE g == [i \in 0..0 |-> 0]
  <2>1. g = [i \in 0..0 |-> IF i = 0 THEN 0 ELSE g[i - 1] + f[i]]
    OBVIOUS
  <2> QED
    BY <2>1 DEF IsSum
<1>2. ASSUME NEW n \in Nat, n \in S
      PROVE  n + 1 \in S
  <2>1. PICK g : IsSum(g, f, n)
    BY <1>2
  <2> DEFINE h == [i \in 0..(n + 1) |-> IF i = n + 1 THEN g[n] + f[n + 1] ELSE g[i]]
  <2>2. \A i \in 0..n : g[i] = IF i = 0 THEN 0 ELSE g[i - 1] + f[i]
    BY <2>1 DEF IsSum
  <2>3. ASSUME NEW i \in 0..(n + 1)
        PROVE  h[i] = IF i = 0 THEN 0 ELSE h[i - 1] + f[i]
    <3>1. CASE i = n + 1
      BY <3>1
    <3>2. CASE i = 0
      BY <2>2, <3>2
    <3>3. CASE i \in 1..n
      <4>1. h[i] = g[i] /\ h[i - 1] = g[i - 1] /\ i \in 0..n /\ i # 0
        BY <3>3
      <4> QED
        BY <4>1, <2>2
    <3> QED
      BY <3>1, <3>2, <3>3
  <2>4. IsSum(h, f, n + 1)
    <3> HIDE DEF h
    <3>1. h = [i \in 0..(n + 1) |-> h[i]]
      BY DEF h
    <3> QED
      BY <2>3, <3>1 DEF IsSum
  <2> QED
    BY <2>4
<1>3. Nat \subseteq S
  <2> HIDE DEF S
  <2> QED
    BY <1>1, <1>2, SetInduction
<1> QED
  BY <1>3

\* The running sums up to n and up to m agree where both are defined.
LEMMA SumsAgree ==
  ASSUME NEW f, NEW n \in Nat, NEW m \in Nat, n <= m,
         NEW g, NEW h, IsSum(g, f, n), IsSum(h, f, m)
  PROVE  \A i \in 0..n : g[i] = h[i]
<1> DEFINE S == {i \in Nat : i <= n => g[i] = h[i]}
<1>0. /\ \A i \in 0..n : g[i] = IF i = 0 THEN 0 ELSE g[i - 1] + f[i]
      /\ \A i \in 0..m : h[i] = IF i = 0 THEN 0 ELSE h[i - 1] + f[i]
  BY DEF IsSum
<1>1. 0 \in S
  BY <1>0
<1>2. ASSUME NEW i \in Nat, i \in S
      PROVE  i + 1 \in S
  <2>1. CASE i + 1 <= n
    <3>1. i + 1 \in 0..n /\ i + 1 \in 0..m /\ i + 1 # 0 /\ (i + 1) - 1 = i /\ g[i] = h[i]
      BY <1>2, <2>1
    <3> QED
      BY <3>1, <1>0
  <2>2. CASE ~(i + 1 <= n)
    BY <2>2
  <2> QED
    BY <2>1, <2>2
<1>3. Nat \subseteq S
  <2> HIDE DEF S
  <2> QED
    BY <1>1, <1>2, SetInduction
<1> QED
  BY <1>3

LEMMA TotalIsSum ==
  ASSUME NEW f, NEW n \in Nat, NEW g, IsSum(g, f, n)
  PROVE  Total(f, n) = g[n]
<1> DEFINE h == CHOOSE s : IsSum(s, f, n)
<1>1. IsSum(h, f, n)
  OBVIOUS
<1>2. Total(f, n) = h[n]
  BY DEF Total, IsSum
<1> HIDE DEF h
<1> QED
  BY <1>1, <1>2, SumsAgree

\* The total of nobody, and of one more.
THEOREM TotalStep ==
  ASSUME NEW f
  PROVE  /\ Total(f, 0) = 0
         /\ \A n \in Nat : Total(f, n + 1) = Total(f, n) + f[n + 1]
<1>1. Total(f, 0) = 0
  <2>1. PICK g : IsSum(g, f, 0)
    BY SumExists
  <2>2. g[0] = 0
    BY <2>1 DEF IsSum
  <2> QED
    BY <2>1, <2>2, TotalIsSum
<1>2. ASSUME NEW n \in Nat
      PROVE  Total(f, n + 1) = Total(f, n) + f[n + 1]
  <2>1. PICK g : IsSum(g, f, n)
    BY SumExists
  <2>2. PICK h : IsSum(h, f, n + 1)
    BY SumExists
  <2>3. g[n] = h[n]
    BY <2>1, <2>2, SumsAgree
  <2>4. h[n + 1] = h[n] + f[n + 1]
    BY <2>2 DEF IsSum
  <2>5. Total(f, n) = g[n] /\ Total(f, n + 1) = h[n + 1]
    BY <2>1, <2>2, TotalIsSum
  <2> QED
    BY <2>3, <2>4, <2>5
<1> QED
  BY <1>1, <1>2

\* Whole holdings have a whole total, and no holdings a total of nothing.
LEMMA TotalType ==
  ASSUME NEW N \in Nat, NEW f \in [1..N -> Int]
  PROVE  \A n \in 0..N : Total(f, n) \in Int
<1> DEFINE S == {n \in Nat : n <= N => Total(f, n) \in Int}
<1>1. 0 \in S
  BY TotalStep
<1>2. ASSUME NEW n \in Nat, n \in S
      PROVE  n + 1 \in S
  <2>1. n + 1 <= N => f[n + 1] \in Int
    OBVIOUS
  <2>2. Total(f, n + 1) = Total(f, n) + f[n + 1]
    BY TotalStep
  <2>3. n + 1 <= N => Total(f, n) \in Int
    BY <1>2
  <2>4. n + 1 <= N => Total(f, n + 1) \in Int
    BY <2>1, <2>2, <2>3
  <2> QED
    BY <2>4
<1>3. Nat \subseteq S
  <2> HIDE DEF S
  <2> QED
    BY <1>1, <1>2, SetInduction
<1> QED
  BY <1>3

LEMMA TotalZero ==
  ASSUME NEW N \in Nat, NEW f, \A i \in 1..N : f[i] = 0
  PROVE  \A n \in 0..N : Total(f, n) = 0
<1> DEFINE S == {n \in Nat : n <= N => Total(f, n) = 0}
<1>1. 0 \in S
  BY TotalStep
<1>2. ASSUME NEW n \in Nat, n \in S
      PROVE  n + 1 \in S
  <2>1. n + 1 <= N => f[n + 1] = 0
    OBVIOUS
  <2> QED
    BY <1>2, <2>1, TotalStep
<1>3. Nat \subseteq S
  <2> HIDE DEF S
  <2> QED
    BY <1>1, <1>2, SetInduction
<1> QED
  BY <1>3

\* Two holdings, one by one, come to as much as two others.
Balances(a, b, c, d, n) == \A i \in 1..n : a[i] + b[i] = c[i] + d[i]

\* Holdings that balance one by one balance in total.
LEMMA TotalBalance ==
  \A N \in Nat : \A a, b, c, d \in [1..N -> Int] :
    Balances(a, b, c, d, N) => Total(a, N) + Total(b, N) = Total(c, N) + Total(d, N)
<1> TAKE N \in Nat
<1> TAKE a, b, c, d \in [1..N -> Int]
<1> HAVE Balances(a, b, c, d, N)
<1> DEFINE S == {n \in Nat : n <= N =>
                   Total(a, n) + Total(b, n) = Total(c, n) + Total(d, n)}
<1>1. 0 \in S
  BY TotalStep
<1>2. ASSUME NEW n \in Nat, n \in S
      PROVE  n + 1 \in S
  <2>1. CASE n + 1 <= N
    <3>1. a[n + 1] + b[n + 1] = c[n + 1] + d[n + 1]
      BY <2>1 DEF Balances
    <3>2. a[n + 1] \in Int /\ b[n + 1] \in Int /\ c[n + 1] \in Int /\ d[n + 1] \in Int
      BY <2>1
    <3>3. n \in 0..N
      BY <2>1
    <3>4. Total(a, n) \in Int /\ Total(b, n) \in Int
      BY <3>3, TotalType
    <3>5. Total(c, n) \in Int /\ Total(d, n) \in Int
      BY <3>3, TotalType
    <3>6. Total(a, n) + Total(b, n) = Total(c, n) + Total(d, n)
      BY <1>2, <2>1
    <3>7. /\ Total(a, n + 1) = Total(a, n) + a[n + 1]
          /\ Total(b, n + 1) = Total(b, n) + b[n + 1]
          /\ Total(c, n + 1) = Total(c, n) + c[n + 1]
          /\ Total(d, n + 1) = Total(d, n) + d[n + 1]
      BY TotalStep
    <3>8. Total(a, n + 1) + Total(b, n + 1) = Total(c, n + 1) + Total(d, n + 1)
      <4>1. Total(a, n + 1) + Total(b, n + 1) =
              (Total(a, n) + Total(b, n)) + (a[n + 1] + b[n + 1])
        BY <3>2, <3>4, <3>7
      <4>2. Total(c, n + 1) + Total(d, n + 1) =
              (Total(c, n) + Total(d, n)) + (c[n + 1] + d[n + 1])
        BY <3>2, <3>5, <3>7
      <4> QED
        BY <3>1, <3>6, <4>1, <4>2
    <3> QED
      BY <3>8
  <2>2. CASE ~(n + 1 <= N)
    BY <2>2
  <2> QED
    BY <2>1, <2>2
<1>3. Nat \subseteq S
  <2> HIDE DEF S
  <2> QED
    BY <1>1, <1>2, SetInduction
<1> QED
  BY <1>3

\* One holding changes: the total changes by as much.
THEOREM TotalUpdate ==
  ASSUME NEW N \in Nat, NEW f \in [1..N -> Int], NEW p \in 1..N, NEW v \in Int
  PROVE  Total([f EXCEPT ![p] = v], N) = Total(f, N) - f[p] + v
<1> DEFINE g == [f EXCEPT ![p] = v]
           S == {n \in Nat : n <= N =>
                   Total(g, n) = IF n < p THEN Total(f, n) ELSE Total(f, n) - f[p] + v}
<1>1. 0 \in S
  BY TotalStep
<1>2. ASSUME NEW n \in Nat, n \in S
      PROVE  n + 1 \in S
  <2>1. CASE n + 1 <= N
    <3>1. /\ f[n + 1] \in Int /\ f[p] \in Int /\ Total(f, n) \in Int
          /\ g[n + 1] = IF n + 1 = p THEN v ELSE f[n + 1]
      BY <2>1, TotalType
    <3>2. Total(g, n) = IF n < p THEN Total(f, n) ELSE Total(f, n) - f[p] + v
      BY <1>2, <2>1
    <3>3. Total(g, n + 1) = Total(g, n) + g[n + 1] /\ Total(f, n + 1) = Total(f, n) + f[n + 1]
      BY TotalStep
    <3> HIDE DEF g
    <3>4. Total(g, n + 1) = IF n + 1 < p THEN Total(f, n + 1) ELSE Total(f, n + 1) - f[p] + v
      BY <3>1, <3>2, <3>3
    <3> QED
      BY <3>4
  <2>2. CASE ~(n + 1 <= N)
    BY <2>2
  <2> QED
    BY <2>1, <2>2
<1>3. Nat \subseteq S
  <2> HIDE DEF S
  <2> QED
    BY <1>1, <1>2, SetInduction
<1>4. Total(g, N) = IF N < p THEN Total(f, N) ELSE Total(f, N) - f[p] + v
  <2> HIDE DEF g
  <2>1. N \in S
    BY <1>3
  <2> QED
    BY <2>1
<1> QED
  BY <1>4

\* The same holding for everybody in a group.
THEOREM TotalShare ==
  ASSUME NEW N \in Nat, NEW G \in SUBSET (1..N), NEW c \in Int
  PROVE  Total([i \in 1..N |-> IF i \in G THEN c ELSE 0], N) = c * Cardinality(G)
<1> DEFINE f == [i \in 1..N |-> IF i \in G THEN c ELSE 0]
           B(n) == G \intersect 1..n
           S == {n \in Nat : n <= N => Total(f, n) = c * Cardinality(B(n))}
<1>0. \A n \in Nat : IsFiniteSet(B(n)) /\ Cardinality(B(n)) \in Nat
  <2> TAKE n \in Nat
  <2>1. IsFiniteSet(1..n)
    BY FS_Interval
  <2> QED
    BY <2>1, FS_Subset, FS_CardinalityType
<1>1. 0 \in S
  <2>1. B(0) = {}
    OBVIOUS
  <2> QED
    BY <2>1, TotalStep, FS_EmptySet
<1>2. ASSUME NEW n \in Nat, n \in S
      PROVE  n + 1 \in S
  <2> SUFFICES ASSUME n + 1 <= N
               PROVE  Total(f, n + 1) = c * Cardinality(B(n + 1))
    OBVIOUS
  <2>1. Total(f, n) = c * Cardinality(B(n)) /\ Total(f, n + 1) = Total(f, n) + f[n + 1]
    <3> HIDE DEF f, B
    <3>1. n <= N
      OBVIOUS
    <3> QED
      BY <1>2, <3>1, TotalStep
  <2>2. CASE n + 1 \in G
    <3>1. B(n + 1) = B(n) \union {n + 1} /\ n + 1 \notin B(n)
      BY <2>2
    <3>2. Cardinality(B(n + 1)) = Cardinality(B(n)) + 1
      BY <1>0, <3>1, FS_AddElement
    <3>3. f[n + 1] = c
      BY <2>2
    <3> HIDE DEF f, B
    <3>4. c * (Cardinality(B(n)) + 1) = c * Cardinality(B(n)) + c
      BY <1>0
    <3> QED
      BY <2>1, <3>2, <3>3, <3>4
  <2>3. CASE n + 1 \notin G
    <3>1. B(n + 1) = B(n)
      BY <2>3
    <3>2. f[n + 1] = 0
      BY <2>3
    <3>3. c * Cardinality(B(n)) \in Int
      BY <1>0
    <3> HIDE DEF f, B
    <3> QED
      BY <2>1, <3>1, <3>2, <3>3
  <2> QED
    BY <2>2, <2>3
<1>3. Nat \subseteq S
  <2> HIDE DEF S
  <2> QED
    BY <1>1, <1>2, SetInduction
<1>4. Total(f, N) = c * Cardinality(B(N))
  <2> HIDE DEF f, B
  <2>1. N \in S
    BY <1>3
  <2> QED
    BY <2>1
<1>5. B(N) = G
  OBVIOUS
<1> QED
  BY <1>4, <1>5
=============================================================================

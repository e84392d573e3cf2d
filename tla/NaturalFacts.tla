---------------------------- MODULE NaturalFacts ----------------------------
(***************************************************************************)
(* Facts about the natural numbers that the proofs of the components share: *)
(* the least element of a set, induction, and functions defined by running  *)
(* totals.  Induction is stated for a set of numbers instead of a predicate,*)
(* so that an instance of it has no operator parameter.                     *)
(***************************************************************************)
EXTENDS Integers, Sequences, WellFoundedInduction, TLAPS

\* A non-empty set of naturals has a least element.
LEMMA Least ==
    ASSUME NEW T, T \subseteq Nat, T # {}
    PROVE  \E x \in T : \A y \in T : x <= y
<1> DEFINE R == OpToRel(<, Nat)
<1>1. IsWellFoundedOn(R, Nat)
  BY NatLessThanWellFounded
<1>2. \A x, y \in Nat : y < x => <<y, x>> \in R
  BY DEF R, OpToRel
<1> HIDE DEF R
<1>3. PICK x \in T : \A y \in T : ~ (<<y, x>> \in R)
  BY <1>1, WFMin
<1>4. ASSUME NEW y \in T PROVE x <= y
  <2>1. x \in Nat /\ y \in Nat
    OBVIOUS
  <2>2. ~ (y < x)
    BY <1>2, <1>3, <2>1
  <2>3. QED
    BY <2>1, <2>2
<1>5. QED
  BY <1>4

\* CHOOSE finds it.
LEMMA LeastChosen ==
    ASSUME NEW T, T \subseteq Nat, T # {}
    PROVE  LET x == CHOOSE i \in T : \A j \in T : i <= j
           IN  x \in T /\ \A j \in T : x <= j
BY Least

\* A set that has 0, and the successor of each of its members, has all naturals.
LEMMA Induction ==
    ASSUME NEW S, 0 \in S, \A n \in Nat : n \in S => n + 1 \in S
    PROVE  \A n \in Nat : n \in S
<1> DEFINE T == Nat \ S
<1>1. SUFFICES ASSUME T # {} PROVE FALSE
  OBVIOUS
<1>2. PICK x \in T : \A y \in T : x <= y
  <2>1. T \subseteq Nat
    OBVIOUS
  <2> HIDE DEF T
  <2>2. QED
    BY <1>1, <2>1, Least
<1>3. x # 0 /\ x - 1 \in Nat /\ x - 1 \notin T
  BY <1>2
<1>4. x \in S
  BY <1>3
<1>5. QED
  BY <1>4

\* g solves the recursive definition of the running totals of d, from c.
Solution(g, m, c, d) == g = [k \in 1 .. m + 1 |-> IF k = 1 THEN c ELSE g[k - 1] + d[k - 1]]

\* The running totals of d, from c: the recursive definition has a solution.
LEMMA TotalsExist ==
    ASSUME NEW m \in Nat, NEW c \in Nat, NEW d \in [1 .. m -> Nat]
    PROVE  \E g \in [1 .. m + 1 -> Nat] : Solution(g, m, c, d)
<1> DEFINE Solves(g, n) == \A k \in 1 .. n + 1 : g[k] = IF k = 1 THEN c ELSE g[k - 1] + d[k - 1]
           S == {n \in Nat : n <= m => \E g \in [1 .. n + 1 -> Nat] : Solves(g, n)}
<1>1. 0 \in S
  <2> DEFINE g == [k \in 1 .. 1 |-> c]
  <2>1. g \in [1 .. 0 + 1 -> Nat] /\ Solves(g, 0)
    OBVIOUS
  <2> HIDE DEF g, Solves
  <2>2. QED
    BY <2>1
<1>2. ASSUME NEW n \in Nat, n \in S PROVE n + 1 \in S
  <2> HIDE DEF Solves
  <2>1. SUFFICES ASSUME n + 1 <= m
                 PROVE  \E g \in [1 .. (n + 1) + 1 -> Nat] : Solves(g, n + 1)
    OBVIOUS
  <2> USE DEF Solves
  <2>2. PICK f \in [1 .. n + 1 -> Nat] : Solves(f, n)
    BY <1>2, <2>1
  <2> DEFINE g == [k \in 1 .. (n + 1) + 1 |-> IF k = n + 2 THEN f[n + 1] + d[n + 1] ELSE f[k]]
  <2>3. f[n + 1] + d[n + 1] \in Nat
    BY <2>1
  <2>4. g \in [1 .. (n + 1) + 1 -> Nat]
    BY <2>3
  <2>5. ASSUME NEW k \in 1 .. (n + 1) + 1
        PROVE  g[k] = IF k = 1 THEN c ELSE g[k - 1] + d[k - 1]
    BY <2>2
  <2>6. QED
    BY <2>4, <2>5
<1>3. m \in S
  <2> HIDE DEF S
  <2>1. QED
    BY <1>1, <1>2, Induction
<1>4. PICK g \in [1 .. m + 1 -> Nat] : Solves(g, m)
  <2> HIDE DEF Solves
  <2>1. m <= m
    OBVIOUS
  <2>2. QED
    BY <1>3, <2>1
<1>5. Solution(g, m, c, d)
  BY <1>4 DEF Solution
<1>6. QED
  BY <1>5

\* f has the running totals of d, from c.
Totals(f, m, c, d) == \A k \in 1 .. m + 1 : f[k] = IF k = 1 THEN c ELSE f[k - 1] + d[k - 1]

\* What the recursive definition says of any solution of it.
LEMMA TotalsType ==
    ASSUME NEW m \in Nat, NEW c \in Nat, NEW d \in [1 .. m -> Nat], NEW f,
           Totals(f, m, c, d)
    PROVE  /\ \A k \in 1 .. m + 1 : f[k] \in Nat
           /\ f[1] = c
           /\ \A k \in 1 .. m : f[k + 1] = f[k] + d[k]
<1> USE DEF Totals
<1>1. f[1] = c
  <2>1. 1 \in 1 .. m + 1
    OBVIOUS
  <2>2. QED
    BY <2>1
<1>2. ASSUME NEW k \in 1 .. m PROVE f[k + 1] = f[k] + d[k]
  <2>1. k + 1 \in 1 .. m + 1 /\ k + 1 # 1 /\ (k + 1) - 1 = k
    OBVIOUS
  <2>2. f[k + 1] = IF k + 1 = 1 THEN c ELSE f[(k + 1) - 1] + d[(k + 1) - 1]
    BY <2>1
  <2>3. QED
    BY <2>1, <2>2
<1> DEFINE S == {n \in Nat : n <= m => f[n + 1] \in Nat}
<1>3. 0 \in S
  BY <1>1
<1>4. ASSUME NEW n \in Nat, n \in S PROVE n + 1 \in S
  <2>1. SUFFICES ASSUME n + 1 <= m PROVE f[(n + 1) + 1] \in Nat
    OBVIOUS
  <2>2. n + 1 \in 1 .. m /\ f[n + 1] \in Nat /\ d[n + 1] \in Nat
    BY <1>4, <2>1
  <2>3. QED
    BY <1>2, <2>2
<1>5. \A n \in Nat : n \in S
  <2> HIDE DEF S
  <2>1. QED
    BY <1>3, <1>4, Induction
<1>6. ASSUME NEW k \in 1 .. m + 1 PROVE f[k] \in Nat
  <2>1. k - 1 \in Nat /\ k - 1 <= m /\ (k - 1) + 1 = k
    OBVIOUS
  <2>2. QED
    BY <1>5, <2>1
<1>7. QED
  BY <1>1, <1>2, <1>6

\* The same for totals that are counted from 0, where the total is 0.
LEMMA CountsExist ==
    ASSUME NEW m \in Nat, NEW d \in [1 .. m -> Nat]
    PROVE  \E h \in [0 .. m -> Nat] : h = [i \in 0 .. m |-> IF i = 0 THEN 0 ELSE h[i - 1] + d[i]]
<1>1. PICK g \in [1 .. m + 1 -> Nat] :
          g = [k \in 1 .. m + 1 |-> IF k = 1 THEN 0 ELSE g[k - 1] + d[k - 1]]
  <2>1. 0 \in Nat
    OBVIOUS
  <2>2. PICK f \in [1 .. m + 1 -> Nat] : Solution(f, m, 0, d)
    BY <2>1, TotalsExist, Zenon
  <2>3. QED
    BY <2>2, Zenon DEF Solution
<1> DEFINE h == [i \in 0 .. m |-> g[i + 1]]
<1>2. h \in [0 .. m -> Nat]
  OBVIOUS
<1>3. ASSUME NEW i \in 0 .. m PROVE h[i] = IF i = 0 THEN 0 ELSE h[i - 1] + d[i]
  <2>1. CASE i = 0
    BY <1>1, <2>1
  <2>2. CASE i # 0
    <3>1. i + 1 \in 1 .. m + 1 /\ i + 1 # 1 /\ (i + 1) - 1 = i /\ i - 1 \in 0 .. m /\ (i - 1) + 1 = i
      BY <2>2
    <3>2. g[i + 1] = g[i] + d[i]
      <4>1. g[i + 1] = IF i + 1 = 1 THEN 0 ELSE g[(i + 1) - 1] + d[(i + 1) - 1]
        BY <1>1, <3>1
      <4>2. QED
        BY <3>1, <4>1
    <3>3. h[i] = g[i + 1] /\ h[i - 1] = g[i]
      BY <3>1
    <3>4. QED
      BY <2>2, <3>2, <3>3
  <2>3. QED
    BY <2>1, <2>2
<1>4. h = [i \in 0 .. m |-> IF i = 0 THEN 0 ELSE h[i - 1] + d[i]]
  BY <1>3
<1>5. QED
  BY <1>2, <1>4

LEMMA CountsType ==
    ASSUME NEW m \in Nat, NEW d \in [1 .. m -> Nat], NEW f,
           \A i \in 0 .. m : f[i] = IF i = 0 THEN 0 ELSE f[i - 1] + d[i]
    PROVE  /\ \A i \in 0 .. m : f[i] \in Nat
           /\ f[0] = 0
           /\ \A i \in 1 .. m : f[i] = f[i - 1] + d[i]
<1>1. f[0] = 0
  <2>1. 0 \in 0 .. m
    OBVIOUS
  <2>2. QED
    BY <2>1
<1>2. ASSUME NEW i \in 1 .. m PROVE f[i] = f[i - 1] + d[i]
  <2>1. i \in 0 .. m /\ i # 0
    OBVIOUS
  <2>2. QED
    BY <2>1
<1> DEFINE S == {n \in Nat : n <= m => f[n] \in Nat}
<1>3. 0 \in S
  BY <1>1
<1>4. ASSUME NEW n \in Nat, n \in S PROVE n + 1 \in S
  <2>1. SUFFICES ASSUME n + 1 <= m PROVE f[n + 1] \in Nat
    OBVIOUS
  <2>2. n + 1 \in 1 .. m /\ (n + 1) - 1 = n /\ f[n] \in Nat /\ d[n + 1] \in Nat
    BY <1>4, <2>1
  <2>3. f[n + 1] = f[n] + d[n + 1]
    BY <1>2, <2>2
  <2>4. QED
    BY <2>2, <2>3
<1>5. \A n \in Nat : n \in S
  <2> HIDE DEF S
  <2>1. QED
    BY <1>3, <1>4, Induction
<1>6. \A i \in 0 .. m : f[i] \in Nat
  BY <1>5
<1>7. QED
  BY <1>1, <1>2, <1>6

LEMMA CountsGrow ==
    ASSUME NEW m \in Nat, NEW d \in [1 .. m -> Nat], NEW f \in [0 .. m -> Nat],
           \A i \in 1 .. m : f[i] = f[i - 1] + d[i],
           NEW i \in 0 .. m, NEW j \in i .. m
    PROVE  f[i] <= f[j]
<1> DEFINE S == {n \in Nat : i + n <= m => f[i] <= f[i + n]}
<1>1. 0 \in S
  OBVIOUS
<1>2. ASSUME NEW n \in Nat, n \in S PROVE n + 1 \in S
  <2>1. SUFFICES ASSUME i + (n + 1) <= m PROVE f[i] <= f[i + (n + 1)]
    OBVIOUS
  <2>2. f[i] <= f[i + n]
    BY <1>2, <2>1
  <2>3. i + (n + 1) \in 1 .. m /\ (i + (n + 1)) - 1 = i + n /\ i + n \in 0 .. m
    BY <2>1
  <2>4. f[i + (n + 1)] = f[i + n] + d[i + (n + 1)] /\ f[i + n] \in Nat /\ d[i + (n + 1)] \in Nat
    BY <2>3
  <2>5. f[i] \in Nat
    OBVIOUS
  <2>6. QED
    BY ONLY <2>2, <2>4, <2>5
<1>3. j - i \in S
  <2> HIDE DEF S
  <2>1. j - i \in Nat
    OBVIOUS
  <2>2. QED
    BY <1>1, <1>2, <2>1, Induction
<1>4. QED
  BY <1>3

\* Running totals never decrease.
LEMMA TotalsGrow ==
    ASSUME NEW m \in Nat, NEW d \in [1 .. m -> Nat], NEW f \in [1 .. m + 1 -> Nat],
           \A k \in 1 .. m : f[k + 1] = f[k] + d[k],
           NEW i \in 1 .. m + 1, NEW j \in i .. m + 1
    PROVE  f[i] <= f[j]
<1> DEFINE S == {n \in Nat : i + n <= m + 1 => f[i] <= f[i + n]}
<1>1. 0 \in S
  OBVIOUS
<1>2. ASSUME NEW n \in Nat, n \in S PROVE n + 1 \in S
  <2>1. SUFFICES ASSUME i + (n + 1) <= m + 1 PROVE f[i] <= f[i + (n + 1)]
    OBVIOUS
  <2>2. f[i] <= f[i + n]
    BY <1>2, <2>1
  <2>3. i + n \in 1 .. m /\ i + (n + 1) = (i + n) + 1
    BY <2>1
  <2>4. f[(i + n) + 1] = f[i + n] + d[i + n] /\ f[i + n] \in Nat /\ d[i + n] \in Nat
    BY <2>3
  <2>5. f[i] \in Nat /\ f[i + (n + 1)] = f[(i + n) + 1]
    BY <2>3
  <2>6. QED
    BY ONLY <2>2, <2>4, <2>5
<1>3. j - i \in S
  <2> HIDE DEF S
  <2>1. j - i \in Nat
    OBVIOUS
  <2>2. QED
    BY <1>1, <1>2, <2>1, Induction
<1>4. QED
  BY <1>3
=============================================================================

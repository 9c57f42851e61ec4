---------------------------- MODULE InductionFacts -----------------------------
(***************************************************************************)
(* Induction over the natural numbers, stated of sets and functions, and   *)
(* what the proofs about lists and loops take from it: least and greatest  *)
(* elements, and the existence of a function defined by recursion.         *)
(***************************************************************************)
EXTENDS Naturals, SequenceTheorems, WellFoundedInduction, TLAPS

\* A set of numbers that is not empty has a least element.
LEMMA LeastExists ==
  ASSUME NEW S \in SUBSET Nat, S # {}
  PROVE  \E i \in S : \A j \in S : i <= j
<1> DEFINE R == {ss \in Nat \X Nat : ss[1] < ss[2]}
<1>1. IsWellFoundedOn(R, Nat)
  BY NatLessThanWellFounded DEF OpToRel
<1> HIDE DEF R
<1>2. PICK i \in S : \A j \in S : <<j, i>> \notin R
  BY <1>1, WFMin
<1>3. ASSUME NEW j \in S PROVE i <= j
  <2>1. ~(j < i)
    BY <1>2 DEF R
  <2> QED
    BY <2>1
<1> QED
  BY <1>3

\* And one of numbers up to a bound has a greatest.
LEMMA GreatestExists ==
  ASSUME NEW n \in Nat, NEW S \in SUBSET (1..n), S # {}
  PROVE  \E i \in S : \A j \in S : j <= i
<1> DEFINE T == {k \in Nat : \E i \in S : k = n - i}
<1>1. \A i \in S : n - i \in T
  OBVIOUS
<1>2. T # {}
  BY <1>1
<1>3. PICK k \in T : \A m \in T : k <= m
  <2>1. T \in SUBSET Nat
    OBVIOUS
  <2> HIDE DEF T
  <2> QED
    BY <1>2, <2>1, LeastExists
<1>4. PICK i \in S : k = n - i
  OBVIOUS
<1>5. ASSUME NEW j \in S PROVE j <= i
  <2>1. k <= n - j
    BY <1>1, <1>3
  <2>2. i \in 1..n /\ j \in 1..n
    OBVIOUS
  <2> QED
    BY <1>4, <2>1, <2>2
<1> QED
  BY <1>5

\* Induction up to a bound: a set that has zero, and with a number the next,
\* has them all.
LEMMA UpTo ==
  ASSUME NEW n \in Nat, NEW S, 0 \in S,
         \A i \in 1..n : i - 1 \in S => i \in S
  PROVE  \A i \in 0..n : i \in S
<1> DEFINE Bad == {i \in 0..n : i \notin S}
<1>1. Bad \in SUBSET Nat
  OBVIOUS
<1>2. Bad = {}
  <2>1. SUFFICES ASSUME Bad # {} PROVE FALSE
    OBVIOUS
  <2>2. PICK i \in Bad : \A j \in Bad : i <= j
    <3> HIDE DEF Bad
    <3> QED
      BY <1>1, <2>1, LeastExists
  <2>3. i \in 1..n /\ i \notin S
    OBVIOUS
  <2>4. i - 1 \notin Bad
    BY <2>2, <2>3
  <2>5. i - 1 \in 0..n
    BY <2>3
  <2> QED
    BY <2>3, <2>4, <2>5
<1> QED
  BY <1>2

\* An index of two sequences, one after the other, is one of the first or of
\* the second.
LEMMA IndexOfConcat ==
  ASSUME NEW m \in Nat, NEW n \in Nat, NEW i \in 1..(m + n)
  PROVE  i \in 1..m \/ \E j \in 1..n : i = m + j
<1>1. CASE i <= m
  BY <1>1
<1>2. CASE i > m
  <2>1. i - m \in 1..n /\ i = m + (i - m)
    BY <1>2
  <2> QED
    BY <2>1
<1> QED
  BY <1>1, <1>2

\* f begins with start and goes on by a step for each index.
Recursion(f, n, D, start, step) ==
  /\ f \in [0..n -> D]
  /\ f[0] = start
  /\ \A i \in 1..n : f[i] = step[i][f[i - 1]]

\* There always is such a function.
LEMMA RecursionExists ==
  ASSUME NEW n \in Nat, NEW D, NEW start \in D, NEW step, \A i \in 1..n : step[i] \in [D -> D]
  PROVE  \E f : Recursion(f, n, D, start, step)
<1> DEFINE Upto(m, f) == Recursion(f, m, D, start, step)
           S == {m \in 0..n : \E f : Upto(m, f)}
<1>1. 0 \in S
  <2>1. Upto(0, [i \in 0..0 |-> start]) /\ 0 \in 0..n
    BY DEF Recursion
  <2> HIDE DEF Upto
  <2> QED
    BY <2>1
<1>2. ASSUME NEW m \in 1..n, m - 1 \in S PROVE m \in S
  <2>1. PICK f : Upto(m - 1, f)
    BY <1>2
  <2> DEFINE g == [i \in 0..m |-> IF i = m THEN step[m][f[m - 1]] ELSE f[i]]
  <2>2. /\ f \in [0..(m - 1) -> D] /\ f[0] = start
        /\ \A i \in 1..(m - 1) : f[i] = step[i][f[i - 1]]
    BY <2>1 DEF Recursion
  <2>3. step[m][f[m - 1]] \in D
    BY <2>2
  <2>4. \A i \in 0..m : i # m => i \in 0..(m - 1)
    OBVIOUS
  <2>5. g \in [0..m -> D]
    BY <2>2, <2>3, <2>4
  <2>6. g[0] = start
    BY <2>2
  <2>7. ASSUME NEW i \in 1..m PROVE g[i] = step[i][g[i - 1]]
    <3>1. g[i - 1] = f[i - 1]
      OBVIOUS
    <3>2. CASE i = m
      <4>1. g[m] = step[m][f[m - 1]]
        OBVIOUS
      <4> HIDE DEF g
      <4> QED
        BY <3>1, <3>2, <4>1
    <3>3. CASE i # m
      <4>1. i \in 1..(m - 1) /\ g[i] = f[i]
        BY <3>3
      <4> QED
        BY <2>2, <3>1, <4>1
    <3> QED
      BY <3>2, <3>3
  <2> HIDE DEF g
  <2>8. Upto(m, g)
    BY <2>5, <2>6, <2>7 DEF Recursion
  <2>9. m \in 0..n
    OBVIOUS
  <2> HIDE DEF Upto
  <2> QED
    BY <2>8, <2>9
<1>3. n \in S
  <2>1. \A m \in 1..n : m - 1 \in S => m \in S
    BY <1>2
  <2>2. n \in 0..n
    OBVIOUS
  <2> HIDE DEF S
  <2> QED
    BY <1>1, <2>1, <2>2, UpTo
<1>4. PICK f : Upto(n, f)
  <2> HIDE DEF Upto
  <2> QED
    BY <1>3
<1> QED
  BY <1>4

\* f has nothing at k, neither f nor g has anything above it, and below it they
\* go on alike.
AlikeBut(f, g, n, k) ==
  /\ f[0] = g[0]
  /\ \A i \in 1..n : i < k /\ f[i - 1] = g[i - 1] => f[i] = g[i]
  /\ f[k] = f[k - 1]
  /\ \A i \in 1..n : i > k => f[i] = f[i - 1] /\ g[i] = g[i - 1]

DifferBy(f, g, n, k) == f[n] = f[k - 1] /\ f[k - 1] = g[k - 1] /\ g[n] = g[k]

\* Two such functions differ by what g has at k.
LEMMA OneInserted ==
  ASSUME NEW n \in Nat, NEW k \in 1..n, NEW f, NEW g, AlikeBut(f, g, n, k)
  PROVE  DifferBy(f, g, n, k)
<1> USE DEF AlikeBut, DifferBy
<1> DEFINE S == {i \in 0..n : /\ i < k => f[i] = g[i]
                              /\ i >= k => f[i] = f[k] /\ g[i] = g[k]}
<1>1. 0 \in S
  OBVIOUS
<1>2. ASSUME NEW i \in 1..n, i - 1 \in S PROVE i \in S
  <2>1. CASE i < k
    <3>1. f[i - 1] = g[i - 1]
      BY <1>2, <2>1
    <3> QED
      BY <2>1, <3>1
  <2>2. CASE i = k
    BY <2>2
  <2>3. CASE i > k
    <3>1. f[i - 1] = f[k] /\ g[i - 1] = g[k]
      BY <1>2, <2>3
    <3>2. f[i] = f[i - 1] /\ g[i] = g[i - 1]
      BY <2>3
    <3> QED
      BY <2>3, <3>1, <3>2
  <2> QED
    BY <2>1, <2>2, <2>3
<1>3. \A i \in 0..n : i \in S
  <2> HIDE DEF S
  <2> QED
    BY <1>1, <1>2, UpTo
<1>4. k - 1 \in S /\ n \in S
  BY <1>3
<1> QED
  BY <1>4
===============================================================================

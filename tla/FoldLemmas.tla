------------------------------ MODULE FoldLemmas ------------------------------
(***************************************************************************)
(* Induction over the length of a sequence, without an operator as a       *)
(* parameter. A claim about the numbers up to n is a function to BOOLEAN,  *)
(* and the step of an induction is the step from a least counterexample,   *)
(* which there is because < is well-founded on Nat. A replay of a journal, *)
(* a filter: each is a recursive function f with f[0] fixed and f[i] made  *)
(* of f[i - 1] and of the i-th element. The sum over a finite set is one   *)
(* over its subsets, which takes a member away at a time.                  *)
(***************************************************************************)
EXTENDS Naturals, Sequences, FiniteSets, FiniteSetTheorems, WellFoundedInduction, TLAPS

\* The fold of a sequence by a function of what there is and of the next element.
IsFold(f, base, g, list) ==
  /\ DOMAIN f = 0 .. Len(list) /\ f[0] = base
  /\ \A i \in 1 .. Len(list) : f[i] = g[<<f[i - 1], list[i]>>]

\* A set of numbers that is not empty has a least one.
LEMMA LeastOf ==
  ASSUME NEW N \in SUBSET Nat, N # {}
  PROVE  \E m \in N : \A k \in N : m <= k
<1>1. PICK m \in N : \A k \in N : ~(<<k, m>> \in OpToRel(<, Nat))
  BY NatLessThanWellFounded, WFMin
<1>2. ASSUME NEW k \in N, k < m PROVE FALSE
  <2>1. <<k, m>> \in Nat \X Nat /\ <<k, m>>[1] < <<k, m>>[2]
    BY <1>2
  <2> QED
    BY <1>1, <2>1 DEF OpToRel
<1> QED
  BY <1>2

\* Every sequence has a fold.
LEMMA FoldExists ==
  ASSUME NEW T, NEW E, NEW base \in T, NEW g \in [T \X E -> T], NEW list \in Seq(E)
  PROVE  \E f \in [0 .. Len(list) -> T] : IsFold(f, base, g, list)
<1> DEFINE Folds(k) == {f \in [0 .. k -> T] : f[0] = base /\ \A i \in 1 .. k : f[i] = g[<<f[i - 1], list[i]>>]}
           Bad == {k \in 0 .. Len(list) : Folds(k) = {}}
<1>1. Bad \in SUBSET Nat /\ Len(list) \in Nat
  OBVIOUS
<1>2. ASSUME Bad # {} PROVE FALSE
  <2>1. PICK m \in Bad : \A k \in Bad : m <= k
    BY <1>1, <1>2, LeastOf
  <2>2. CASE m = 0
    <3>1. [i \in 0 .. 0 |-> base] \in Folds(0)
      OBVIOUS
    <3> QED
      BY <2>1, <2>2, <3>1
  <2>3. CASE m # 0
    <3>1. m \in Nat /\ m - 1 \in 0 .. Len(list) /\ m \in 1 .. Len(list) /\ ~(m <= m - 1)
      BY <2>1, <2>3, <1>1
    <3>2. m - 1 \notin Bad
      BY <2>1, <3>1
    <3>3. PICK f \in Folds(m - 1) : TRUE
      BY <3>1, <3>2
    <3>4. list[m] \in E /\ f[m - 1] \in T
      BY <3>1, <3>3
    <3>5. g[<<f[m - 1], list[m]>>] \in T
      BY <3>4
    <3> DEFINE h == [i \in 0 .. m |-> IF i = m THEN g[<<f[m - 1], list[m]>>] ELSE f[i]]
    <3>6. h \in [0 .. m -> T]
      BY <3>1, <3>3, <3>5
    <3>7. h[0] = base
      BY <3>1, <3>3
    <3>8. ASSUME NEW i \in 1 .. m PROVE h[i] = g[<<h[i - 1], list[i]>>]
      <4>1. i \in 0 .. m /\ i - 1 \in 0 .. m /\ i - 1 # m /\ h[i - 1] = f[i - 1]
        BY <3>1
      <4>2. CASE i = m
        BY <4>1, <4>2
      <4>3. CASE i # m
        <5>1. i \in 1 .. m - 1 /\ h[i] = f[i]
          BY <4>1, <4>3, <3>1
        <5> QED
          BY <5>1, <4>1, <3>3
      <4> QED
        BY <4>2, <4>3
    <3>9. h \in Folds(m)
      BY <3>6, <3>7, <3>8
    <3> QED
      BY <2>1, <3>9
  <2> QED
    BY <2>2, <2>3
<1>3. PICK f \in Folds(Len(list)) : TRUE
  BY <1>1, <1>2
<1> QED
  BY <1>3 DEF IsFold

\* What holds of 0 and passes from each number to the next holds of all up to n.
LEMMA UpTo ==
  ASSUME NEW n \in Nat, NEW P, P[0], \A i \in 1 .. n : P[i - 1] => P[i]
  PROVE  \A i \in 0 .. n : P[i]
<1> DEFINE Bad == {i \in 0 .. n : ~P[i]}
<1>1. ASSUME Bad # {} PROVE FALSE
  <2>1. Bad \in SUBSET Nat
    OBVIOUS
  <2>2. PICK m \in Bad : \A i \in Bad : m <= i
    BY <1>1, <2>1, LeastOf
  <2>3. m \in 1 .. n /\ m - 1 \in 0 .. n /\ ~(m <= m - 1)
    BY <2>2
  <2>4. P[m - 1]
    BY <2>2, <2>3
  <2> QED
    BY <2>2, <2>3, <2>4
<1> QED
  BY <1>1

\* Two recursive functions that begin alike and go on alike are one.
LEMMA OneFunction ==
  ASSUME NEW n \in Nat, NEW f, NEW k,
         f = [i \in 0 .. n |-> f[i]], k = [i \in 0 .. n |-> k[i]],
         f[0] = k[0], \A i \in 1 .. n : f[i - 1] = k[i - 1] => f[i] = k[i]
  PROVE  k = f
<1> DEFINE P == [i \in 0 .. n |-> f[i] = k[i]]
<1>1. P[0] /\ \A i \in 1 .. n : P[i - 1] => P[i]
  <2>1. ASSUME NEW i \in 1 .. n, P[i - 1] PROVE P[i]
    <3>1. i - 1 \in 0 .. n /\ i \in 0 .. n
      OBVIOUS
    <3> QED
      BY <2>1, <3>1
  <2>2. P[0]
    <3>1. 0 \in 0 .. n
      OBVIOUS
    <3>2. P[0] = (f[0] = k[0])
      BY <3>1, Zenon
    <3> QED
      BY <3>2
  <2> QED
    BY <2>1, <2>2
<1> HIDE DEF P
<1>2. \A i \in 0 .. n : P[i]
  BY <1>1, UpTo
<1>3. \A i \in 0 .. n : f[i] = k[i]
  BY <1>2 DEF P
<1> QED
  BY <1>3

\* The sum of what f gives for the members of a set, over all subsets of S: the function that the sums of
\* FiniteSetsExt are.
Choice(s) == CHOOSE x \in s : TRUE
IsSum(g, f, S) == g = [s \in SUBSET S |-> IF s = {} THEN 0 ELSE f[Choice(s)] + g[s \ {Choice(s)}]]
\* The sum over the whole set.
Total(f, S) == (CHOOSE g : IsSum(g, f, S))[S]

\* A set without one of its members is smaller by one.
LEMMA Smaller ==
  ASSUME NEW S, IsFiniteSet(S), NEW s \in SUBSET S, s # {}
  PROVE  /\ Choice(s) \in s /\ s \ {Choice(s)} \in SUBSET S
         /\ Cardinality(s) \in Nat /\ Cardinality(s \ {Choice(s)}) = Cardinality(s) - 1
         /\ Cardinality(s) # 0 /\ Cardinality(s) <= Cardinality(S)
<1>1. Choice(s) \in s
  BY DEF Choice
<1>2. IsFiniteSet(s) /\ Cardinality(s) <= Cardinality(S)
  BY FS_Subset
<1>3. Cardinality(s) \in Nat
  BY <1>2, FS_CardinalityType
<1>4. Cardinality(s) # 0
  BY <1>2, FS_EmptySet
<1>5. Cardinality(s \ {Choice(s)}) = Cardinality(s) - 1
  BY <1>1, <1>2, FS_RemoveElement
<1> QED
  BY <1>1, <1>2, <1>3, <1>4, <1>5

\* Every finite set of numbers has a sum.
LEMMA SumExists ==
  ASSUME NEW S, IsFiniteSet(S), NEW f, \A x \in S : f[x] \in Nat
  PROVE  \E g : IsSum(g, f, S)
<1> DEFINE Small(n) == {s \in SUBSET S : Cardinality(s) <= n}
           Sums(n) == {g \in [Small(n) -> Nat] :
                         \A s \in Small(n) : g[s] = IF s = {} THEN 0 ELSE f[Choice(s)] + g[s \ {Choice(s)}]}
           P == [n \in 0 .. Cardinality(S) |-> Sums(n) # {}]
<1>1. Cardinality(S) \in Nat /\ Cardinality({}) = 0
  BY FS_CardinalityType, FS_EmptySet
<1>2. Sums(0) # {}
  <2>1. ASSUME NEW s \in Small(0) PROVE s = {}
    <3>1. ASSUME s # {} PROVE FALSE
      <4>1. Cardinality(s) \in Nat /\ Cardinality(s) # 0 /\ Cardinality(s) <= 0
        BY <2>1, <3>1, Smaller
      <4> QED
        BY <4>1
    <3> QED
      BY <3>1
  <2> DEFINE g == [s \in Small(0) |-> 0]
  <2>2. g \in [Small(0) -> Nat] /\ \A s \in Small(0) : g[s] = 0
    OBVIOUS
  <2> HIDE DEF g, Small
  <2> QED
    BY <2>1, <2>2
<1>3. ASSUME NEW n \in 1 .. Cardinality(S), Sums(n - 1) # {} PROVE Sums(n) # {}
  <2>1. PICK g \in Sums(n - 1) : TRUE
    BY <1>3
  <2>2. g \in [Small(n - 1) -> Nat]
        /\ \A s \in Small(n - 1) : g[s] = IF s = {} THEN 0 ELSE f[Choice(s)] + g[s \ {Choice(s)}]
    BY <2>1
  <2> DEFINE h == [s \in Small(n) |-> IF s = {} THEN 0 ELSE f[Choice(s)] + g[s \ {Choice(s)}]]
  <2>3. ASSUME NEW s \in Small(n), s # {}
        PROVE  Choice(s) \in S /\ s \ {Choice(s)} \in Small(n - 1)
    <3>1. /\ Choice(s) \in s /\ s \ {Choice(s)} \in SUBSET S /\ Cardinality(s) \in Nat
          /\ Cardinality(s \ {Choice(s)}) = Cardinality(s) - 1 /\ Cardinality(s) <= n /\ n \in Nat
      BY <1>1, <2>3, Smaller
    <3>2. Cardinality(s) - 1 <= n - 1
      BY <3>1
    <3> QED
      BY <3>1, <3>2
  <2>4. ASSUME NEW s \in Small(n - 1) PROVE s \in Small(n)
    <3>1. s \in SUBSET S /\ Cardinality(s) <= n - 1 /\ n \in Nat
      BY <1>1
    <3>2. Cardinality(s) \in Nat
      BY <3>1, FS_Subset, FS_CardinalityType
    <3> QED
      BY <3>1, <3>2
  <2> HIDE DEF Small
  <2>5. h \in [Small(n) -> Nat]
    BY <2>2, <2>3
  <2>6. ASSUME NEW s \in Small(n - 1) PROVE h[s] = g[s]
    BY <2>2, <2>4
  <2>7. ASSUME NEW s \in Small(n)
        PROVE  h[s] = IF s = {} THEN 0 ELSE f[Choice(s)] + h[s \ {Choice(s)}]
    BY <2>3, <2>6
  <2>8. h \in Sums(n)
    BY <2>5, <2>7
  <2> QED
    BY <2>8
<1>4. 0 \in 0 .. Cardinality(S) /\ \A n \in 1 .. Cardinality(S) : n \in 0 .. Cardinality(S) /\ n - 1 \in 0 .. Cardinality(S)
  BY <1>1
<1> HIDE DEF Sums, Small
<1>5. P[0] /\ \A n \in 1 .. Cardinality(S) : P[n - 1] => P[n]
  BY <1>2, <1>3, <1>4
<1>6. P[Cardinality(S)]
  <2> HIDE DEF P
  <2>1. \A n \in 0 .. Cardinality(S) : P[n]
    BY <1>1, <1>5, UpTo
  <2> QED
    BY <1>1, <2>1
<1>7. Sums(Cardinality(S)) # {}
  <2>1. Cardinality(S) \in 0 .. Cardinality(S)
    BY <1>1
  <2>2. P[Cardinality(S)] = (Sums(Cardinality(S)) # {})
    BY <2>1, Zenon
  <2> HIDE DEF P
  <2> QED
    BY <1>6, <2>2, Zenon
<1>8. Small(Cardinality(S)) = SUBSET S
  BY FS_Subset DEF Small
<1>9. PICK g \in [SUBSET S -> Nat] : \A s \in SUBSET S : g[s] = IF s = {} THEN 0 ELSE f[Choice(s)] + g[s \ {Choice(s)}]
  BY <1>7, <1>8 DEF Sums
<1>10. g = [s \in SUBSET S |-> IF s = {} THEN 0 ELSE f[Choice(s)] + g[s \ {Choice(s)}]]
  BY <1>9
<1> QED
  BY <1>10 DEF IsSum

\* Two sums of numbers that differ in one place differ as these do; a sum is a number.
LEMMA SumStep ==
  ASSUME NEW S, IsFiniteSet(S), NEW f, NEW h, NEW x, NEW d \in Nat,
         \A y \in S : f[y] \in Nat /\ h[y] = f[y] + (IF y = x THEN d ELSE 0),
         NEW g, IsSum(g, f, S), NEW k, IsSum(k, h, S)
  PROVE  g[S] \in Nat /\ k[S] = g[S] + (IF x \in S THEN d ELSE 0)
<1> DEFINE Small(n) == {s \in SUBSET S : Cardinality(s) <= n}
           P == [n \in 0 .. Cardinality(S) |->
                   \A s \in Small(n) : g[s] \in Nat /\ k[s] = g[s] + (IF x \in s THEN d ELSE 0)]
<1>1. Cardinality(S) \in Nat
  BY FS_CardinalityType
<1>2. \A s \in SUBSET S : /\ g[s] = IF s = {} THEN 0 ELSE f[Choice(s)] + g[s \ {Choice(s)}]
                          /\ k[s] = IF s = {} THEN 0 ELSE h[Choice(s)] + k[s \ {Choice(s)}]
  BY DEF IsSum
<1>0. g[{}] = 0 /\ k[{}] = 0
  <2>1. {} \in SUBSET S
    OBVIOUS
  <2> QED
    BY <1>2, <2>1
<1>3. ASSUME NEW s \in Small(0) PROVE s = {}
  <2>1. ASSUME s # {} PROVE FALSE
    <3>1. Cardinality(s) \in Nat /\ Cardinality(s) # 0 /\ Cardinality(s) <= 0
      BY <1>3, <2>1, Smaller
    <3> QED
      BY <3>1
  <2> QED
    BY <2>1
<1>4. ASSUME NEW n \in 1 .. Cardinality(S),
             \A s \in Small(n - 1) : g[s] \in Nat /\ k[s] = g[s] + (IF x \in s THEN d ELSE 0)
      PROVE  \A s \in Small(n) : g[s] \in Nat /\ k[s] = g[s] + (IF x \in s THEN d ELSE 0)
  <2> SUFFICES ASSUME NEW s \in Small(n) PROVE g[s] \in Nat /\ k[s] = g[s] + (IF x \in s THEN d ELSE 0)
    OBVIOUS
  <2>1. CASE s = {}
    BY <1>0, <2>1
  <2>2. CASE s # {}
    <3> DEFINE c == Choice(s)
               r == s \ {Choice(s)}
    <3>1. /\ c \in s /\ r \in SUBSET S /\ Cardinality(s) \in Nat
          /\ Cardinality(r) = Cardinality(s) - 1 /\ Cardinality(s) <= n /\ n \in Nat
      BY <1>1, <2>2, Smaller
    <3>2. r \in Small(n - 1)
      <4>1. Cardinality(s) - 1 <= n - 1
        BY <3>1
      <4> QED
        BY <3>1, <4>1
    <3>3. g[s] = f[c] + g[r] /\ k[s] = h[c] + k[r]
      BY <1>2, <2>2
    <3>4. g[r] \in Nat /\ k[r] = g[r] + (IF x \in r THEN d ELSE 0)
      BY <1>4, <3>2
    <3>5. f[c] \in Nat /\ h[c] = f[c] + (IF c = x THEN d ELSE 0)
      BY <3>1
    <3>6. (x \in s <=> c = x \/ x \in r) /\ ~(c = x /\ x \in r)
      BY <3>1
    <3> HIDE DEF c, r
    <3>7. CASE c = x
      <4>1. x \in s /\ x \notin r
        BY <3>6, <3>7
      <4> QED
        BY <3>3, <3>4, <3>5, <3>7, <4>1
    <3>8. CASE c # x
      <4>1. x \in s <=> x \in r
        BY <3>6, <3>8
      <4> QED
        BY <3>3, <3>4, <3>5, <3>8, <4>1
    <3> QED
      BY <3>7, <3>8
  <2> QED
    BY <2>1, <2>2
<1>5. \A s \in Small(0) : g[s] \in Nat /\ k[s] = g[s] + (IF x \in s THEN d ELSE 0)
  <2>1. ASSUME NEW s \in Small(0) PROVE g[s] = 0 /\ k[s] = 0 /\ x \notin s
    <3>1. s = {}
      BY <1>3
    <3> QED
      BY <1>0, <3>1
  <2> QED
    BY <2>1
<1>6. 0 \in 0 .. Cardinality(S) /\ \A n \in 1 .. Cardinality(S) : n \in 0 .. Cardinality(S) /\ n - 1 \in 0 .. Cardinality(S)
  BY <1>1
<1> DEFINE Good(n) == \A s \in Small(n) : g[s] \in Nat /\ k[s] = g[s] + (IF x \in s THEN d ELSE 0)
<1>7. P[0] /\ \A n \in 1 .. Cardinality(S) : P[n - 1] => P[n]
  <2>1. Good(0) /\ \A n \in 1 .. Cardinality(S) : Good(n - 1) => Good(n)
    BY <1>4, <1>5
  <2>2. P = [n \in 0 .. Cardinality(S) |-> Good(n)]
    OBVIOUS
  <2> HIDE DEF P, Good
  <2> QED
    BY <1>6, <2>1, <2>2
<1>8. Good(Cardinality(S))
  <2>1. P = [n \in 0 .. Cardinality(S) |-> Good(n)]
    OBVIOUS
  <2> HIDE DEF P, Good
  <2>2. \A n \in 0 .. Cardinality(S) : P[n]
    BY <1>1, <1>7, UpTo
  <2> QED
    BY <1>1, <2>1, <2>2
<1>9. S \in Small(Cardinality(S))
  BY <1>1
<1> QED
  BY <1>8, <1>9

\* The sum over the whole set is what every such function gives for it.
LEMMA TotalIs ==
  ASSUME NEW S, IsFiniteSet(S), NEW f, \A y \in S : f[y] \in Nat, NEW g, IsSum(g, f, S)
  PROVE  g[S] = Total(f, S) /\ Total(f, S) \in Nat
<1> DEFINE k == CHOOSE k : IsSum(k, f, S)
<1>1. IsSum(k, f, S)
  OBVIOUS
<1>2. \A y \in S : f[y] \in Nat /\ f[y] = f[y] + (IF y = S THEN 0 ELSE 0)
  OBVIOUS
<1>3. Total(f, S) = k[S]
  BY DEF Total
<1> HIDE DEF k
<1>4. g[S] \in Nat /\ k[S] = g[S] + (IF S \in S THEN 0 ELSE 0)
  <2>1. 0 \in Nat
    OBVIOUS
  <2>2. PICK zero \in Nat : zero = 0
    BY <2>1
  <2>3. \A y \in S : f[y] \in Nat /\ f[y] = f[y] + (IF y = S THEN zero ELSE 0)
    BY <1>2, <2>2
  <2>4. g[S] \in Nat /\ k[S] = g[S] + (IF S \in S THEN zero ELSE 0)
    BY <1>1, <2>3, SumStep
  <2> QED
    BY <2>2, <2>4
<1> QED
  BY <1>3, <1>4

\* The sum follows one of the numbers.
LEMMA TotalStep ==
  ASSUME NEW S, IsFiniteSet(S), NEW f, NEW h, NEW x, NEW d \in Nat,
         \A y \in S : f[y] \in Nat /\ h[y] = f[y] + (IF y = x THEN d ELSE 0)
  PROVE  Total(f, S) \in Nat /\ Total(h, S) = Total(f, S) + (IF x \in S THEN d ELSE 0)
<1>1. PICK g : IsSum(g, f, S)
  BY SumExists
<1>2. \A y \in S : h[y] \in Nat
  OBVIOUS
<1>3. PICK k : IsSum(k, h, S)
  BY <1>2, SumExists
<1>4. g[S] \in Nat /\ k[S] = g[S] + (IF x \in S THEN d ELSE 0)
  BY <1>1, <1>3, SumStep
<1> QED
  BY <1>1, <1>2, <1>3, <1>4, TotalIs

\* The sum of nothing but zeros is zero.
LEMMA TotalZero ==
  ASSUME NEW S, IsFiniteSet(S), NEW f, \A y \in S : f[y] = 0
  PROVE  Total(f, S) = 0
<1> DEFINE g == [s \in SUBSET S |-> 0]
<1>1. ASSUME NEW s \in SUBSET S
      PROVE  0 = IF s = {} THEN 0 ELSE f[Choice(s)] + g[s \ {Choice(s)}]
  <2>1. CASE s # {}
    <3>1. Choice(s) \in S /\ s \ {Choice(s)} \in SUBSET S
      BY <2>1 DEF Choice
    <3>2. f[Choice(s)] = 0 /\ g[s \ {Choice(s)}] = 0
      BY <3>1
    <3> QED
      BY <3>2
  <2> QED
    BY <2>1
<1>2. g = [s \in SUBSET S |-> IF s = {} THEN 0 ELSE f[Choice(s)] + g[s \ {Choice(s)}]]
  BY <1>1
<1>3. g[S] = 0
  OBVIOUS
<1> HIDE DEF g
<1>4. IsSum(g, f, S)
  BY <1>2 DEF IsSum
<1> QED
  BY <1>3, <1>4, TotalIs

===============================================================================

------------------------------ MODULE ListLemmas ------------------------------
(***************************************************************************)
(* Facts about the operators that the modules of a discovery run are built *)
(* from: the first element of a set under an order, the list of a set in   *)
(* order, and sequences that are joined or folded.                         *)
(*                                                                         *)
(* Orders are sets of pairs, and what is shown of every number is a set of *)
(* numbers that is shown to be all of them: the induction theorems of the  *)
(* library take operators, which a lemma cannot be given.                  *)
(***************************************************************************)
EXTENDS Integers, SequencesExt, FiniteSetTheorems, WellFoundedInduction, TLAPS

-----------------------------------------------------------------------------
(* Natural numbers *)

\* A set of natural numbers has a least element.
LEMMA LeastNumber ==
  ASSUME NEW T \in SUBSET Nat, T # {}
  PROVE  \E n \in T : \A m \in T : n <= m
<1>1. PICK x \in T : \A y \in T : <<y, x>> \notin OpToRel(<, Nat)
  BY NatLessThanWellFounded, WFMin, Zenon
<1>2. \A y \in T : ~(y < x)
  BY <1>1, Zenon DEF OpToRel
<1> QED BY <1>2

\* Induction up to n: what holds of 0, and of the successor of what it holds
\* of, is all of 0..n.
LEMMA Upwards ==
  ASSUME NEW n \in Nat, NEW T, 0 \in T, \A i \in 0..(n - 1) : i \in T => i + 1 \in T
  PROVE  \A i \in 0..n : i \in T
<1> DEFINE Out == {i \in 0..n : i \notin T}
<1> SUFFICES ASSUME Out # {} PROVE FALSE
  OBVIOUS
<1>0. Out \in SUBSET Nat
  OBVIOUS
<1>1. PICK i \in Out : \A j \in Out : i <= j
  <2> HIDE DEF Out
  <2> QED BY <1>0, LeastNumber
<1>2. i \in 0..n /\ i \notin T /\ i # 0
  OBVIOUS
<1>3. i - 1 \in 0..(n - 1) /\ (i - 1) + 1 = i /\ i - 1 \notin Out
  BY <1>1, <1>2
<1>4. i - 1 \in T
  BY <1>3
<1> QED BY <1>2, <1>3, <1>4

\* The least and the greatest number of a set of places of a sequence.
LEMMA MinPlace ==
  ASSUME NEW S \in SUBSET Nat, S # {}
  PROVE  Min(S) \in S /\ \A y \in S : Min(S) <= y
BY LeastNumber DEF Min

LEMMA MaxPlace ==
  ASSUME NEW n \in Nat, NEW S \in SUBSET (0..n), S # {}
  PROVE  Max(S) \in S /\ \A y \in S : Max(S) >= y
<1> DEFINE T == {n - y : y \in S}
<1>1. T \in SUBSET Nat /\ T # {}
  <2>1. \A y \in S : y \in 0..n /\ n - y \in Nat
    OBVIOUS
  <2> QED BY <2>1
<1>2. PICK d \in T : \A e \in T : d <= e
  BY <1>1, LeastNumber
<1>3. PICK x \in S : d = n - x
  OBVIOUS
<1>4. \A y \in S : x >= y
  <2> TAKE y \in S
  <2>1. d <= n - y
    BY <1>2
  <2> QED BY <1>3, <2>1
<1> QED BY <1>4 DEF Max

-----------------------------------------------------------------------------
(* Orders *)

\* R orders S strictly and totally.
StrictOrder(S, R) ==
  /\ \A x \in S : <<x, x>> \notin R
  /\ \A x, y \in S : x # y => <<x, y>> \in R \/ <<y, x>> \in R
  /\ \A x, y, z \in S : <<x, y>> \in R /\ <<y, z>> \in R => <<x, z>> \in R

Before(S, R, x) == {y \in S : <<y, x>> \in R}

\* What comes before x is among what comes before any later y, and less.
LEMMA FewerBefore ==
  ASSUME NEW S, IsFiniteSet(S), NEW R, StrictOrder(S, R), NEW x \in S, NEW y \in S, <<x, y>> \in R
  PROVE  Cardinality(Before(S, R, x)) < Cardinality(Before(S, R, y))
<1>1. Before(S, R, x) \subseteq Before(S, R, y)
  BY DEF StrictOrder, Before
<1>2. x \in Before(S, R, y) /\ x \notin Before(S, R, x)
  BY DEF StrictOrder, Before
<1>3. IsFiniteSet(Before(S, R, y)) /\ IsFiniteSet(Before(S, R, x))
  BY FS_Subset DEF Before
<1>4. Cardinality(Before(S, R, x)) <= Cardinality(Before(S, R, y))
      /\ Cardinality(Before(S, R, x)) # Cardinality(Before(S, R, y))
  BY <1>1, <1>2, <1>3, FS_Subset
<1>5. Cardinality(Before(S, R, x)) \in Nat /\ Cardinality(Before(S, R, y)) \in Nat
  BY <1>3, FS_CardinalityType
<1> QED BY <1>4, <1>5

\* A finite set has a first element and a last one.
LEMMA FirstExists ==
  ASSUME NEW S, IsFiniteSet(S), S # {}, NEW R, StrictOrder(S, R)
  PROVE  \E x \in S : \A y \in S \ {x} : <<x, y>> \in R
<1> DEFINE T == {Cardinality(Before(S, R, x)) : x \in S}
<1>1. \A x \in S : Cardinality(Before(S, R, x)) \in Nat
  BY FS_Subset, FS_CardinalityType DEF Before
<1>2. T \in SUBSET Nat /\ T # {}
  BY <1>1
<1>3. PICK n \in T : \A m \in T : n <= m
  BY <1>2, LeastNumber
<1>4. PICK x \in S : n = Cardinality(Before(S, R, x))
  OBVIOUS
<1>5. ASSUME NEW y \in S \ {x} PROVE <<x, y>> \in R
  <2> SUFFICES ASSUME <<x, y>> \notin R PROVE FALSE
    OBVIOUS
  <2>1. <<y, x>> \in R
    BY DEF StrictOrder
  <2>2. Cardinality(Before(S, R, y)) < n
    BY <1>4, <2>1, FewerBefore
  <2>3. n <= Cardinality(Before(S, R, y))
    BY <1>3
  <2> QED BY <1>1, <1>4, <2>2, <2>3
<1> QED BY <1>5

LEMMA LastExists ==
  ASSUME NEW S, IsFiniteSet(S), S # {}, NEW R, StrictOrder(S, R)
  PROVE  \E x \in S : \A y \in S \ {x} : <<y, x>> \in R
<1> DEFINE Q == {p \in S \X S : <<p[2], p[1]>> \in R}
<1>1. \A x, y \in S : <<x, y>> \in Q <=> <<y, x>> \in R
  OBVIOUS
<1> HIDE DEF Q
<1>2. StrictOrder(S, Q)
  BY <1>1 DEF StrictOrder
<1>3. PICK x \in S : \A y \in S \ {x} : <<x, y>> \in Q
  BY <1>2, FirstExists
<1> QED BY <1>1, <1>3

\* Each place of the list of a set has one element, and each element a place.
LEMMA PlaceExists ==
  ASSUME NEW S, IsFiniteSet(S), NEW R, StrictOrder(S, R)
  PROVE  /\ \A x \in S : Cardinality(Before(S, R, x)) + 1 \in 1..Cardinality(S)
         /\ \A i \in 1..Cardinality(S) : \E x \in S : Cardinality(Before(S, R, x)) = i - 1
         /\ \A x, y \in S : Cardinality(Before(S, R, x)) = Cardinality(Before(S, R, y)) => x = y
<1> DEFINE n == Cardinality(S)
           f == [x \in S |-> Cardinality(Before(S, R, x)) + 1]
<1>1. n \in Nat
  BY FS_CardinalityType
<1>2. ASSUME NEW x \in S
      PROVE  Cardinality(Before(S, R, x)) \in Nat /\ Cardinality(Before(S, R, x)) + 1 \in 1..n
  <2>1. Before(S, R, x) \subseteq S /\ x \notin Before(S, R, x)
    BY DEF Before, StrictOrder
  <2>2. IsFiniteSet(Before(S, R, x)) /\ Cardinality(Before(S, R, x)) <= n
        /\ Cardinality(Before(S, R, x)) # n
    BY <2>1, FS_Subset
  <2>3. Cardinality(Before(S, R, x)) \in Nat
    BY <2>2, FS_CardinalityType
  <2> QED BY <1>1, <2>2, <2>3
<1>3. ASSUME NEW x \in S, NEW y \in S, Cardinality(Before(S, R, x)) = Cardinality(Before(S, R, y))
      PROVE  x = y
  <2> SUFFICES ASSUME x # y PROVE FALSE
    OBVIOUS
  <2>1. <<x, y>> \in R \/ <<y, x>> \in R
    BY DEF StrictOrder
  <2>2. Cardinality(Before(S, R, x)) < Cardinality(Before(S, R, y))
        \/ Cardinality(Before(S, R, y)) < Cardinality(Before(S, R, x))
    BY <2>1, FewerBefore
  <2> QED BY <1>2, <1>3, <2>2
<1>4. f \in Injection(S, 1..n)
  <2>1. f \in [S -> 1..n]
    BY <1>2
  <2>2. \A x, y \in S : f[x] = f[y] => x = y
    BY <1>2, <1>3
  <2> QED BY <2>1, <2>2, Zenon DEF Injection, IsInjective
<1>5. IsFiniteSet(1..n) /\ Cardinality(1..n) = n
  BY <1>1, FS_Interval
<1>6. f \in Surjection(S, 1..n)
  BY <1>4, <1>5, FS_Injection, Zenon
<1>7. ASSUME NEW i \in 1..n PROVE \E x \in S : Cardinality(Before(S, R, x)) = i - 1
  <2>1. PICK x \in S : f[x] = i
    BY <1>6, Zenon DEF Surjection
  <2> QED BY <1>1, <1>2, <2>1
<1> QED BY <1>2, <1>3, <1>7

\* A sequence with each element at its place lists the set.
LEMMA ListRange ==
  ASSUME NEW S, IsFiniteSet(S), NEW R, StrictOrder(S, R),
         NEW s, s \in [1..Cardinality(S) -> S],
         \A i \in 1..Cardinality(S) : Cardinality(Before(S, R, s[i])) = i - 1
  PROVE  s \in Seq(S) /\ ToSet(s) = S
<1>1. Cardinality(S) \in Nat
  BY FS_CardinalityType
<1>2. s \in Seq(S)
  BY <1>1
<1>3. ASSUME NEW x \in S PROVE x \in ToSet(s)
  <2>1. PICK i \in 1..Cardinality(S) : i = Cardinality(Before(S, R, x)) + 1
    BY PlaceExists
  <2>2. IsFiniteSet(Before(S, R, x))
    BY FS_Subset DEF Before
  <2>3. Cardinality(Before(S, R, x)) \in Nat
    BY <2>2, FS_CardinalityType
  <2>4. Cardinality(Before(S, R, s[i])) = Cardinality(Before(S, R, x)) /\ s[i] \in S
    BY <2>1, <2>3
  <2>5. s[i] = x
    BY <2>4, PlaceExists
  <2> QED BY <2>1, <2>5 DEF ToSet
<1>4. ToSet(s) \subseteq S
  BY DEF ToSet
<1> QED BY <1>2, <1>3, <1>4

\* The larger number first, and Q where the numbers are equal.
LEMMA Lexicographic ==
  ASSUME NEW S, NEW a \in [S -> Nat], NEW Q, StrictOrder(S, Q), NEW R,
         \A x, y \in S : <<x, y>> \in R <=> a[x] > a[y] \/ (a[x] = a[y] /\ <<x, y>> \in Q)
  PROVE  StrictOrder(S, R)
<1>1. \A x \in S : a[x] \in Nat
  OBVIOUS
<1>2. ASSUME NEW x \in S PROVE <<x, x>> \notin R
  <2>1. <<x, x>> \notin Q
    BY DEF StrictOrder
  <2>2. a[x] \in Nat /\ (<<x, x>> \in R <=> a[x] > a[x] \/ (a[x] = a[x] /\ <<x, x>> \in Q))
    BY <1>1
  <2> QED BY <2>1, <2>2
<1>3. ASSUME NEW x \in S, NEW y \in S, x # y PROVE <<x, y>> \in R \/ <<y, x>> \in R
  <2>1. <<x, y>> \in Q \/ <<y, x>> \in Q
    BY <1>3 DEF StrictOrder
  <2>2. a[x] > a[y] \/ a[y] > a[x] \/ a[x] = a[y]
    BY <1>1
  <2> QED BY <2>1, <2>2
<1>4. ASSUME NEW x \in S, NEW y \in S, NEW z \in S, <<x, y>> \in R, <<y, z>> \in R
      PROVE  <<x, z>> \in R
  <2>1. a[x] >= a[y] /\ a[y] >= a[z]
    BY <1>1, <1>4
  <2>2. CASE a[x] > a[z]
    BY <2>2
  <2>3. CASE ~(a[x] > a[z])
    <3>1. a[x] = a[y] /\ a[y] = a[z]
      BY <1>1, <2>1, <2>3
    <3>2. <<x, y>> \in Q /\ <<y, z>> \in Q
      BY <1>1, <1>4, <3>1
    <3> QED BY <3>1, <3>2 DEF StrictOrder
  <2> QED BY <2>2, <2>3
<1> QED BY <1>2, <1>3, <1>4 DEF StrictOrder

\* The smaller of numbers that tell the elements apart.
LEMMA ByNumber ==
  ASSUME NEW S, NEW a \in [S -> Nat], \A x, y \in S : a[x] = a[y] => x = y, NEW R,
         \A x, y \in S : <<x, y>> \in R <=> a[x] < a[y]
  PROVE  StrictOrder(S, R)
<1>1. \A x \in S : a[x] \in Nat
  OBVIOUS
<1>2. ASSUME NEW x \in S, NEW y \in S, x # y PROVE <<x, y>> \in R \/ <<y, x>> \in R
  <2>1. a[x] # a[y] BY <1>2
  <2>2. a[x] < a[y] \/ a[y] < a[x] BY <1>1, <2>1
  <2> QED BY <2>2
<1>3. \A x \in S : <<x, x>> \notin R
  BY <1>1
<1>4. ASSUME NEW x \in S, NEW y \in S, NEW z \in S, <<x, y>> \in R, <<y, z>> \in R
      PROVE  <<x, z>> \in R
  <2>1. a[x] < a[y] /\ a[y] < a[z] BY <1>4
  <2>2. a[x] < a[z] BY <1>1, <2>1
  <2> QED BY <2>2
<1> QED BY <1>2, <1>3, <1>4 DEF StrictOrder

-----------------------------------------------------------------------------
(* Finite sets *)

LEMMA FiniteImage ==
  ASSUME NEW S, IsFiniteSet(S), NEW f
  PROVE  IsFiniteSet({f[x] : x \in S})
<1> DEFINE T == {f[x] : x \in S}
           g == [x \in S |-> f[x]]
<1>1. g \in [S -> T] /\ \A y \in T : \E x \in S : g[x] = y
  OBVIOUS
<1>2. g \in Surjection(S, T)
  <2> HIDE DEF T, g
  <2> QED BY <1>1, Zenon DEF Surjection
<1> HIDE DEF T, g
<1>3. IsFiniteSet(T)
  BY <1>2, FS_Surjection, Zenon
<1> QED BY <1>3 DEF T

LEMMA FiniteUnion ==
  ASSUME NEW S, IsFiniteSet(S), NEW f, \A x \in S : IsFiniteSet(f[x])
  PROVE  IsFiniteSet(UNION {f[x] : x \in S})
<1>1. IsFiniteSet({f[x] : x \in S})
  BY FiniteImage
<1>2. \A y \in {f[x] : x \in S} : IsFiniteSet(y)
  OBVIOUS
<1> QED BY <1>1, <1>2, FS_UNION

\* Records that their codes tell apart are finitely many if the codes are.
LEMMA FiniteByCode ==
  ASSUME NEW S, NEW K, IsFiniteSet(K), \A x \in S : x.code \in K,
         \A x, y \in S : x.code = y.code => x = y
  PROVE  IsFiniteSet(S)
<1> DEFINE f == [x \in S |-> x.code]
<1>1. f \in [S -> K] /\ \A x, y \in S : f[x] = f[y] => x = y
  OBVIOUS
<1>2. f \in Injection(S, K)
  <2> HIDE DEF f
  <2> QED BY <1>1, Zenon DEF Injection, IsInjective
<1> QED BY <1>2, FS_Injection, Zenon

-----------------------------------------------------------------------------
(* Recursive functions over the places of a sequence *)

\* The i-th step F[i] leads from V to V.
Closed(F, n, V) == \A i \in 1..n, v \in V : F[i][v] \in V

\* g goes from b by the steps of F.
Follows(g, F, n, b) == g[0] = b /\ \A i \in 1..n : g[i] = F[i][g[i - 1]]

\* A function that goes from each value to the next exists.
LEMMA FoldExists ==
  ASSUME NEW n \in Nat, NEW V, NEW b \in V, NEW F, Closed(F, n, V)
  PROVE  \E g \in [0..n -> V] : Follows(g, F, n, b)
<1> DEFINE T == {k \in 0..n : \E g \in [0..k -> V] : Follows(g, F, k, b)}
<1>1. 0 \in T
  <2> DEFINE g == [i \in 0..0 |-> b]
  <2>1. g \in [0..0 -> V] /\ g[0] = b /\ 1..0 = {}
    OBVIOUS
  <2>2. Follows(g, F, 0, b)
    BY <2>1 DEF Follows
  <2> HIDE DEF g
  <2> QED BY <2>1, <2>2
<1>2. ASSUME NEW k \in 0..(n - 1), k \in T PROVE k + 1 \in T
  <2>1. PICK g \in [0..k -> V] : Follows(g, F, k, b)
    BY <1>2
  <2> DEFINE h == [i \in 0..(k + 1) |-> IF i = k + 1 THEN F[k + 1][g[k]] ELSE g[i]]
  <2>2. k + 1 \in 1..n /\ g[k] \in V
    OBVIOUS
  <2>3. F[k + 1][g[k]] \in V
    BY <2>2 DEF Closed
  <2>4. h \in [0..(k + 1) -> V]
    BY <2>3
  <2>5. h[0] = b
    BY <2>1 DEF Follows
  <2>6. ASSUME NEW i \in 1..(k + 1) PROVE h[i] = F[i][h[i - 1]]
    <3>1. h[i - 1] = g[i - 1]
      OBVIOUS
    <3>2. CASE i = k + 1
      <4>1. h[i] = F[k + 1][g[k]] /\ i - 1 = k BY <3>2
      <4> QED BY <3>1, <3>2, <4>1
    <3>3. CASE i # k + 1
      <4>1. i \in 1..k BY <3>3
      <4>2. h[i] = g[i] BY <3>3
      <4>3. g[i] = F[i][g[i - 1]] BY <2>1, <4>1 DEF Follows
      <4> QED BY <3>1, <4>2, <4>3
    <3> QED BY <3>2, <3>3
  <2>7. Follows(h, F, k + 1, b)
    <3> HIDE DEF h
    <3> QED BY <2>5, <2>6 DEF Follows
  <2> HIDE DEF h
  <2> QED BY <2>4, <2>7
<1>3. \A i \in 0..n : i \in T
  <2> HIDE DEF T
  <2>1. \A k \in 0..(n - 1) : k \in T => k + 1 \in T
    BY <1>2
  <2> QED BY <1>1, <2>1, Upwards
<1>4. n \in T
  <2> HIDE DEF T
  <2> QED BY <1>3
<1> QED BY <1>4

\* Two functions that go from each value to the next in the same way are one.
LEMMA FoldUnique ==
  ASSUME NEW n \in Nat, NEW f, NEW g, f[0] = g[0],
         \A i \in 0..(n - 1) : f[i] = g[i] => f[i + 1] = g[i + 1]
  PROVE  \A i \in 0..n : f[i] = g[i]
<1> DEFINE T == {i \in 0..n : f[i] = g[i]}
<1>1. 0 \in T /\ \A i \in 0..(n - 1) : i \in T => i + 1 \in T
  OBVIOUS
<1>2. \A i \in 0..n : i \in T
  <2> HIDE DEF T
  <2> QED BY <1>1, Upwards
<1> QED BY <1>2

\* The elements of a sequence, of two that are joined, of one that grows.
LEMMA ToSetConcat ==
  ASSUME NEW E, NEW s \in Seq(E), NEW t \in Seq(E)
  PROVE  ToSet(s \o t) = ToSet(s) \cup ToSet(t)
<1>1. ASSUME NEW x \in ToSet(s \o t) PROVE x \in ToSet(s) \cup ToSet(t)
  <2>1. PICK i \in 1..(Len(s) + Len(t)) : x = (s \o t)[i]
    BY DEF ToSet
  <2>2. CASE i <= Len(s)
    <3>1. i \in DOMAIN s /\ x = s[i] BY <2>1, <2>2
    <3> QED BY <3>1 DEF ToSet
  <2>3. CASE ~(i <= Len(s))
    <3>1. i - Len(s) \in DOMAIN t /\ x = t[i - Len(s)] BY <2>1, <2>3
    <3> QED BY <3>1 DEF ToSet
  <2> QED BY <2>2, <2>3
<1>2. ASSUME NEW x \in ToSet(s) PROVE x \in ToSet(s \o t)
  <2>1. PICK i \in 1..Len(s) : x = s[i]
    BY DEF ToSet
  <2>2. i \in DOMAIN (s \o t) /\ (s \o t)[i] = x
    BY <2>1
  <2> QED BY <2>2 DEF ToSet
<1>3. ASSUME NEW x \in ToSet(t) PROVE x \in ToSet(s \o t)
  <2>1. PICK i \in 1..Len(t) : x = t[i]
    BY DEF ToSet
  <2>2. Len(s) + i \in DOMAIN (s \o t) /\ (s \o t)[Len(s) + i] = x
    BY <2>1
  <2> QED BY <2>2 DEF ToSet
<1> QED BY <1>1, <1>2, <1>3

LEMMA ToSetAppend ==
  ASSUME NEW E, NEW s \in Seq(E), NEW e \in E
  PROVE  ToSet(Append(s, e)) = ToSet(s) \cup {e}
<1>1. \A i \in 1..Len(s) : Append(s, e)[i] = s[i]
  OBVIOUS
<1>2. Append(s, e)[Len(s) + 1] = e /\ DOMAIN Append(s, e) = (1..Len(s)) \cup {Len(s) + 1}
  OBVIOUS
<1> QED BY <1>1, <1>2 DEF ToSet

LEMMA ToSetTail ==
  ASSUME NEW E, NEW s \in Seq(E), s # <<>>
  PROVE  ToSet(s) = {Head(s)} \cup ToSet(Tail(s))
<1>1. ASSUME NEW x \in ToSet(s) PROVE x \in {Head(s)} \cup ToSet(Tail(s))
  <2>1. PICK i \in 1..Len(s) : x = s[i]
    BY DEF ToSet
  <2>2. CASE i = 1 BY <2>1, <2>2
  <2>3. CASE i # 1
    <3>1. i - 1 \in DOMAIN Tail(s) /\ Tail(s)[i - 1] = x
      BY <2>1, <2>3
    <3> QED BY <3>1 DEF ToSet
  <2> QED BY <2>2, <2>3
<1>2. Head(s) \in ToSet(s)
  <2>1. 1 \in DOMAIN s /\ Head(s) = s[1]
    OBVIOUS
  <2> QED BY <2>1 DEF ToSet
<1>3. ASSUME NEW x \in ToSet(Tail(s)) PROVE x \in ToSet(s)
  <2>1. PICK i \in 1..Len(Tail(s)) : x = Tail(s)[i]
    BY DEF ToSet
  <2>2. i + 1 \in DOMAIN s /\ s[i + 1] = x
    BY <2>1
  <2> QED BY <2>2 DEF ToSet
<1> QED BY <1>1, <1>2, <1>3

LEMMA ToSetFinite ==
  ASSUME NEW E, NEW s \in Seq(E)
  PROVE  IsFiniteSet(ToSet(s)) /\ ToSet(s) \subseteq E /\ (Len(s) = 1 => ToSet(s) = {s[1]})
<1>1. Len(s) \in Nat /\ DOMAIN s = 1..Len(s) /\ s \in [1..Len(s) -> ToSet(s)]
  BY DEF ToSet
<1>2. \A x \in ToSet(s) : \E i \in 1..Len(s) : s[i] = x
  BY <1>1 DEF ToSet
<1>3. s \in Surjection(1..Len(s), ToSet(s))
  BY <1>1, <1>2, Zenon DEF Surjection
<1>4. IsFiniteSet(1..Len(s))
  BY <1>1, FS_Interval
<1>5. IsFiniteSet(ToSet(s))
  BY <1>3, <1>4, FS_Surjection, Zenon
<1> QED BY <1>1, <1>5 DEF ToSet

\* The sequences of a sequence, joined.
LEMMA FlattenSteps ==
  ASSUME NEW E, NEW s \in Seq(Seq(E))
  PROVE  \E g \in [0..Len(s) -> Seq(E)] :
           /\ g[0] = <<>>
           /\ \A i \in 1..Len(s) : g[i] = g[i - 1] \o s[i]
           /\ FlattenSeq(s) = g[Len(s)]
<1>1. PICK n \in Nat : n = Len(s)
  OBVIOUS
<1>2. \A i \in 1..n : s[i] \in Seq(E)
  BY <1>1
<1> DEFINE F == [i \in 1..n |-> [v \in Seq(E) |-> v \o s[i]]]
<1>3. Closed(F, n, Seq(E))
  BY <1>2 DEF Closed
<1>4. <<>> \in Seq(E)
  OBVIOUS
<1>5. PICK g \in [0..n -> Seq(E)] : Follows(g, F, n, <<>>)
  <2> HIDE DEF F
  <2> QED BY <1>3, <1>4, FoldExists
<1>6. ASSUME NEW i \in 1..n PROVE g[i] = g[i - 1] \o s[i]
  <2>1. g[i - 1] \in Seq(E)
    OBVIOUS
  <2>2. F[i][g[i - 1]] = g[i - 1] \o s[i]
    BY <2>1
  <2>3. g[i] = F[i][g[i - 1]]
    <3> HIDE DEF F
    <3> QED BY <1>5 DEF Follows
  <2> QED BY <2>2, <2>3
<1>9. g[0] = <<>>
  BY <1>5 DEF Follows
<1> HIDE DEF F
<1>7. CASE n = 0
  <2>0. Len(s) = 0
    BY <1>1, <1>7
  <2>1. s = <<>>
    BY <2>0
  <2>2. FlattenSeq(s) = <<>>
    BY <2>0, <2>1 DEF FlattenSeq
  <2> QED BY <1>1, <1>6, <1>7, <1>9, <2>2
<1>8. CASE n # 0
  <2> DEFINE Joins(f) == f = [i \in 1..n |-> IF i = 1 THEN s[i] ELSE f[i - 1] \o s[i]]
             h == [i \in 1..n |-> g[i]]
             c == CHOOSE f : Joins(f)
  <2>1. ASSUME NEW i \in 1..n PROVE h[i] = IF i = 1 THEN s[i] ELSE h[i - 1] \o s[i]
    <3>1. CASE i = 1
      <4>1. g[1] = <<>> \o s[1] /\ s[1] \in Seq(E)
        <5>1. 1 \in 1..n BY <3>1
        <5>2. g[i] = g[i - 1] \o s[i] BY <1>6
        <5>3. i - 1 = 0 BY <3>1
        <5> QED BY <1>2, <1>9, <3>1, <5>1, <5>2, <5>3
      <4>2. <<>> \o s[1] = s[1] BY <4>1
      <4> QED BY <3>1, <4>1, <4>2
    <3>2. CASE i # 1
      <4>1. i - 1 \in 1..n BY <3>2
      <4>2. h[i - 1] = g[i - 1] /\ h[i] = g[i] BY <4>1
      <4> QED BY <1>6, <3>2, <4>2
    <3> QED BY <3>1, <3>2
  <2>2. Joins(h)
    BY <2>1
  <2>3. Joins(c)
    <3> HIDE DEF Joins, h
    <3> QED BY <2>2
  <2>4. FlattenSeq(s) = c[n]
    BY <1>1, <1>8 DEF FlattenSeq
  <2>5. ASSUME NEW i \in 1..n PROVE c[i] = IF i = 1 THEN s[i] ELSE c[i - 1] \o s[i]
    <3> HIDE DEF c
    <3> QED BY <2>3
  <2> HIDE DEF c, h, Joins
  <2> DEFINE H == [i \in 0..n |-> IF i = 0 THEN <<>> ELSE h[i]]
             C == [i \in 0..n |-> IF i = 0 THEN <<>> ELSE c[i]]
  <2>6. ASSUME NEW i \in 0..(n - 1), H[i] = C[i] PROVE H[i + 1] = C[i + 1]
    <3>1. i + 1 \in 1..n /\ (i + 1) - 1 = i /\ H[i + 1] = h[i + 1] /\ C[i + 1] = c[i + 1]
      OBVIOUS
    <3>2. CASE i = 0 
      <4>1. c[1] = s[1] /\ h[1] = s[1] BY <1>8, <2>1, <2>5
      <4> QED BY <3>1, <3>2, <4>1
    <3>3. CASE i # 0
      <4>1. c[i] = h[i] BY <2>6, <3>3
      <4> DEFINE j == i + 1
      <4>2. j \in 1..n /\ j # 1 /\ j - 1 = i
        BY <3>1, <3>3
      <4> HIDE DEF j
      <4>3. c[j] = c[j - 1] \o s[j] /\ h[j] = h[j - 1] \o s[j]
        BY <2>1, <2>5, <4>2
      <4>4. c[j] = h[j]
        BY <4>1, <4>2, <4>3
      <4> QED BY <3>1, <4>4 DEF j
    <3> QED BY <3>2, <3>3
  <2>7. H[0] = C[0]
    OBVIOUS
  <2>8. H[n] = C[n]
    <3> HIDE DEF H, C
    <3>1. \A i \in 0..(n - 1) : H[i] = C[i] => H[i + 1] = C[i + 1]
      BY <2>6
    <3>2. \A i \in 0..n : H[i] = C[i]
      BY <2>7, <3>1, FoldUnique
    <3> QED BY <3>2
  <2>9. c[n] = g[n]
    BY <1>8, <2>8 DEF h
  <2> QED BY <1>1, <1>6, <1>9, <2>4, <2>9
<1> QED BY <1>7, <1>8

\* What is in the joined sequence is in one of them.
LEMMA FlattenRange ==
  ASSUME NEW E, NEW s \in Seq(Seq(E))
  PROVE  /\ FlattenSeq(s) \in Seq(E)
         /\ \A x : x \in ToSet(FlattenSeq(s)) <=> \E i \in 1..Len(s) : x \in ToSet(s[i])
<1>1. PICK n \in Nat : n = Len(s)
  OBVIOUS
<1>2. \A i \in 1..n : s[i] \in Seq(E)
  BY <1>1
<1>3. PICK g \in [0..n -> Seq(E)] :
        /\ g[0] = <<>>
        /\ \A i \in 1..n : g[i] = g[i - 1] \o s[i]
        /\ FlattenSeq(s) = g[n]
  BY <1>1, FlattenSteps
<1> DEFINE P(k) == \A x : x \in ToSet(g[k]) <=> \E i \in 1..k : x \in ToSet(s[i])
           T == {k \in 0..n : P(k)}
<1>4. P(0)
  <2>1. ToSet(<<>>) = {} BY DEF ToSet
  <2> QED BY <1>3, <2>1
<1>5. ASSUME NEW k \in 0..(n - 1), P(k) PROVE P(k + 1)
  <2>1. k + 1 \in 1..n /\ (k + 1) - 1 = k /\ g[k] \in Seq(E)
    OBVIOUS
  <2>2. g[k + 1] = g[k] \o s[k + 1] /\ s[k + 1] \in Seq(E)
    BY <1>2, <1>3, <2>1
  <2>3. ToSet(g[k + 1]) = ToSet(g[k]) \cup ToSet(s[k + 1])
    BY <2>1, <2>2, ToSetConcat
  <2>4. ASSUME NEW x PROVE x \in ToSet(g[k + 1]) <=> \E i \in 1..(k + 1) : x \in ToSet(s[i])
    <3>1. x \in ToSet(g[k]) <=> \E i \in 1..k : x \in ToSet(s[i])
      BY <1>5
    <3>2. 1..(k + 1) = (1..k) \cup {k + 1}
      OBVIOUS
    <3> QED BY <2>3, <3>1, <3>2
  <2> QED BY <2>4
<1>6. P(n)
  <2> HIDE DEF P
  <2>1. 0 \in T /\ \A k \in 0..(n - 1) : k \in T => k + 1 \in T
    BY <1>4, <1>5
  <2> HIDE DEF T
  <2>2. \A k \in 0..n : k \in T
    BY <2>1, Upwards
  <2>3. n \in T
    BY <2>2
  <2> QED BY <2>3 DEF T
<1>7. g[n] \in Seq(E)
  OBVIOUS
<1> QED BY <1>1, <1>3, <1>6, <1>7

\* From a pair in P the i-th step F[i] leads to a pair in P.
Leads(F, n, P) == \A i \in 1..n : \A v : <<i - 1, v>> \in P => <<i, F[i][v]>> \in P

\* g has a value for each of 0..n.
UpTo(g, n) == g = [i \in 0..n |-> g[i]]

\* What holds of the first value, and of the next value if it holds of one,
\* holds along the way.
LEMMA FoldAlong ==
  ASSUME NEW n \in Nat, NEW P, NEW b, <<0, b>> \in P, NEW F, Leads(F, n, P)
  PROVE  \E g : /\ Follows(g, F, n, b) /\ UpTo(g, n)
                /\ \A i \in 0..n : <<i, g[i]>> \in P
<1> DEFINE V == {p[2] : p \in P}
           H == [i \in 1..n |-> [v \in V |-> IF <<i - 1, v>> \in P THEN F[i][v] ELSE v]]
<1>1. \A i, v : <<i, v>> \in P => v \in V
  <2> SUFFICES ASSUME NEW i, NEW v, <<i, v>> \in P PROVE v \in V
    OBVIOUS
  <2>1. <<i, v>>[2] = v
    OBVIOUS
  <2> QED BY <2>1
<1> HIDE DEF V
<1>2. \A i \in 1..n, v \in V : H[i][v] = IF <<i - 1, v>> \in P THEN F[i][v] ELSE v
  OBVIOUS
<1> HIDE DEF H
<1>3. Closed(H, n, V)
  BY <1>1, <1>2 DEF Closed, Leads
<1>4. PICK g \in [0..n -> V] : Follows(g, H, n, b)
  BY <1>1, <1>3, FoldExists
<1> DEFINE T == {i \in 0..n : <<i, g[i]>> \in P}
<1>5. 0 \in T
  BY <1>4 DEF Follows
<1>6. ASSUME NEW j \in 1..n, <<j - 1, g[j - 1]>> \in P
      PROVE  g[j] = F[j][g[j - 1]] /\ <<j, g[j]>> \in P
  <2>1. g[j] = H[j][g[j - 1]]
    BY <1>4 DEF Follows
  <2>2. g[j - 1] \in V
    BY <1>1, <1>6
  <2>3. H[j][g[j - 1]] = F[j][g[j - 1]]
    BY <1>2, <1>6, <2>2
  <2> QED BY <1>6, <2>1, <2>3 DEF Leads
<1>7. ASSUME NEW i \in 0..(n - 1), i \in T PROVE i + 1 \in T
  <2> DEFINE j == i + 1
  <2>1. j \in 1..n /\ j - 1 = i /\ <<i, g[i]>> \in P
    BY <1>7
  <2> HIDE DEF j
  <2>2. <<j, g[j]>> \in P
    BY <1>6, <2>1
  <2> QED BY <2>1, <2>2 DEF j
<1>8. \A i \in 0..n : i \in T
  <2>1. \A i \in 0..(n - 1) : i \in T => i + 1 \in T
    BY <1>7
  <2> HIDE DEF T
  <2> QED BY <1>5, <2>1, Upwards
<1>9. \A i \in 0..n : <<i, g[i]>> \in P
  BY <1>8
<1>10. \A j \in 1..n : g[j] = F[j][g[j - 1]]
  <2> TAKE j \in 1..n
  <2>1. j - 1 \in 0..n
    OBVIOUS
  <2> QED BY <1>6, <1>9, <2>1
<1>11. Follows(g, F, n, b)
  BY <1>4, <1>10 DEF Follows
<1>12. UpTo(g, n)
  BY DEF UpTo
<1> QED BY <1>9, <1>11, <1>12
=============================================================================

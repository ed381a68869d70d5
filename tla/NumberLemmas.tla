---------------------------- MODULE NumberLemmas ----------------------------
(***************************************************************************)
(* Facts about numbers and finite sets that several proofs need.           *)
(***************************************************************************)
EXTENDS Integers, FiniteSets, Functions, FiniteSetTheorems, WellFoundedInduction, TLAPS

\* A set of natural numbers that is not empty has a least one.
LEMMA LeastNumber ==
  ASSUME NEW S \in SUBSET Nat, S # {}
  PROVE  \E x \in S : \A y \in S : x <= y
<1>1. PICK x \in S : \A y \in S : ~(<<y, x>> \in OpToRel(<, Nat))
  BY NatLessThanWellFounded, WFMin
<1>2. ASSUME NEW y \in S PROVE x <= y
  <2>1. x \in Nat /\ y \in Nat
    OBVIOUS
  <2>2. y < x => <<y, x>> \in OpToRel(<, Nat)
    BY <2>1, Zenon DEF OpToRel
  <2>3. ~(y < x)
    BY <1>1, <2>2, Zenon
  <2> QED
    BY <2>1, <2>3
<1> QED
  BY <1>2

\* A set of numbers up to n that is not empty has a greatest one.
LEMMA GreatestNumber ==
  ASSUME NEW n \in Nat, NEW S \in SUBSET (0..n), S # {}
  PROVE  \E x \in S : \A y \in S : y <= x
<1> DEFINE T == {m \in Nat : n - m \in S}
<1>1. \A y \in S : n - y \in Nat /\ n - (n - y) = y
  OBVIOUS
<1>2. T # {} /\ \A y \in S : n - y \in T
  BY <1>1
<1>3. PICK x \in T : \A y \in T : x <= y
  BY <1>2, LeastNumber
<1>4. \A y \in S : y <= n - x
  BY <1>1, <1>2, <1>3
<1> QED
  BY <1>3, <1>4

\* Induction, for a set of natural numbers.
LEMMA AllNumbers ==
  ASSUME NEW S \in SUBSET Nat, 0 \in S, \A n \in S : n + 1 \in S
  PROVE  S = Nat
<1> SUFFICES ASSUME Nat \ S # {} PROVE FALSE
  OBVIOUS
<1>1. PICK x \in Nat \ S : \A y \in Nat \ S : x <= y
  BY LeastNumber
<1>2. x - 1 \in S /\ (x - 1) + 1 = x
  BY <1>1
<1> QED
  BY <1>1, <1>2

-----------------------------------------------------------------------------
(* Sums.  SumFunctionOnSet(f, S) is defined by a recursive function on the   *)
(* subsets of S that takes away a chosen element at a time.                  *)

Chosen(s) == CHOOSE x \in s : TRUE
Addition(f, s, h) == IF s = {} THEN 0 ELSE f[Chosen(s)] + h[s \ {Chosen(s)}]
IsSum(f, S, h) == h = [s \in SUBSET S |-> Addition(f, s, h)]
SumOf(f, S) == CHOOSE h : IsSum(f, S, h)


\* Induction, for the subsets of a finite set.
LEMMA AllSubsets ==
  ASSUME NEW S, IsFiniteSet(S), NEW P,
         \A s \in SUBSET S : (\A t \in SUBSET s : t # s => t \in P) => s \in P
  PROVE  \A s \in SUBSET S : s \in P
<1> SUFFICES ASSUME (SUBSET S) \ P # {} PROVE FALSE
  OBVIOUS
<1> DEFINE sizes == {Cardinality(s) : s \in (SUBSET S) \ P}
<1>1. \A s \in SUBSET S : IsFiniteSet(s) /\ Cardinality(s) \in Nat
  BY FS_Subset, FS_CardinalityType
<1>2. PICK n \in sizes : \A m \in sizes : n <= m
  <2>1. sizes \in SUBSET Nat /\ sizes # {}
    BY <1>1
  <2> HIDE DEF sizes
  <2> QED
    BY <2>1, LeastNumber
<1>3. PICK s \in (SUBSET S) \ P : Cardinality(s) = n
  BY <1>2
<1>4. ASSUME NEW t \in SUBSET s, t # s PROVE t \in P
  <2>1. Cardinality(t) <= Cardinality(s) /\ Cardinality(t) # Cardinality(s)
    BY <1>1, <1>3, <1>4, FS_Subset
  <2>2. Cardinality(t) \in Nat /\ Cardinality(s) \in Nat
    BY <1>1
  <2> QED
    BY <1>2, <1>3, <2>1, <2>2
<1> QED
  BY <1>3, <1>4

LEMMA SumDefined ==
  ASSUME NEW f, NEW S
  PROVE  SumFunctionOnSet(f, S) = SumOf(f, S)[S]
BY DEF SumFunctionOnSet, FoldFunctionOnSet, MapThenFoldSet, SumOf, IsSum, Addition, Chosen

LEMMA SumExists ==
  ASSUME NEW f, NEW S, IsFiniteSet(S)
  PROVE  IsSum(f, S, SumOf(f, S))
<1> DEFINE Upto(n, h) == \A s \in SUBSET S : Cardinality(s) <= n => h[s] = Addition(f, s, h)
           K == {n \in Nat : \E h : Upto(n, h)}
<1>1. \A s \in SUBSET S : /\ IsFiniteSet(s) /\ Cardinality(s) \in Nat
                          /\ Cardinality(s) <= Cardinality(S)
                          /\ Cardinality(s) = 0 <=> s = {}
  BY FS_Subset, FS_CardinalityType, FS_EmptySet
<1>2. 0 \in K
  <2> DEFINE h == [s \in SUBSET S |-> 0]
  <2>1. \A s \in SUBSET S : Cardinality(s) <= 0 => s = {}
    BY <1>1
  <2>2. Upto(0, h)
    BY <2>1 DEF Addition
  <2> QED
    BY <2>2
<1>3. ASSUME NEW n \in K PROVE n + 1 \in K
  <2>1. PICK h : Upto(n, h)
    OBVIOUS
  <2> DEFINE next == [s \in SUBSET S |-> Addition(f, s, h)]
  <2>2. ASSUME NEW s \in SUBSET S, Cardinality(s) <= n + 1
        PROVE  next[s] = Addition(f, s, next)
    <3>1. CASE s = {}
      BY <3>1 DEF Addition
    <3>2. CASE s # {}
      <4> DEFINE rest == s \ {Chosen(s)}
      <4>1. Chosen(s) \in s
        BY <3>2 DEF Chosen
      <4>2. rest \in SUBSET S /\ Cardinality(rest) <= n
        BY <1>1, <2>2, <4>1, FS_RemoveElement
      <4>3. h[rest] = next[rest]
        BY <2>1, <4>2
      <4> QED
        BY <3>2, <4>3 DEF Addition
    <3> QED
      BY <3>1, <3>2
  <2>3. Upto(n + 1, next)
    BY <2>2
  <2> HIDE DEF Upto, next
  <2> QED
    BY <2>3
<1>4. PICK h : Upto(Cardinality(S), h)
  <2>1. K = Nat
    <3> HIDE DEF K
    <3>1. K \in SUBSET Nat
      BY DEF K
    <3> QED
      BY <1>2, <1>3, <3>1, AllNumbers
  <2> QED
    BY <1>1, <2>1
<1> DEFINE total == [s \in SUBSET S |-> h[s]]
<1>5. ASSUME NEW s \in SUBSET S PROVE total[s] = Addition(f, s, total)
  <2>1. h[s] = Addition(f, s, h)
    BY <1>1, <1>4
  <2>2. s \ {Chosen(s)} \in SUBSET S
    OBVIOUS
  <2> QED
    BY <2>1, <2>2 DEF Addition
<1>6. IsSum(f, S, total)
  BY <1>5 DEF IsSum
<1> QED
  BY <1>6 DEF SumOf

\* A sum depends on the values that are added only.
LEMMA SumUnique ==
  ASSUME NEW f, NEW S, NEW h, IsSum(f, S, h), NEW g, NEW T \in SUBSET S, NEW i, IsSum(g, T, i),
         IsFiniteSet(T), \A x \in T : f[x] = g[x]
  PROVE  h[T] = i[T]
<1> DEFINE P == {s \in SUBSET T : h[s] = i[s]}
<1>1. ASSUME NEW s \in SUBSET T, \A t \in SUBSET s : t # s => t \in P PROVE s \in P
  <2>1. h[s] = Addition(f, s, h) /\ i[s] = Addition(g, s, i)
    BY DEF IsSum
  <2>2. CASE s = {}
    BY <2>1, <2>2 DEF Addition
  <2>3. CASE s # {}
    <3>1. Chosen(s) \in s /\ s \ {Chosen(s)} \in SUBSET s /\ s \ {Chosen(s)} # s
      BY <2>3 DEF Chosen
    <3>2. h[s \ {Chosen(s)}] = i[s \ {Chosen(s)}] /\ f[Chosen(s)] = g[Chosen(s)]
      BY <1>1, <3>1
    <3> QED
      BY <2>1, <2>3, <3>2 DEF Addition
  <2> QED
    BY <2>2, <2>3
<1> HIDE DEF P
<1>2. \A s \in SUBSET T : s \in P
  BY <1>1, AllSubsets
<1> QED
  BY <1>2 DEF P

LEMMA SumSame ==
  ASSUME NEW f, NEW g, NEW S, IsFiniteSet(S), \A x \in S : f[x] = g[x]
  PROVE  SumFunctionOnSet(f, S) = SumFunctionOnSet(g, S)
BY SumDefined, SumExists, SumUnique

LEMMA SumChosen ==
  ASSUME NEW f, NEW S, IsFiniteSet(S)
  PROVE  SumFunctionOnSet(f, S) =
             IF S = {} THEN 0 ELSE f[Chosen(S)] + SumFunctionOnSet(f, S \ {Chosen(S)})
<1> DEFINE rest == S \ {Chosen(S)}
<1>1. SumOf(f, S)[S] = Addition(f, S, SumOf(f, S))
  <2> DEFINE h == SumOf(f, S)
  <2>1. IsSum(f, S, h)
    BY SumExists
  <2> HIDE DEF h
  <2>2. h[S] = Addition(f, S, h)
    BY <2>1 DEF IsSum
  <2> QED
    BY <2>2 DEF h
<1>2. SumOf(f, S)[rest] = SumOf(f, rest)[rest]
  <2>1. IsFiniteSet(rest)
    BY FS_RemoveElement
  <2> QED
    BY <2>1, SumExists, SumUnique
<1> QED
  BY <1>1, <1>2, SumDefined DEF Addition

LEMMA SumNat ==
  ASSUME NEW f, NEW S, IsFiniteSet(S), \A x \in S : f[x] \in Nat
  PROVE  SumFunctionOnSet(f, S) \in Nat
<1> DEFINE P == {s \in SUBSET S : SumFunctionOnSet(f, s) \in Nat}
<1>1. ASSUME NEW s \in SUBSET S, \A t \in SUBSET s : t # s => t \in P PROVE s \in P
  <2>1. IsFiniteSet(s)
    BY FS_Subset
  <2>2. CASE s = {}
    <3>1. SumFunctionOnSet(f, s) = 0
      BY <2>1, <2>2, SumChosen, Zenon
    <3> QED
      BY <3>1
  <2>3. CASE s # {}
    <3>1. Chosen(s) \in s /\ s \ {Chosen(s)} \in SUBSET s /\ s \ {Chosen(s)} # s
      BY <2>3 DEF Chosen
    <3>2. SumFunctionOnSet(f, s \ {Chosen(s)}) \in Nat /\ f[Chosen(s)] \in Nat
      BY <1>1, <3>1
    <3> QED
      BY <2>1, <2>3, <3>2, SumChosen
  <2> QED
    BY <2>2, <2>3
<1> HIDE DEF P
<1>2. \A s \in SUBSET S : s \in P
  BY <1>1, AllSubsets
<1> QED
  BY <1>2 DEF P

\* Any element can be the one that is added last.
LEMMA SumSplit ==
  ASSUME NEW f, NEW S, IsFiniteSet(S), \A x \in S : f[x] \in Nat, NEW e \in S
  PROVE  SumFunctionOnSet(f, S) = f[e] + SumFunctionOnSet(f, S \ {e})
<1> DEFINE Sum(s) == SumFunctionOnSet(f, s)
           P == {s \in SUBSET S : \A x \in s : Sum(s) = f[x] + Sum(s \ {x})}
<1>0. \A s \in SUBSET S : IsFiniteSet(s) /\ Sum(s) \in Nat
  BY FS_Subset, SumNat
<1>1. ASSUME NEW s \in SUBSET S, \A t \in SUBSET s : t # s => t \in P,
             NEW x \in s
      PROVE  Sum(s) = f[x] + Sum(s \ {x})
  <2> DEFINE c == Chosen(s)
  <2>1. c \in s
    BY DEF Chosen
  <2>2. Sum(s) = f[c] + Sum(s \ {c})
    BY <1>0, SumChosen
  <2>3. CASE x = c
    BY <2>2, <2>3
  <2>4. CASE x # c
    <3> HIDE DEF c, Sum
    <3>1. Sum(s \ {c}) = f[x] + Sum((s \ {c}) \ {x})
      BY <1>1, <2>1, <2>4
    <3>2. Sum(s \ {x}) = f[c] + Sum((s \ {x}) \ {c})
      BY <1>1, <2>1, <2>4
    <3>3. (s \ {c}) \ {x} = (s \ {x}) \ {c}
      OBVIOUS
    <3>4. Sum((s \ {c}) \ {x}) \in Nat /\ f[c] \in Nat /\ f[x] \in Nat
      BY <1>0, <2>1
    <3> QED
      BY <2>2, <3>1, <3>2, <3>3, <3>4
  <2> QED
    BY <2>3, <2>4
<1>2. \A s \in SUBSET S : (\A t \in SUBSET s : t # s => t \in P) => s \in P
  BY <1>1
<1> HIDE DEF P
<1>3. \A s \in SUBSET S : s \in P
  BY <1>2, AllSubsets
<1> QED
  BY <1>3 DEF P
-----------------------------------------------------------------------------
(* Chains: every element of D has a predecessor of a lower rank, or N.       *)

Chained(D, N, prev, rank) ==
  /\ N \notin D /\ prev \in [D -> D \cup {N}] /\ rank \in [D -> Nat]
  /\ \A x \in D : prev[x] # N => rank[prev[x]] < rank[x]

\* Induction along a chain.
LEMMA AllOfChain ==
  ASSUME NEW D, NEW N, NEW prev, NEW rank, Chained(D, N, prev, rank), NEW P,
         N \in P, \A x \in D : prev[x] \in P => x \in P
  PROVE  D \subseteq P
<1> DEFINE K == {n \in Nat : \A x \in D : rank[x] < n => x \in P}
<1>1. 0 \in K
  BY DEF Chained
<1>2. ASSUME NEW n \in K PROVE n + 1 \in K
  <2>1. ASSUME NEW x \in D, rank[x] < n + 1 PROVE x \in P
    <3>1. prev[x] \in D => rank[prev[x]] < n /\ rank[prev[x]] \in Nat
      BY <2>1 DEF Chained
    <3>2. prev[x] \in P
      BY <3>1 DEF Chained
    <3> QED
      BY <3>2
  <2> QED
    BY <2>1
<1>3. K = Nat
  <2>1. K \in SUBSET Nat
    OBVIOUS
  <2> HIDE DEF K
  <2> QED
    BY <1>1, <1>2, <2>1, AllNumbers
<1>4. ASSUME NEW x \in D PROVE x \in P
  <2>1. rank[x] + 1 \in K /\ rank[x] < rank[x] + 1
    BY <1>3 DEF Chained
  <2> QED
    BY <2>1
<1> QED
  BY <1>4

\* f is defined by recursion along the chain: `base` at N, a step from the
\* predecessor's value everywhere else.
AlongChain(D, N, prev, V, base, step, f) ==
  /\ f \in [D \cup {N} -> V] /\ f[N] = base
  /\ \A x \in D : f[x] = step[<<x, f[prev[x]]>>]

\* Such a function exists.
LEMMA ChainRecursion ==
  ASSUME NEW D, NEW N, NEW prev, NEW rank, Chained(D, N, prev, rank),
         NEW V, NEW base \in V, NEW step \in [D \X V -> V]
  PROVE  \E f : AlongChain(D, N, prev, V, base, step, f)
<1> DEFINE E == D \cup {N}
           Upto(n, h) == /\ h \in [E -> V] /\ h[N] = base
                         /\ \A x \in D : rank[x] < n => h[x] = step[<<x, h[prev[x]]>>]
           K == {n \in Nat : \E h : Upto(n, h)}
<1>0. /\ N \notin D /\ \A x \in D : prev[x] \in E /\ rank[x] \in Nat
      /\ \A x \in D : prev[x] # N => prev[x] \in D /\ rank[prev[x]] < rank[x]
  BY DEF Chained
<1>1. 0 \in K
  <2> DEFINE h == [x \in E |-> base]
  <2>1. Upto(0, h)
    BY <1>0
  <2> QED
    BY <2>1
<1>2. ASSUME NEW n \in K PROVE n + 1 \in K
  <2>1. PICK h : Upto(n, h)
    OBVIOUS
  <2> DEFINE next == [x \in E |-> IF x = N THEN base ELSE step[<<x, h[prev[x]]>>]]
  <2>2. ASSUME NEW x \in D PROVE step[<<x, h[prev[x]]>>] \in V
    BY <1>0, <2>1
  <2>3. next \in [E -> V] /\ next[N] = base
    BY <2>2
  <2>4. ASSUME NEW x \in D, rank[x] < n + 1 PROVE next[x] = step[<<x, next[prev[x]]>>]
    <3>1. next[x] = step[<<x, h[prev[x]]>>]
      BY <1>0
    <3>2. CASE prev[x] = N
      BY <2>1, <3>1, <3>2
    <3>3. CASE prev[x] # N
      <4>1. prev[x] \in D /\ rank[prev[x]] < n
        BY <1>0, <2>4, <3>3
      <4>2. h[prev[x]] = step[<<prev[x], h[prev[prev[x]]]>>]
        BY <2>1, <4>1
      <4>3. next[prev[x]] = h[prev[x]]
        BY <1>0, <4>1, <4>2
      <4> QED
        BY <3>1, <4>3
    <3> QED
      BY <3>2, <3>3
  <2>5. Upto(n + 1, next)
    BY <2>3, <2>4
  <2> HIDE DEF Upto, next
  <2> QED
    BY <2>5
<1>3. K = Nat
  <2>1. K \in SUBSET Nat
    OBVIOUS
  <2> HIDE DEF K
  <2> QED
    BY <1>1, <1>2, <2>1, AllNumbers
<1>4. ASSUME NEW n \in Nat, NEW m \in Nat, n <= m, NEW h, NEW g, Upto(n, h), Upto(m, g),
             NEW x \in D, rank[x] < n
      PROVE  h[x] = g[x]
  <2> DEFINE P == {y \in E : y = N \/ (rank[y] < n => h[y] = g[y])}
  <2>1. ASSUME NEW y \in D, prev[y] \in P PROVE y \in P
    <3>1. SUFFICES ASSUME rank[y] < n PROVE h[y] = g[y]
      OBVIOUS
    <3>2. h[y] = step[<<y, h[prev[y]]>>] /\ g[y] = step[<<y, g[prev[y]]>>]
      BY <1>0, <1>4, <3>1
    <3>3. h[prev[y]] = g[prev[y]]
      BY <1>0, <1>4, <2>1, <3>1
    <3> QED
      BY <3>2, <3>3
  <2>2. N \in P
    OBVIOUS
  <2>3. D \subseteq P
    <3> HIDE DEF P
    <3> QED
      BY <2>1, <2>2, AllOfChain
  <2> QED
    BY <1>0, <1>4, <2>3
<1> DEFINE H == [n \in Nat |-> CHOOSE h : Upto(n, h)]
           f == [x \in E |-> IF x = N THEN base ELSE H[rank[x] + 1][x]]
<1>5. ASSUME NEW n \in Nat PROVE Upto(n, H[n])
  <2>1. \E h : Upto(n, h)
    BY <1>3
  <2> HIDE DEF Upto
  <2> QED
    BY <2>1
<1>6. ASSUME NEW x \in D
      PROVE  f[x] \in V /\ f[x] = step[<<x, f[prev[x]]>>]
  <2> DEFINE n == rank[x] + 1
  <2>1. n \in Nat /\ rank[x] < n
    BY <1>0
  <2>2. Upto(n, H[n])
    BY <1>5, <2>1
  <2>3. f[x] = H[n][x]
    BY <1>0
  <2>4. H[n][x] \in V /\ H[n][x] = step[<<x, H[n][prev[x]]>>]
    <3> HIDE DEF H
    <3> QED
      BY <2>1, <2>2
  <2>5. H[n][prev[x]] = f[prev[x]]
    <3>1. CASE prev[x] = N
      <4>1. f[prev[x]] = base
        BY <3>1
      <4> HIDE DEF H
      <4> QED
        BY <2>2, <3>1, <4>1
    <3>2. CASE prev[x] # N
      <4> DEFINE m == rank[prev[x]] + 1
      <4>1. prev[x] \in D /\ m \in Nat /\ m <= n /\ rank[prev[x]] < m
        BY <1>0, <3>2
      <4>2. f[prev[x]] = H[m][prev[x]]
        BY <1>0, <4>1
      <4>3. Upto(m, H[m])
        BY <1>5, <4>1
      <4> HIDE DEF H, m, n, Upto, f
      <4> QED
        BY <1>4, <2>1, <2>2, <4>1, <4>2, <4>3
    <3> QED
      BY <3>1, <3>2
  <2> QED
    BY <2>3, <2>4, <2>5
<1>7. f \in [E -> V] /\ f[N] = base
  BY <1>6
<1>8. AlongChain(D, N, prev, V, base, step, f)
  <2> HIDE DEF f
  <2> QED
    BY <1>6, <1>7 DEF AlongChain
<1> QED
  BY <1>8
=============================================================================

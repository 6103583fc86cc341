------------------------------ MODULE Induction -----------------------------
(***************************************************************************)
(* Induction over the naturals, stated for sets: the library states it for *)
(* a predicate, an operator no prover instantiates. And what it is needed  *)
(* for: recursive functions exist and are unique, and an increasing        *)
(* sequence of naturals increases; and lists are filtered.                 *)
(***************************************************************************)
EXTENDS Integers, Sequences, WellFoundedInduction, TLAPS

\* Every nonempty set of naturals has a least element.
LEMMA LeastElement ==
  ASSUME NEW T \in SUBSET Nat, T # {}
  PROVE  \E n \in T : \A m \in T : n =< m
<1> DEFINE R == {p \in Nat \X Nat : p[1] < p[2]}
<1>1. IsWellFoundedOn(R, Nat)
  BY NatLessThanWellFounded DEF OpToRel
<1>2. \A n, m \in Nat : <<m, n>> \notin R => n =< m
  OBVIOUS
<1> HIDE DEF R
<1>3. \E n \in T : \A m \in T : <<m, n>> \notin R
  BY <1>1, WFMin
<1>4. QED
  BY <1>2, <1>3

\* A set with 0 and with the successor of each of its members has them all.
LEMMA SetInduction ==
  ASSUME NEW T \in SUBSET Nat, 0 \in T, \A n \in T : n + 1 \in T
  PROVE  T = Nat
<1> SUFFICES ASSUME Nat \ T # {} PROVE FALSE
  OBVIOUS
<1>1. PICK n \in Nat \ T : \A m \in Nat \ T : n =< m
  BY LeastElement
<1>2. n # 0 /\ n - 1 \in Nat
  BY <1>1
<1>3. QED
  BY <1>1, <1>2

\* The same up to a bound.
LEMMA BoundedInduction ==
  ASSUME NEW N \in Nat, NEW T \in SUBSET (0..N), 0 \in T,
         \A n \in T : n < N => n + 1 \in T
  PROVE  T = 0..N
<1> DEFINE U == {n \in Nat : n \in T \/ n > N}
<1>0. \A n \in T : n \in 0..N
  OBVIOUS
<1>1. U \in SUBSET Nat /\ 0 \in U
  OBVIOUS
<1>2. \A n \in U : n + 1 \in U
  BY <1>0
<1> HIDE DEF U
<1>3. U = Nat
  BY <1>1, <1>2, SetInduction
<1>4. \A n \in 0..N : n \in T
  BY <1>3 DEF U
<1>5. QED
  BY <1>0, <1>4

\* A recursive definition over 0..N: G gives the value at i from that at i - 1.
IsStep(G, N, V) == G \in [(1..N) \X V -> V]

IsRecursion(f, N, base, G) ==
  f[0] = base /\ \A i \in 1..N : f[i] = G[<<i, f[i - 1]>>]

\* It has a solution.
LEMMA RecursiveFunction ==
  ASSUME NEW N \in Nat, NEW V, NEW base \in V, NEW G, IsStep(G, N, V)
  PROVE  \E f \in [0..N -> V] : IsRecursion(f, N, base, G)
<1> USE DEF IsStep
<1> DEFINE Solves(f, k) ==
             f[0] = base /\ \A i \in 1..k : f[i] = G[<<i, f[i - 1]>>]
           T == {k \in 0..N : \E f \in [0..k -> V] : Solves(f, k)}
<1>1. 0 \in T
  <2>1. [i \in 0..0 |-> base] \in [0..0 -> V]
    OBVIOUS
  <2>2. Solves([i \in 0..0 |-> base], 0)
    OBVIOUS
  <2> HIDE DEF Solves
  <2>3. QED
    BY <2>1, <2>2
<1>2. ASSUME NEW k \in T, k < N PROVE k + 1 \in T
  <2>1. PICK f \in [0..k -> V] : Solves(f, k)
    <3> HIDE DEF Solves
    <3>1. QED
      OBVIOUS
  <2> DEFINE g == [i \in 0..(k + 1) |-> IF i = k + 1 THEN G[<<k + 1, f[k]>>] ELSE f[i]]
  <2>2. k \in 0..N /\ k + 1 \in 1..N /\ f[k] \in V
    BY <1>2, <2>1
  <2>3. g \in [0..(k + 1) -> V]
    BY <2>2
  <2>4. Solves(g, k + 1)
    <3>1. g[0] = base
      BY <2>1, <2>2
    <3>2. ASSUME NEW i \in 1..(k + 1) PROVE g[i] = G[<<i, g[i - 1]>>]
      <4>1. i - 1 \in 0..k /\ g[i - 1] = f[i - 1]
        BY <2>2
      <4>2. CASE i = k + 1
        <5>1. g[k + 1] = G[<<k + 1, f[k]>>] /\ (k + 1) - 1 = k
          BY <2>2
        <5>2. QED
          BY <4>1, <4>2, <5>1
      <4>3. CASE i # k + 1
        BY <4>1, <4>3, <2>1, <2>2
      <4>4. QED
        BY <4>2, <4>3
    <3>3. QED
      BY <3>1, <3>2
  <2> HIDE DEF Solves, g
  <2>5. QED
    BY <2>2, <2>3, <2>4
<1>3. T = 0..N
  <2>1. T \in SUBSET (0..N)
    OBVIOUS
  <2> HIDE DEF T
  <2>2. QED
    BY <1>1, <1>2, <2>1, BoundedInduction
<1>4. PICK f \in [0..N -> V] : Solves(f, N)
  <2>1. N \in T
    BY <1>3
  <2> HIDE DEF Solves
  <2>2. QED
    BY <2>1
<1>5. QED
  BY <1>4 DEF IsRecursion

\* And it has one only: two functions that begin alike and go on alike.
Alike(f, g, N) ==
  f[0] = g[0] /\ \A i \in 1..N : f[i - 1] = g[i - 1] => f[i] = g[i]

LEMMA RecursionIsUnique ==
  ASSUME NEW N \in Nat, NEW f, NEW g, Alike(f, g, N)
  PROVE  \A i \in 0..N : f[i] = g[i]
<1> USE DEF Alike
<1> DEFINE T == {i \in 0..N : f[i] = g[i]}
<1>1. T \in SUBSET (0..N) /\ 0 \in T
  OBVIOUS
<1>2. ASSUME NEW i \in T, i < N PROVE i + 1 \in T
  <2>1. i + 1 \in 1..N /\ (i + 1) - 1 = i
    BY <1>2
  <2>2. f[i + 1] = g[i + 1]
    BY <2>1
  <2>3. QED
    BY <2>1, <2>2
<1> HIDE DEF T
<1>3. T = 0..N
  BY <1>1, <1>2, BoundedInduction
<1>4. QED
  BY <1>3 DEF T

\* What rises with every step rises.
Rises(f, N) == \A i \in 1..N : f[i - 1] < f[i]

LEMMA Rising ==
  ASSUME NEW N \in Nat, NEW f \in [0..N -> Nat], Rises(f, N)
  PROVE  \A i, j \in 0..N : i < j => f[i] < f[j]
<1> USE DEF Rises
<1> SUFFICES ASSUME NEW i \in 0..N PROVE \A j \in 0..N : i < j => f[i] < f[j]
  OBVIOUS
<1> DEFINE T == {j \in 0..N : i < j => f[i] < f[j]}
<1>1. T \in SUBSET (0..N) /\ 0 \in T
  OBVIOUS
<1>2. ASSUME NEW j \in T, j < N PROVE j + 1 \in T
  <2>1. j + 1 \in 1..N /\ (j + 1) - 1 = j
    BY <1>2
  <2>2. f[j] < f[j + 1]
    BY <2>1
  <2>3. f[i] \in Nat /\ f[j] \in Nat /\ f[j + 1] \in Nat
    BY <2>1
  <2>4. QED
    BY <2>1, <2>2, <2>3
<1> HIDE DEF T
<1>3. T = 0..N
  BY <1>1, <1>2, BoundedInduction
<1>4. QED
  BY <1>3 DEF T

\* Filtering a list entry by entry: f[n] is what the first n entries leave.
Filters(f, s, K) ==
  /\ f[0] = <<>>
  /\ \A n \in 1..Len(s) :
       f[n] = IF s[n] \in K THEN Append(f[n - 1], s[n]) ELSE f[n - 1]

LEMMA FilterExists ==
  ASSUME NEW S, NEW s \in Seq(S), NEW N \in Nat, N = Len(s), NEW K
  PROVE  \E f \in [0..N -> Seq(S)] : Filters(f, s, K)
<1> DEFINE V == Seq(S)
           base == <<>>
           G == [p \in (1..N) \X V |->
                   IF s[p[1]] \in K THEN Append(p[2], s[p[1]]) ELSE p[2]]
<1>1. \A n \in 1..N : s[n] \in S
  OBVIOUS
<1>2. IsStep(G, N, V) /\ base \in V
  BY <1>1 DEF IsStep
<1> HIDE DEF G, V, base
<1>3. PICK f \in [0..N -> V] : IsRecursion(f, N, base, G)
  BY <1>2, RecursiveFunction
<1>4. \A n \in 1..N : f[n - 1] \in V
  OBVIOUS
<1>5. \A n \in 1..N :
        f[n] = IF s[n] \in K THEN Append(f[n - 1], s[n]) ELSE f[n - 1]
  BY <1>3, <1>4 DEF G, IsRecursion
<1>6. QED
  BY <1>3, <1>5 DEF base, V, Filters, IsRecursion

\* What the filter leaves was listed and let through; and of a list without
\* repetitions it leaves one.
Distinct(s) == \A i, j \in DOMAIN s : s[i] = s[j] => i = j

LEMMA FilterKeeps ==
  ASSUME NEW S, NEW s \in Seq(S), NEW N \in Nat, N = Len(s), NEW K,
         NEW f \in [0..N -> Seq(S)], Filters(f, s, K), Distinct(s)
  PROVE  Distinct(f[N]) /\ \A i \in DOMAIN f[N] : f[N][i] \in K
<1> USE DEF Distinct
<1> DEFINE From(t, n) == \A i \in DOMAIN t :
                           t[i] \in K /\ \E k \in 1..n : t[i] = s[k]
           T == {n \in 0..N : Distinct(f[n]) /\ From(f[n], n)}
<1>1. 0 \in T
  BY DEF Filters
<1>2. ASSUME NEW n \in T, n < N PROVE n + 1 \in T
  <2>1. n \in 0..N /\ n + 1 \in 1..N /\ (n + 1) - 1 = n
    BY <1>2
  <2>2. PICK u \in Seq(S) : u = f[n]
    BY <2>1
  <2>3. PICK a \in S : a = s[n + 1]
    BY <2>1
  <2>4. f[n + 1] = IF a \in K THEN Append(u, a) ELSE u
    BY <2>1, <2>2, <2>3 DEF Filters
  <2>5. Distinct(u) /\ From(u, n)
    BY <2>2
  <2>6. \A k \in 1..n : s[k] # a /\ k \in 1..(n + 1)
    BY <2>1, <2>3
  <2> HIDE DEF T
  <2>7. CASE a \notin K
    <3>1. Distinct(f[n + 1]) /\ From(f[n + 1], n + 1)
      BY <2>4, <2>5, <2>6, <2>7
    <3> HIDE DEF Distinct, From
    <3>2. QED
      BY <2>1, <3>1 DEF T
  <2>8. CASE a \in K
    <3>a. Append(u, a) \in Seq(S)
      BY <2>2, <2>3
    <3>1. PICK t \in Seq(S) : t = Append(u, a)
      BY <3>a
    <3>2. /\ DOMAIN t = 1..(Len(u) + 1) /\ DOMAIN u = 1..Len(u) /\ Len(u) \in Nat
          /\ \A i \in DOMAIN u : t[i] = u[i]
          /\ t[Len(u) + 1] = a
      BY <3>1
    <3>3. \A i \in DOMAIN u : u[i] # a
      BY <2>5, <2>6
    <3>4. Distinct(t)
      BY <2>5, <3>2, <3>3
    <3>5. From(t, n + 1)
      <4> SUFFICES ASSUME NEW i \in DOMAIN t
                   PROVE  t[i] \in K /\ \E k \in 1..(n + 1) : t[i] = s[k]
        OBVIOUS
      <4>1. CASE i \in DOMAIN u
        <5>1. PICK k \in 1..n : u[i] = s[k]
          BY <2>5, <4>1
        <5>2. QED
          BY <2>5, <2>6, <3>2, <4>1, <5>1
      <4>2. CASE i = Len(u) + 1
        <5>1. n + 1 \in 1..(n + 1)
          BY <2>1
        <5>2. QED
          BY <2>3, <2>8, <3>2, <4>2, <5>1
      <4>3. QED
        BY <3>2, <4>1, <4>2
    <3>6. f[n + 1] = t
      BY <2>4, <2>8, <3>1
    <3> HIDE DEF Distinct, From
    <3>7. QED
      BY <2>1, <3>4, <3>5, <3>6 DEF T
  <2>9. QED
    BY <2>7, <2>8
<1>3. T = 0..N
  <2>1. T \in SUBSET (0..N)
    OBVIOUS
  <2> HIDE DEF T
  <2>2. QED
    BY <1>1, <1>2, <2>1, BoundedInduction
<1>4. N \in T
  BY <1>3
<1>5. QED
  BY <1>4
=============================================================================

------------------------------ MODULE SumProofs ------------------------------
(***************************************************************************)
(* What the proofs of the other modules need to know of the sums of the    *)
(* community modules, of least and greatest numbers, of functions defined  *)
(* by recursion, and of counting: none of it is about the scanner.         *)
(* Induction is a smallest counterexample throughout.                      *)
(***************************************************************************)
EXTENDS Integers, FiniteSetsExt, Functions, FiniteSetTheorems, WellFoundedInduction, TLAPS

-------------------------------------------------------------------------------
(* Smallest elements *)

\* A set of natural numbers has a least one.
LEMMA LeastNumber ==
    ASSUME NEW T \in SUBSET Nat, T # {}
    PROVE  \E n \in T : \A m \in T : n <= m
<1>1. PICK n \in T : \A m \in T : ~ (<<m, n>> \in OpToRel(<, Nat))
  BY WFMin, NatLessThanWellFounded, Zenon
<1>2. \A m \in T : ~ (m < n)
  BY <1>1 DEF OpToRel
<1> QED
  BY <1>2

\* Of some subsets of a finite set one has no smaller one among them.
LEMMA SmallestSet ==
    ASSUME NEW S, IsFiniteSet(S), NEW B \in SUBSET SUBSET S, B # {}
    PROVE  \E s \in B : \A t \in SUBSET s : t \in B => t = s
<1> DEFINE T == {Cardinality(s) : s \in B}
<1>1. \A s \in B : IsFiniteSet(s) /\ Cardinality(s) \in Nat
  BY FS_Subset, FS_CardinalityType
<1>2. T \in SUBSET Nat /\ T # {}
  BY <1>1
<1>3. PICK n \in T : \A m \in T : n <= m
  <2> HIDE DEF T
  <2> QED
    BY <1>2, LeastNumber
<1>4. PICK s \in B : Cardinality(s) = n
  BY <1>3
<1>5. ASSUME NEW t \in SUBSET s, t \in B PROVE t = s
  <2>1. n <= Cardinality(t)
    BY <1>3, <1>5
  <2>2. Cardinality(t) <= Cardinality(s) /\ (Cardinality(t) = Cardinality(s) => t = s)
    BY <1>1, <1>5, FS_Subset
  <2>3. Cardinality(t) \in Nat /\ n \in Nat
    BY <1>1, <1>4, <1>5
  <2> QED
    BY <1>4, <2>1, <2>2, <2>3
<1> QED
  BY <1>5

\* A finite set of numbers has a greatest one.
LEMMA GreatestNumber ==
    ASSUME NEW T, IsFiniteSet(T), \A x \in T : x \in Int, T # {}
    PROVE  \E n \in T : \A m \in T : m <= n
<1> DEFINE Bounded(s) == \E n \in s : \A m \in s : m <= n
           B == {s \in SUBSET T : s # {} /\ ~ Bounded(s)}
<1> SUFFICES ASSUME T \in B PROVE FALSE
  OBVIOUS
<1>1. PICK s \in B : \A t \in SUBSET s : t \in B => t = s
  <2>1. B # {}
    BY Zenon
  <2>2. B \in SUBSET SUBSET T
    <3> HIDE DEF Bounded
    <3> QED
      OBVIOUS
  <2> HIDE DEF B
  <2> QED
    BY <2>1, <2>2, SmallestSet
<1>2. PICK x \in s : TRUE
  <2>1. s # {}
    BY Zenon
  <2> QED
    BY <2>1
<1> DEFINE r == s \ {x}
<1>3. r = {} \/ Bounded(r)
  <2>1. r \in SUBSET s /\ r # s /\ r \in SUBSET T
    BY <1>1, <1>2
  <2>2. r \notin B
    BY <1>1, <2>1
  <2> QED
    BY <2>1, <2>2
<1>4. Bounded(s)
  <2>1. CASE r = {}
    <3>1. s = {x} /\ x \in Int
      BY <1>1, <1>2, <2>1
    <3> QED
      BY <3>1
  <2>2. CASE r # {}
    <3>1. PICK n \in r : \A m \in r : m <= n
      BY <1>3, <2>2
    <3>2. /\ n \in Int /\ x \in Int /\ n \in s
          /\ \A m \in s : m = x \/ m <= n
      BY <1>1, <3>1
    <3>3. CASE x <= n
      BY <3>2, <3>3
    <3>4. CASE n < x
      <4>1. \A m \in s : m \in Int
        BY <1>1
      <4> QED
        BY <3>2, <3>4, <4>1
    <3> QED
      BY <3>2, <3>3, <3>4
  <2> QED
    BY <2>1, <2>2
<1> QED
  BY <1>1, <1>4

\* The library's greatest number of a set.
LEMMA MaxIs ==
    ASSUME NEW T, IsFiniteSet(T), \A x \in T : x \in Int, T # {}
    PROVE  Max(T) \in T /\ \A m \in T : m <= Max(T)
<1>1. PICK n \in T : \A m \in T : m <= n
  BY GreatestNumber
<1>2. \A m \in T : n >= m
  BY <1>1
<1>3. Max(T) \in T /\ \A m \in T : Max(T) >= m
  BY <1>2, Zenon DEF Max
<1> QED
  BY <1>3

\* A set of numbers with a least one has it as the library's minimum.
LEMMA MinIs ==
    ASSUME NEW S \in SUBSET Nat, S # {}
    PROVE  Min(S) \in S /\ \A m \in S : Min(S) <= m
<1>1. PICK n \in S : \A m \in S : n <= m
  BY LeastNumber
<1>2. Min(S) \in S /\ \A m \in S : Min(S) <= m
  BY <1>1, Zenon DEF Min
<1> QED
  BY <1>2

\* What holds of 0, and of every number that follows one it holds of, holds up to
\* any number.
LEMMA UpToAll ==
    ASSUME NEW n \in Nat, NEW P \in SUBSET (0 .. n), 0 \in P,
           \A k \in 1 .. n : k - 1 \in P => k \in P
    PROVE  P = 0 .. n
<1> DEFINE T == (0 .. n) \ P
<1>1. T \in SUBSET Nat
  OBVIOUS
<1>2. ASSUME NEW k \in T, \A m \in T : k <= m PROVE FALSE
  <2>1. k \in 1 .. n /\ k - 1 \in 0 .. n /\ ~ (k <= k - 1)
    OBVIOUS
  <2> QED
    BY <1>2, <2>1
<1>3. T = {}
  <2> HIDE DEF T
  <2> QED
    BY <1>1, <1>2, LeastNumber
<1> QED
  BY <1>3

\* A set of three is finite.
LEMMA ThreeAreFinite == ASSUME NEW x, NEW y, NEW z PROVE IsFiniteSet({x, y, z})
<1>1. IsFiniteSet({})
  BY FS_EmptySet
<1>2. IsFiniteSet({} \cup {x})
  BY <1>1, FS_AddElement, Zenon
<1>3. IsFiniteSet(({} \cup {x}) \cup {y})
  BY <1>2, FS_AddElement, Zenon
<1>4. IsFiniteSet((({} \cup {x}) \cup {y}) \cup {z})
  BY <1>3, FS_AddElement, Zenon
<1>5. (({} \cup {x}) \cup {y}) \cup {z} = {x, y, z}
  OBVIOUS
<1> QED
  BY <1>4, <1>5

-------------------------------------------------------------------------------
(* Functions defined by recursion over the numbers up to some bound *)

Recursion(f, n, b, g) ==
    f[0] = b /\ \A k \in 1 .. n : f[k] = g[<<k, f[k - 1]>>]

\* There is one.
LEMMA RecursionExists ==
    ASSUME NEW N \in Nat, NEW V, NEW b \in V, NEW g \in [(1 .. N) \X V -> V]
    PROVE  \E f \in [0 .. N -> V] : Recursion(f, N, b, g)
<1> DEFINE T == {n \in Nat : n <= N /\ ~ \E f \in [0 .. n -> V] : Recursion(f, n, b, g)}
<1> SUFFICES T = {}
  OBVIOUS
<1>1. ASSUME NEW n \in T, \A m \in T : n <= m PROVE FALSE
  <2>1. CASE n = 0
    <3>1. [k \in 0 .. 0 |-> b] \in [0 .. 0 -> V] /\ Recursion([k \in 0 .. 0 |-> b], 0, b, g)
      BY DEF Recursion
    <3> QED
      BY <1>1, <2>1, <3>1
  <2>2. CASE n # 0
    <3>1. n - 1 \in Nat /\ n \in Nat /\ n \in 1 .. N /\ n - 1 \notin T /\ n - 1 <= N
      <4>1. n \in Nat /\ n <= N
        OBVIOUS
      <4> HIDE DEF T
      <4> QED
        BY <1>1, <2>2, <4>1
    <3>2. PICK p \in [0 .. (n - 1) -> V] : Recursion(p, n - 1, b, g)
      BY <3>1
    <3> DEFINE q == [k \in 0 .. n |-> IF k = n THEN g[<<n, p[n - 1]>>] ELSE p[k]]
    <3>3. p[n - 1] \in V /\ g[<<n, p[n - 1]>>] \in V
      BY <3>1, <3>2
    <3>4. q \in [0 .. n -> V]
      BY <3>1, <3>2, <3>3
    <3>5. q[0] = b
      BY <3>1, <3>2 DEF Recursion
    <3>6. ASSUME NEW k \in 1 .. n PROVE q[k] = g[<<k, q[k - 1]>>]
      <4>1. q[k - 1] = p[k - 1]
        BY <3>1
      <4>2. CASE k = n
        BY <3>1, <4>1, <4>2
      <4>3. CASE k # n
        <5>1. k \in 1 .. (n - 1) /\ q[k] = p[k]
          BY <3>1, <4>3
        <5> QED
          BY <3>2, <4>1, <5>1 DEF Recursion
      <4> QED
        BY <4>2, <4>3
    <3>7. Recursion(q, n, b, g)
      <4> HIDE DEF q
      <4> QED
        BY <3>5, <3>6 DEF Recursion
    <3> QED
      BY <1>1, <3>4, <3>7
  <2> QED
    BY <2>1, <2>2
<1>2. T \in SUBSET Nat
  OBVIOUS
<1> HIDE DEF T
<1> QED
  BY <1>1, <1>2, LeastNumber

-------------------------------------------------------------------------------
(* The recursion under SumFunctionOnSet *)

Choice(s) == CHOOSE x \in s : TRUE

Sums(g, f, S) ==
    g = [s \in SUBSET S |-> IF s = {} THEN 0 ELSE f[Choice(s)] + g[s \ {Choice(s)}]]

\* The choice from a set is one of its members.
LEMMA ChoiceIn == ASSUME NEW s, s # {} PROVE Choice(s) \in s
  BY Zenon DEF Choice

\* What a table of sums has at one set.
LEMMA SumsAt ==
    ASSUME NEW S, NEW s \in SUBSET S, NEW f, NEW g, Sums(g, f, S)
    PROVE  g[s] = IF s = {} THEN 0 ELSE f[Choice(s)] + g[s \ {Choice(s)}]
<1> DEFINE E(t) == IF t = {} THEN 0 ELSE f[Choice(t)] + g[t \ {Choice(t)}]
<1>1. g = [t \in SUBSET S |-> E(t)]
  BY DEF Sums
<1>2. g[s] = E(s)
  <2> HIDE DEF E
  <2> QED
    BY <1>1
<1> QED
  BY <1>2

\* Two sums over sets that both have the members of U, and agree on them.
LEMMA SumsAgree ==
    ASSUME NEW S, IsFiniteSet(S), NEW T, NEW f, NEW e, NEW g, NEW h,
           Sums(g, f, S), Sums(h, e, T),
           NEW U \in SUBSET S, U \in SUBSET T, \A x \in U : f[x] = e[x]
    PROVE  g[U] = h[U]
<1> SUFFICES ASSUME g[U] # h[U] PROVE FALSE
  OBVIOUS
<1> DEFINE B == {s \in SUBSET U : g[s] # h[s]}
<1>1. PICK s \in B : \A t \in SUBSET s : t \in B => t = s
  <2>1. B \in SUBSET SUBSET U /\ B # {} /\ IsFiniteSet(U)
    BY FS_Subset
  <2> HIDE DEF B
  <2> QED
    BY <2>1, SmallestSet
<1>2. s \in SUBSET S /\ s \in SUBSET T /\ g[s] # h[s]
  BY <1>1
<1>3. /\ g[s] = IF s = {} THEN 0 ELSE f[Choice(s)] + g[s \ {Choice(s)}]
      /\ h[s] = IF s = {} THEN 0 ELSE e[Choice(s)] + h[s \ {Choice(s)}]
  <2> HIDE DEF B
  <2>1. g[s] = IF s = {} THEN 0 ELSE f[Choice(s)] + g[s \ {Choice(s)}]
    BY <1>2 DEF Sums
  <2>2. h[s] = IF s = {} THEN 0 ELSE e[Choice(s)] + h[s \ {Choice(s)}]
    BY <1>2 DEF Sums
  <2> QED
    BY <2>1, <2>2
<1>4. s # {}
  BY <1>2, <1>3
<1>5. Choice(s) \in s
  BY <1>4, ChoiceIn
<1>6. g[s \ {Choice(s)}] = h[s \ {Choice(s)}]
  BY <1>1, <1>5
<1> QED
  BY <1>1, <1>2, <1>3, <1>4, <1>5, <1>6

\* Every finite set has a table of the sums over its subsets.
LEMMA SumsExist ==
    ASSUME NEW S, IsFiniteSet(S), NEW f
    PROVE  \E g : Sums(g, f, S)
<1> DEFINE Small(n) == {s \in SUBSET S : Cardinality(s) <= n}
           Val(g, s) == IF s = {} THEN 0 ELSE f[Choice(s)] + g[s \ {Choice(s)}]
           Upto(g, n) == DOMAIN g = Small(n) /\ \A s \in Small(n) : g[s] = Val(g, s)
           T == {n \in Nat : ~ \E g : Upto(g, n)}
<1>1. \A s \in SUBSET S : IsFiniteSet(s) /\ Cardinality(s) \in Nat
  BY FS_Subset, FS_CardinalityType
<1>2. ASSUME NEW n \in T, \A m \in T : n <= m PROVE FALSE
  <2> DEFINE g0 == [s \in Small(0) |-> 0]
  <2>1. CASE n = 0
    <3>1. \A s \in Small(0) : s = {}
      <4>1. \A s \in Small(0) : IsFiniteSet(s) /\ Cardinality(s) = 0
        BY <1>1
      <4> QED
        BY <4>1, FS_EmptySet
    <3>2. Upto(g0, 0)
      BY <3>1
    <3> QED
      BY <1>2, <2>1, <3>2
  <2>2. CASE n # 0
    <3>1. n - 1 \in Nat /\ n - 1 \notin T
      <4>1. n \in Nat
        OBVIOUS
      <4> HIDE DEF T
      <4> QED
        BY <1>2, <2>2, <4>1
    <3>2. PICK p : Upto(p, n - 1)
      BY <3>1
    <3> DEFINE q == [s \in Small(n) |-> Val(p, s)]
    <3>3. ASSUME NEW s \in Small(n), s # {} PROVE s \ {Choice(s)} \in Small(n - 1)
      <4>1. Choice(s) \in s
        BY <3>3, ChoiceIn
      <4>2. Cardinality(s \ {Choice(s)}) = Cardinality(s) - 1
        BY <1>1, <4>1, FS_RemoveElement
      <4> QED
        BY <1>1, <1>2, <4>2
    <3>4. ASSUME NEW s \in Small(n - 1) PROVE s \in Small(n) /\ p[s] = Val(p, s)
      BY <1>1, <1>2, <3>2, <3>4
    <3>5. ASSUME NEW s \in Small(n) PROVE q[s] = Val(q, s)
      <4>1. q[s] = Val(p, s)
        OBVIOUS
      <4>2. CASE s = {}
        BY <4>1, <4>2
      <4>3. CASE s # {}
        <5> DEFINE u == s \ {Choice(s)}
        <5>1. u \in Small(n) /\ p[u] = Val(p, u)
          BY <3>3, <3>4, <4>3
        <5>2. q[u] = Val(p, u)
          <6> HIDE DEF u, Val, Small
          <6> QED
            BY <5>1
        <5>3. q[u] = p[u]
          BY <5>1, <5>2
        <5> QED
          BY <4>1, <4>3, <5>3
      <4> QED
        BY <4>2, <4>3
    <3>6. Upto(q, n)
      <4> HIDE DEF Val, Small
      <4> QED
        BY <3>5
    <3> QED
      BY <1>2, <3>6
  <2> QED
    BY <2>1, <2>2
<1>3. T = {}
  <2>1. T \in SUBSET Nat
    OBVIOUS
  <2> HIDE DEF T
  <2> QED
    BY <1>2, <2>1, LeastNumber
<1>4. PICK g : Upto(g, Cardinality(S))
  BY <1>1, <1>3
<1>5. Small(Cardinality(S)) = SUBSET S
  BY FS_Subset
<1>6. DOMAIN g = SUBSET S /\ \A s \in SUBSET S : g[s] = Val(g, s)
  BY <1>4, <1>5
<1> DEFINE G == [s \in SUBSET S |-> g[s]]
<1>7. ASSUME NEW s \in SUBSET S PROVE G[s] = Val(G, s)
  <2>1. G[s] = Val(g, s)
    BY <1>6
  <2>2. s \ {Choice(s)} \in SUBSET S
    OBVIOUS
  <2>3. G[s \ {Choice(s)}] = g[s \ {Choice(s)}]
    BY <2>2
  <2> QED
    BY <2>1, <2>3
<1>8. G = [s \in SUBSET S |-> Val(G, s)]
  <2>1. G = [s \in SUBSET S |-> G[s]]
    OBVIOUS
  <2> HIDE DEF G, Val
  <2> QED
    BY <1>7, <2>1
<1>9. Sums(G, f, S)
  <2> HIDE DEF G
  <2> QED
    BY <1>8 DEF Sums
<1> QED
  BY <1>9

-------------------------------------------------------------------------------
(* Sums of the values of a function *)

\* The fold of the library is such a table at the whole set.
LEMMA SumIs ==
    ASSUME NEW S, IsFiniteSet(S), NEW f
    PROVE  \E g : Sums(g, f, S) /\ SumFunctionOnSet(f, S) = g[S]
<1>1. \E g : Sums(g, f, S)
  BY SumsExist
<1> DEFINE G == CHOOSE g : Sums(g, f, S)
<1>2. Sums(G, f, S)
  BY <1>1, Zenon
<1>3. SumFunctionOnSet(f, S) = G[S]
  BY Zenon DEF SumFunctionOnSet, FoldFunctionOnSet, MapThenFoldSet, Sums, Choice
<1> QED
  BY <1>2, <1>3, Zenon

\* Only the values on the set count.
LEMMA SumAgrees ==
    ASSUME NEW S, IsFiniteSet(S), NEW f, NEW e, \A x \in S : f[x] = e[x]
    PROVE  SumFunctionOnSet(f, S) = SumFunctionOnSet(e, S)
<1>1. PICK g : Sums(g, f, S) /\ SumFunctionOnSet(f, S) = g[S]
  BY SumIs, Zenon
<1>2. PICK h : Sums(h, e, S) /\ SumFunctionOnSet(e, S) = h[S]
  BY SumIs, Zenon
<1>3. g[S] = h[S]
  BY <1>1, <1>2, SumsAgree
<1> QED
  BY <1>1, <1>2, <1>3, Zenon

\* Nothing adds up to zero.
LEMMA SumOfNone == ASSUME NEW f PROVE SumFunctionOnSet(f, {}) = 0
<1>1. PICK g : Sums(g, f, {}) /\ SumFunctionOnSet(f, {}) = g[{}]
  BY SumIs, FS_EmptySet, Zenon
<1>2. g[{}] = 0
  BY <1>1, SumsAt
<1> QED
  BY <1>1, <1>2

\* A sum is what the choice adds to the sum of the others.
LEMMA SumOfChoice ==
    ASSUME NEW S, IsFiniteSet(S), S # {}, NEW f
    PROVE  SumFunctionOnSet(f, S) = f[Choice(S)] + SumFunctionOnSet(f, S \ {Choice(S)})
<1> DEFINE R == S \ {Choice(S)}
<1>1. IsFiniteSet(R)
  BY FS_RemoveElement
<1>2. PICK g : Sums(g, f, S) /\ SumFunctionOnSet(f, S) = g[S]
  BY SumIs, Zenon
<1>3. PICK h : Sums(h, f, R) /\ SumFunctionOnSet(f, R) = h[R]
  BY <1>1, SumIs, Zenon
<1>4. g[R] = h[R]
  <2>1. R \in SUBSET S /\ R \in SUBSET R
    OBVIOUS
  <2> HIDE DEF R
  <2> QED
    BY <1>2, <1>3, <2>1, SumsAgree
<1>5. g[S] = f[Choice(S)] + g[R]
  BY <1>2, SumsAt
<1> QED
  BY <1>2, <1>3, <1>4, <1>5

\* Integers add up to an integer.
LEMMA SumIsInt ==
    ASSUME NEW S, IsFiniteSet(S), NEW f, \A x \in S : f[x] \in Int
    PROVE  SumFunctionOnSet(f, S) \in Int
<1> SUFFICES ASSUME SumFunctionOnSet(f, S) \notin Int PROVE FALSE
  OBVIOUS
<1> DEFINE B == {s \in SUBSET S : SumFunctionOnSet(f, s) \notin Int}
<1>1. PICK s \in B : \A t \in SUBSET s : t \in B => t = s
  <2>1. B \in SUBSET SUBSET S /\ B # {}
    OBVIOUS
  <2> HIDE DEF B
  <2> QED
    BY <2>1, SmallestSet
<1>2. IsFiniteSet(s)
  BY FS_Subset
<1>3. s # {}
  BY SumOfNone
<1>4. Choice(s) \in s
  BY <1>3, ChoiceIn
<1>5. SumFunctionOnSet(f, s \ {Choice(s)}) \in Int
  BY <1>1, <1>4
<1>6. f[Choice(s)] \in Int /\ SumFunctionOnSet(f, s) \notin Int
  BY <1>1, <1>4
<1>7. SumFunctionOnSet(f, s) = f[Choice(s)] + SumFunctionOnSet(f, s \ {Choice(s)})
  BY <1>2, <1>3, SumOfChoice
<1> QED
  BY <1>5, <1>6, <1>7

\* Natural numbers add up to a natural number.
LEMMA SumIsNat ==
    ASSUME NEW S, IsFiniteSet(S), NEW f, \A x \in S : f[x] \in Nat
    PROVE  SumFunctionOnSet(f, S) \in Nat
<1> SUFFICES ASSUME SumFunctionOnSet(f, S) \notin Nat PROVE FALSE
  OBVIOUS
<1> DEFINE B == {s \in SUBSET S : SumFunctionOnSet(f, s) \notin Nat}
<1>1. PICK s \in B : \A t \in SUBSET s : t \in B => t = s
  <2>1. B \in SUBSET SUBSET S /\ B # {}
    OBVIOUS
  <2> HIDE DEF B
  <2> QED
    BY <2>1, SmallestSet
<1>2. IsFiniteSet(s)
  BY FS_Subset
<1>3. s # {}
  BY SumOfNone
<1>4. Choice(s) \in s
  BY <1>3, ChoiceIn
<1>5. SumFunctionOnSet(f, s \ {Choice(s)}) \in Nat
  BY <1>1, <1>4
<1>6. f[Choice(s)] \in Nat /\ SumFunctionOnSet(f, s) \notin Nat
  BY <1>1, <1>4
<1>7. SumFunctionOnSet(f, s) = f[Choice(s)] + SumFunctionOnSet(f, s \ {Choice(s)})
  BY <1>2, <1>3, SumOfChoice
<1> QED
  BY <1>5, <1>6, <1>7

\* Any member may be taken out first.
LEMMA SumOfMember ==
    ASSUME NEW S, IsFiniteSet(S), NEW f, \A x \in S : f[x] \in Int, NEW y \in S
    PROVE  SumFunctionOnSet(f, S) = f[y] + SumFunctionOnSet(f, S \ {y})
<1> DEFINE Sum(s) == SumFunctionOnSet(f, s)
           B == {s \in SUBSET S : \E z \in s : Sum(s) # f[z] + Sum(s \ {z})}
<1> SUFFICES ASSUME S \in B PROVE FALSE
  BY Zenon
<1>1. PICK s \in B : \A t \in SUBSET s : t \in B => t = s
  <2>1. B \in SUBSET SUBSET S /\ B # {}
    OBVIOUS
  <2> HIDE DEF B
  <2> QED
    BY <2>1, SmallestSet
<1>2. PICK z \in s : Sum(s) # f[z] + Sum(s \ {z})
  BY <1>1
<1>3. \A t \in SUBSET s : IsFiniteSet(t) /\ Sum(t) \in Int
  <2>1. \A t \in SUBSET s : IsFiniteSet(t) /\ \A x \in t : f[x] \in Int
    BY FS_Subset
  <2> QED
    BY <2>1, SumIsInt
<1> DEFINE x == Choice(s)
           w == s \ {x, z}
<1>4. x \in s /\ Sum(s) = f[x] + Sum(s \ {x})
  BY <1>3, ChoiceIn, SumOfChoice
<1>5. x # z
  BY <1>2, <1>4
<1>6. Sum(s \ {x}) = f[z] + Sum(w)
  <2>1. (s \ {x}) \ {z} = w /\ s \ {x} \in SUBSET s /\ s \ {x} # s /\ z \in s \ {x}
    BY <1>4, <1>5
  <2>2. s \ {x} \notin B /\ s \ {x} \in SUBSET S
    BY <1>1, <2>1
  <2> QED
    BY <2>1, <2>2
<1>7. Sum(s \ {z}) = f[x] + Sum(w)
  <2>1. (s \ {z}) \ {x} = w /\ s \ {z} \in SUBSET s /\ s \ {z} # s /\ x \in s \ {z}
    BY <1>4, <1>5
  <2>2. s \ {z} \notin B /\ s \ {z} \in SUBSET S
    BY <1>1, <2>1
  <2> QED
    BY <2>1, <2>2
<1>8. f[x] \in Int /\ f[z] \in Int /\ Sum(w) \in Int
  BY <1>3, <1>4
<1> HIDE DEF x, w, Sum
<1> QED
  BY <1>2, <1>4, <1>6, <1>7, <1>8

\* One more member adds its value.
LEMMA SumWithMember ==
    ASSUME NEW S, IsFiniteSet(S), NEW f, NEW y, y \notin S, \A x \in S \cup {y} : f[x] \in Int
    PROVE  SumFunctionOnSet(f, S \cup {y}) = f[y] + SumFunctionOnSet(f, S)
<1>1. IsFiniteSet(S \cup {y}) /\ (S \cup {y}) \ {y} = S /\ y \in S \cup {y}
  BY FS_AddElement
<1> QED
  BY <1>1, SumOfMember

\* A sum of natural numbers is zero only if they all are.
LEMMA ZeroSum ==
    ASSUME NEW S, IsFiniteSet(S), NEW f, \A x \in S : f[x] \in Nat,
           SumFunctionOnSet(f, S) = 0, NEW y \in S
    PROVE  f[y] = 0
<1>1. SumFunctionOnSet(f, S) = f[y] + SumFunctionOnSet(f, S \ {y})
  <2>1. \A x \in S : f[x] \in Int
    OBVIOUS
  <2> QED
    BY <2>1, SumOfMember
<1>2. SumFunctionOnSet(f, S \ {y}) \in Nat
  <2>1. IsFiniteSet(S \ {y}) /\ \A x \in S \ {y} : f[x] \in Nat
    BY FS_RemoveElement
  <2> QED
    BY <2>1, SumIsNat
<1> QED
  BY <1>1, <1>2

\* Equal numbers add up to as many times the number.
LEMMA SumOfEqual ==
    ASSUME NEW S, IsFiniteSet(S), NEW v \in Int, NEW f, \A x \in S : f[x] = v
    PROVE  SumFunctionOnSet(f, S) = Cardinality(S) * v
<1> DEFINE B == {s \in SUBSET S : SumFunctionOnSet(f, s) # Cardinality(s) * v}
<1> SUFFICES ASSUME S \in B PROVE FALSE
  BY Zenon
<1>1. PICK s \in B : \A t \in SUBSET s : t \in B => t = s
  <2>1. B \in SUBSET SUBSET S /\ B # {}
    OBVIOUS
  <2> HIDE DEF B
  <2> QED
    BY <2>1, SmallestSet
<1>2. IsFiniteSet(s) /\ s \in SUBSET S /\ SumFunctionOnSet(f, s) # Cardinality(s) * v
  BY FS_Subset
<1>3. s # {}
  BY <1>2, SumOfNone, FS_EmptySet
<1> DEFINE x == Choice(s)
           r == s \ {x}
<1>4. x \in s /\ SumFunctionOnSet(f, s) = f[x] + SumFunctionOnSet(f, r)
  BY <1>2, <1>3, ChoiceIn, SumOfChoice
<1>5. SumFunctionOnSet(f, r) = Cardinality(r) * v
  <2>1. r \in SUBSET s /\ r # s
    BY <1>4
  <2>2. r \notin B /\ r \in SUBSET S
    BY <1>1, <1>2, <2>1
  <2> QED
    BY <2>2
<1>6. Cardinality(r) = Cardinality(s) - 1 /\ Cardinality(s) \in Nat
  BY <1>2, <1>4, FS_RemoveElement, FS_CardinalityType
<1>7. f[x] = v
  BY <1>2, <1>4
<1> HIDE DEF x, r
<1>8. \A c \in Nat : v + (c - 1) * v = c * v
  OBVIOUS
<1> QED
  BY <1>2, <1>4, <1>5, <1>6, <1>7, <1>8

\* The sizes of sets that do not meet add up to that of their union.
LEMMA SumOfSizes ==
    ASSUME NEW D, IsFiniteSet(D), NEW A,
           \A d \in D : IsFiniteSet(A[d]),
           \A c, d \in D : c # d => A[c] \cap A[d] = {},
           NEW f, \A d \in D : f[d] = Cardinality(A[d])
    PROVE  SumFunctionOnSet(f, D) = Cardinality(UNION {A[d] : d \in D})
<1> DEFINE U(s) == UNION {A[d] : d \in s}
           B == {s \in SUBSET D : SumFunctionOnSet(f, s) # Cardinality(U(s))}
<1> SUFFICES ASSUME D \in B PROVE FALSE
  BY Zenon
<1>1. PICK s \in B : \A t \in SUBSET s : t \in B => t = s
  <2>1. B \in SUBSET SUBSET D /\ B # {}
    OBVIOUS
  <2> HIDE DEF B
  <2> QED
    BY <2>1, SmallestSet
<1>2. IsFiniteSet(s) /\ s \in SUBSET D
  BY FS_Subset
<1>3. s # {}
  <2>1. U({}) = {}
    OBVIOUS
  <2>2. Cardinality({}) = 0 /\ SumFunctionOnSet(f, {}) = 0
    BY FS_EmptySet, SumOfNone
  <2> QED
    BY <1>1, <2>1, <2>2
<1> DEFINE x == Choice(s)
           r == s \ {x}
<1>4. x \in s /\ SumFunctionOnSet(f, s) = f[x] + SumFunctionOnSet(f, r)
  BY <1>2, <1>3, ChoiceIn, SumOfChoice
<1>5. SumFunctionOnSet(f, r) = Cardinality(U(r))
  <2>1. r \in SUBSET s /\ r # s
    BY <1>4
  <2>2. r \notin B /\ r \in SUBSET D
    BY <1>1, <1>2, <2>1
  <2> QED
    BY <2>2
<1>6. IsFiniteSet(U(r))
  <2>1. IsFiniteSet(r)
    BY <1>2, FS_RemoveElement
  <2> DEFINE F == [d \in r |-> A[d]]
             V == {A[d] : d \in r}
  <2>2. IsFiniteSet(V)
    <3>1. F \in Surjection(r, V)
      BY DEF Surjection
    <3> HIDE DEF F, V
    <3> QED
      BY <2>1, <3>1, FS_Surjection
  <2>3. \A T \in V : IsFiniteSet(T)
    BY <1>2
  <2> QED
    BY <2>2, <2>3, FS_UNION
<1>7. U(s) = U(r) \cup A[x] /\ U(r) \cap A[x] = {}
  <2>1. s = r \cup {x} /\ x \notin r /\ r \in SUBSET D /\ x \in D
    BY <1>2, <1>4
  <2> HIDE DEF r, x
  <2> QED
    BY <2>1
<1>8. Cardinality(U(s)) = Cardinality(U(r)) + Cardinality(A[x])
  <2>1. Cardinality(U(r)) \in Nat /\ Cardinality(A[x]) \in Nat /\ IsFiniteSet(A[x])
    BY <1>2, <1>4, <1>6, FS_CardinalityType
  <2>2. Cardinality(U(r) \cup A[x])
           = Cardinality(U(r)) + Cardinality(A[x]) - Cardinality(U(r) \cap A[x])
    <3> HIDE DEF U, x, r
    <3> QED
      BY <1>6, <2>1, FS_Union
  <2>3. Cardinality(U(r) \cap A[x]) = 0
    <3> HIDE DEF U, x, r
    <3> QED
      BY <1>7, FS_EmptySet
  <2> HIDE DEF U, x, r
  <2> QED
    BY <1>7, <2>1, <2>2, <2>3
<1>9. f[x] = Cardinality(A[x]) /\ Cardinality(A[x]) \in Nat /\ Cardinality(U(r)) \in Nat
  BY <1>2, <1>4, <1>6, FS_CardinalityType
<1>10. SumFunctionOnSet(f, s) # Cardinality(U(s))
  BY <1>1
<1> HIDE DEF x, r, U
<1> QED
  BY <1>4, <1>5, <1>8, <1>9, <1>10

=============================================================================

---------------------------- MODULE ArrayProofs -----------------------------
(***************************************************************************)
(* What splice() and filter() leave and in which order, for every sequence *)
(* and every set, and the facts about induction and recursion that this    *)
(* and other proofs need.                                                  *)
(***************************************************************************)
EXTENDS Arrays, FiniteSetTheorems, WellFoundedInduction, TLAPS

-----------------------------------------------------------------------------
\* Induction over the naturals, in the form with a set for the predicate.

\* Every non-empty set of naturals has a least element: the first live outcome
\* that the loop of prune() stops at exists.
LEMMA LeastNatural ==
    ASSUME NEW T, T \subseteq Nat, T # {}
    PROVE  \E x \in T : \A y \in T : x <= y
<1> DEFINE R == {ss \in Nat \X Nat : ss[1] < ss[2]}
<1>1. IsWellFoundedOn(R, Nat)
  BY NatLessThanWellFounded, Zenon DEF OpToRel
<1> HIDE DEF R
<1>2. PICK x \in T : \A y \in T : ~ (<<y, x>> \in R)
  BY <1>1, WFMin
<1>3. \A y \in T : x \in Nat /\ y \in Nat /\ ~ (y < x)
  BY <1>2 DEF R
<1>4. \A y \in T : x <= y
  BY <1>3
<1> QED
  BY <1>4

\* A set that holds 0 and the successor of each of its naturals holds them all.
LEMMA SetInduction ==
    ASSUME NEW E, 0 \in E, \A n \in Nat : n \in E => n + 1 \in E
    PROVE  Nat \subseteq E
<1> SUFFICES ASSUME Nat \ E # {} PROVE FALSE
  OBVIOUS
<1>1. PICK x \in Nat \ E : \A y \in Nat \ E : x <= y
  BY LeastNatural
<1>2. x # 0 /\ x - 1 \in Nat /\ x - 1 \in E /\ (x - 1) + 1 = x
  BY <1>1
<1> QED
  BY <1>2

\* The k-th smallest member of a set of positions exists: what
\* outcomes.filter() puts at place k.
LEMMA Ranked ==
    ASSUME NEW n \in Nat, NEW S, S \subseteq 1 .. n, NEW k \in 1 .. Cardinality(S)
    PROVE  \E i \in S : Cardinality(S \cap (1 .. i)) = k
<1> DEFINE Low(m) == S \cap (1 .. m)
           E == {m \in Nat : \A l \in 1 .. Cardinality(Low(m)) :
                                \E i \in S : Cardinality(Low(i)) = l}
<1> HIDE DEF E
<1>1. \A j \in S : j \in Int /\ 1 <= j /\ j <= n
  OBVIOUS
<1>2. \A m : IsFiniteSet(Low(m)) /\ Cardinality(Low(m)) \in Nat
  <2>1. IsFiniteSet(1 .. n)
    BY FS_Interval
  <2> QED
    BY <2>1, FS_Subset, FS_CardinalityType
<1>3. 0 \in E
  <2>1. Low(0) = {}
    BY <1>1
  <2>2. Cardinality(Low(0)) = 0
    BY <2>1, FS_EmptySet
  <2> HIDE DEF Low
  <2> QED
    BY <2>2 DEF E
<1>4. ASSUME NEW m \in Nat, m \in E PROVE m + 1 \in E
  <2>1. CASE m + 1 \in S
    <3>1. Low(m + 1) = Low(m) \cup {m + 1} /\ m + 1 \notin Low(m)
      BY <2>1, <1>1
    <3> HIDE DEF Low
    <3>2. Cardinality(Low(m + 1)) = Cardinality(Low(m)) + 1
      BY <3>1, <1>2, FS_AddElement
    <3> QED
      BY <1>2, <1>4, <2>1, <3>2 DEF E
  <2>2. CASE m + 1 \notin S
    <3>1. Low(m + 1) = Low(m)
      BY <2>2, <1>1
    <3> HIDE DEF Low
    <3> QED
      BY <3>1, <1>4 DEF E
  <2> QED
    BY <2>1, <2>2
<1>5. Nat \subseteq E
  BY <1>3, <1>4, SetInduction
<1>6. Low(n) = S
  BY <1>1
<1> QED
  BY <1>5, <1>6 DEF E

-----------------------------------------------------------------------------
\* splice() of one place, as of a queue in shed.ts, shortens by one and keeps
\* every other element in its order.
LEMMA SpliceType ==
    ASSUME NEW S, NEW s \in Seq(S), NEW i \in 1 .. Len(s)
    PROVE  /\ Splice(s, i) \in Seq(S)
           /\ Len(Splice(s, i)) = Len(s) - 1
           /\ \A j \in 1 .. (Len(s) - 1) :
                Splice(s, i)[j] = IF j < i THEN s[j] ELSE s[j + 1]
<1> DEFINE n == Len(s) - 1
<1>1. Len(s) \in Nat /\ n \in Nat /\ n + 1 = Len(s)
  OBVIOUS
<1>2. \A j \in 1 .. n : (IF j < i THEN s[j] ELSE s[j + 1]) \in S
  BY <1>1
<1>3. Splice(s, i) = [j \in 1 .. n |-> IF j < i THEN s[j] ELSE s[j + 1]]
  BY DEF Splice
<1>4. [j \in 1 .. n |-> IF j < i THEN s[j] ELSE s[j + 1]] \in Seq(S)
  BY <1>1, <1>2
<1>5. Len([j \in 1 .. n |-> IF j < i THEN s[j] ELSE s[j + 1]]) = n
  BY <1>1
<1> QED
  BY <1>1, <1>3, <1>4, <1>5

\* filter() keeps exactly the elements that pass the test, in their order:
\* place k of the result comes from place f[k] of s, later places from later
\* ones, and no element of T is lost.
THEOREM FilterKeeps ==
    ASSUME NEW S, NEW s \in Seq(S), NEW T
    PROVE  LET t == Filter(s, T) IN
           /\ t \in Seq(S)
           /\ \E f \in [1 .. Len(t) -> 1 .. Len(s)] :
                /\ \A k \in 1 .. Len(t) : t[k] = s[f[k]] /\ t[k] \in T
                /\ \A k, l \in 1 .. Len(t) : k < l => f[k] < f[l]
           /\ \A i \in 1 .. Len(s) : s[i] \in T => \E k \in 1 .. Len(t) : t[k] = s[i]
<1> DEFINE kept == {i \in 1 .. Len(s) : s[i] \in T}
           N == Cardinality(kept)
           At(k) == CHOOSE i \in kept : Cardinality(kept \cap (1 .. i)) = k
           t == [k \in 1 .. N |-> s[At(k)]]
           f == [k \in 1 .. N |-> At(k)]
<1>1. Len(s) \in Nat /\ kept \subseteq 1 .. Len(s)
  OBVIOUS
<1>2. IsFiniteSet(kept) /\ N \in Nat
  <2>1. IsFiniteSet(1 .. Len(s))
    BY <1>1, FS_Interval
  <2> HIDE DEF kept
  <2> QED
    BY <2>1, <1>1, FS_Subset, FS_CardinalityType
<1>3. Filter(s, T) = t
  BY DEF Filter
<1>4. \A k \in 1 .. N : \E i \in kept : Cardinality(kept \cap (1 .. i)) = k
  <2> HIDE DEF kept
  <2> QED
    BY <1>1, Ranked
<1>5. \A k \in 1 .. N : At(k) \in kept /\ Cardinality(kept \cap (1 .. At(k))) = k
  <2> HIDE DEF kept
  <2> QED
    BY <1>4
<1>6. \A k \in 1 .. N : At(k) \in 1 .. Len(s) /\ s[At(k)] \in S /\ s[At(k)] \in T
  <2> HIDE DEF At
  <2>1. \A k \in 1 .. N : At(k) \in 1 .. Len(s)
    <3> HIDE DEF kept
    <3> QED
      BY <1>5, <1>1
  <2>2. \A i \in 1 .. Len(s) : s[i] \in S
    OBVIOUS
  <2>3. \A i \in kept : s[i] \in T
    OBVIOUS
  <2> HIDE DEF kept
  <2> QED
    BY <2>1, <2>2, <2>3, <1>5
<1>7. t \in Seq(S) /\ Len(t) = N
  <2> HIDE DEF At, kept
  <2> QED
    BY <1>2, <1>6
<1>8. ASSUME NEW k \in 1 .. N, NEW l \in 1 .. N, k < l PROVE At(k) < At(l)
  <2> SUFFICES ASSUME At(l) <= At(k) PROVE FALSE
    <3> HIDE DEF At
    <3> QED
      BY <1>6
  <2> HIDE DEF At
  <2>1. kept \cap (1 .. At(l)) \subseteq kept \cap (1 .. At(k))
    BY <1>6
  <2> HIDE DEF kept
  <2>2. IsFiniteSet(kept \cap (1 .. At(k)))
    BY <1>2, FS_Subset
  <2>3. Cardinality(kept \cap (1 .. At(l))) <= Cardinality(kept \cap (1 .. At(k)))
    BY <2>1, <2>2, FS_Subset
  <2> QED
    BY <2>3, <1>5, <1>8
<1>9. ASSUME NEW i \in 1 .. Len(s), s[i] \in T
      PROVE  \E k \in 1 .. N : t[k] = s[i]
  <2> DEFINE k == Cardinality(kept \cap (1 .. i))
  <2>1. i \in kept /\ i \in kept \cap (1 .. i)
    BY <1>9
  <2> HIDE DEF kept
  <2>2. IsFiniteSet(kept \cap (1 .. i)) /\ kept \cap (1 .. i) \subseteq kept
    BY <1>2, FS_Subset
  <2>3. k \in Nat /\ k <= N
    BY <1>2, <2>2, FS_Subset, FS_CardinalityType
  <2>4. k # 0
    BY <2>1, <2>2, FS_EmptySet
  <2>5. k \in 1 .. N
    BY <2>3, <2>4, <1>2
  <2>6. At(k) = i
    <3> DEFINE h == At(k)
    <3>1. h \in kept /\ Cardinality(kept \cap (1 .. h)) = k /\ h \in 1 .. Len(s)
      BY <2>5, <1>5, <1>6
    <3> HIDE DEF h, At
    <3>2. IsFiniteSet(kept \cap (1 .. h))
      BY <1>2, FS_Subset
    <3>3. CASE h < i
      <4>1. /\ kept \cap (1 .. h) \subseteq kept \cap (1 .. i)
            /\ i \notin kept \cap (1 .. h)
        BY <3>1, <3>3
      <4>2. kept \cap (1 .. h) = kept \cap (1 .. i)
        BY <4>1, <2>2, <3>1, FS_Subset DEF k
      <4> QED
        BY <4>1, <4>2, <2>1
    <3>4. CASE i < h
      <4>1. /\ kept \cap (1 .. i) \subseteq kept \cap (1 .. h)
            /\ h \notin kept \cap (1 .. i) /\ h \in kept \cap (1 .. h)
        BY <3>1, <3>4
      <4>2. kept \cap (1 .. i) = kept \cap (1 .. h)
        BY <4>1, <3>2, <3>1, FS_Subset DEF k
      <4> QED
        BY <4>1, <4>2
    <3> QED
      BY <3>1, <3>3, <3>4 DEF h
  <2> HIDE DEF At, k
  <2> QED
    BY <2>5, <2>6
<1>10. /\ f \in [1 .. N -> 1 .. Len(s)]
       /\ \A k \in 1 .. N : t[k] = s[f[k]] /\ t[k] \in T
       /\ \A k, l \in 1 .. N : k < l => f[k] < f[l]
  <2> HIDE DEF At, kept
  <2> QED
    BY <1>6, <1>8
<1> HIDE DEF f, t, At, kept, N
<1> QED
  BY <1>3, <1>7, <1>9, <1>10

\* What filter() returns is made of elements of what it was given.
LEMMA FilterSubset ==
    ASSUME NEW S, NEW s \in Seq(S), NEW T
    PROVE  /\ Filter(s, T) \in Seq(S)
           /\ \A k \in 1 .. Len(Filter(s, T)) :
                Filter(s, T)[k] \in T /\ \E i \in 1 .. Len(s) : Filter(s, T)[k] = s[i]
<1> DEFINE t == Filter(s, T)
<1>1. /\ t \in Seq(S)
      /\ \E f \in [1 .. Len(t) -> 1 .. Len(s)] : \A k \in 1 .. Len(t) : t[k] = s[f[k]] /\ t[k] \in T
  BY FilterKeeps
<1> HIDE DEF t
<1>2. PICK f \in [1 .. Len(t) -> 1 .. Len(s)] : \A k \in 1 .. Len(t) : t[k] = s[f[k]] /\ t[k] \in T
  BY <1>1
<1>3. \A k \in 1 .. Len(t) : f[k] \in 1 .. Len(s)
  BY <1>2
<1> QED
  BY <1>1, <1>2, <1>3 DEF t

-----------------------------------------------------------------------------
\* Recursion over things of some height, as over nested schemas.

\* What holds of everything of which it holds below holds: the validator's nested
\* calls are for schemas of smaller height.
LEMMA HeightInduction ==
    ASSUME NEW D, NEW h \in [D -> Nat], NEW S,
           \A x \in D : (\A y \in D : h[y] < h[x] => y \in S) => x \in S
    PROVE  D \subseteq S
<1> SUFFICES ASSUME D \ S # {} PROVE FALSE
  OBVIOUS
<1> DEFINE T == {h[x] : x \in D \ S}
<1>1. T \subseteq Nat /\ T # {}
  OBVIOUS
<1>2. PICK n \in T : \A m \in T : n <= m
  BY <1>1, LeastNatural
<1>3. PICK x \in D \ S : n = h[x]
  BY <1>2
<1>4. ASSUME NEW y \in D, h[y] < h[x] PROVE y \in S
  <2>1. y \notin S => h[y] \in T
    OBVIOUS
  <2>2. h[x] \in Nat /\ h[y] \in Nat /\ (h[y] \in T => h[x] <= h[y])
    BY <1>2, <1>3
  <2> QED
    BY <1>4, <2>1, <2>2
<1> QED
  BY <1>3, <1>4

\* Phi makes of a function from D to V another one, whose value at x depends on
\* values at smaller heights only.
DependsBelow(Phi, h, D, V) ==
    /\ h \in [D -> Nat] /\ Phi \in [[D -> V] -> [D -> V]]
    /\ \A x \in D : \A f, g \in [D -> V] :
        (\A y \in D : h[y] < h[x] => f[y] = g[y]) => Phi[f][x] = Phi[g][x]

\* A recursive definition in which every value depends on values at smaller
\* heights only defines a function: its equation has a solution.
LEMMA RecursionByHeight ==
    ASSUME NEW D, NEW V, V # {}, NEW h, NEW Phi, DependsBelow(Phi, h, D, V)
    PROVE  \E f \in [D -> V] : f = Phi[f]
<1> PICK v : v \in V
  OBVIOUS
<1> /\ h \in [D -> Nat] /\ Phi \in [[D -> V] -> [D -> V]]
      /\ \A x \in D : \A f, g \in [D -> V] :
            (\A y \in D : h[y] < h[x] => f[y] = g[y]) => Phi[f][x] = Phi[g][x]
  BY DEF DependsBelow
<1> DEFINE Good(f, n) == \A x \in D : h[x] < n => f[x] = Phi[f][x]
           E == {n \in Nat : \E f \in [D -> V] : Good(f, n)}
<1>1. Nat \subseteq E
  <2>1. 0 \in E
    <3>1. [x \in D |-> v] \in [D -> V] /\ Good([x \in D |-> v], 0)
      OBVIOUS
    <3> QED
      BY <3>1
  <2>2. ASSUME NEW n \in Nat, n \in E PROVE n + 1 \in E
    <3>1. PICK f \in [D -> V] : Good(f, n)
      BY <2>2
    <3>2. Phi[f] \in [D -> V]
      OBVIOUS
    <3>3. ASSUME NEW x \in D, h[x] < n + 1 PROVE Phi[f][x] = Phi[Phi[f]][x]
      <4>1. \A y \in D : h[y] < h[x] => f[y] = Phi[f][y]
        BY <3>1, <3>3
      <4> QED
        BY <4>1, <3>2
    <3> QED
      BY <3>2, <3>3
  <2> HIDE DEF E
  <2> QED
    BY <2>1, <2>2, SetInduction
<1>2. ASSUME NEW n \in Nat, NEW f \in [D -> V], NEW g \in [D -> V], Good(f, n), Good(g, n),
             NEW x \in D, h[x] < n
      PROVE  f[x] = g[x]
  <2> DEFINE S == {y \in D : h[y] < n => f[y] = g[y]}
  <2>1. ASSUME NEW y \in D, \A z \in D : h[z] < h[y] => z \in S PROVE y \in S
    <3> SUFFICES ASSUME h[y] < n PROVE f[y] = g[y]
      OBVIOUS
    <3>1. \A z \in D : h[z] < h[y] => f[z] = g[z]
      BY <2>1
    <3>2. Phi[f][y] = Phi[g][y]
      BY <3>1
    <3> QED
      BY <3>2, <1>2
  <2>2. D \subseteq S
    <3> HIDE DEF S
    <3> QED
      BY <2>1, HeightInduction
  <2> QED
    BY <2>2, <1>2
<1> DEFINE At(n) == CHOOSE f \in [D -> V] : Good(f, n)
           G == [x \in D |-> At(h[x] + 1)[x]]
<1>3. ASSUME NEW n \in Nat PROVE At(n) \in [D -> V] /\ Good(At(n), n)
  <2>1. \E f \in [D -> V] : Good(f, n)
    BY <1>1
  <2> HIDE DEF Good
  <2> QED
    BY <2>1
<1> HIDE DEF At
<1>4. G \in [D -> V]
  BY <1>3
<1>5. ASSUME NEW x \in D PROVE G[x] = Phi[G][x]
  <2> DEFINE n == h[x] + 1
  <2>1. n \in Nat /\ h[x] < n /\ At(n) \in [D -> V] /\ Good(At(n), n)
    BY <1>3
  <2>2. ASSUME NEW y \in D, h[y] < h[x] PROVE G[y] = At(n)[y]
    <3> DEFINE m == h[y] + 1
    <3>1. m \in Nat /\ h[y] < m /\ m <= n /\ At(m) \in [D -> V] /\ Good(At(m), m)
      BY <1>3, <2>2
    <3>2. Good(At(n), m)
      BY <2>1, <3>1
    <3>3. At(m)[y] = At(n)[y]
      <4> HIDE DEF Good, m, n
      <4> QED
        BY <1>2, <2>1, <3>1, <3>2
    <3> QED
      BY <3>3
  <2>3. Phi[G][x] = Phi[At(n)][x]
    <3> HIDE DEF G, n
    <3> QED
      BY <1>4, <2>1, <2>2
  <2>4. At(n)[x] = Phi[At(n)][x]
    BY <2>1
  <2> QED
    BY <2>3, <2>4
<1>6. G = Phi[G]
  <2>1. Phi[G] \in [D -> V]
    BY <1>4
  <2> HIDE DEF G
  <2> QED
    BY <1>4, <1>5, <2>1
<1> QED
  BY <1>4, <1>6

=============================================================================

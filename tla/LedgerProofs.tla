---------------------------- MODULE LedgerProofs ----------------------------
(***************************************************************************)
(* Proofs about the ledger and the budget counters, for every set of       *)
(* requests, callers, limits and bills.  The first part says what a sum    *)
(* over a finite set is; the rest rests on one inductive invariant.        *)
(***************************************************************************)
EXTENDS Ledger, ArrayProofs

Sum(f, S) == SumFunctionOnSet(f, S)

Pick(S) == CHOOSE x \in S : TRUE

\* g sums f over each of the sets of D, which are closed under removal.
Sums(g, f, D) ==
    g = [s \in D |-> IF s = {} THEN 0 ELSE f[Pick(s)] + g[s \ {Pick(s)}]]

-----------------------------------------------------------------------------
\* The fold of the library, written as the function it is defined by.
LEMMA SumUnfolds ==
    ASSUME NEW f, NEW S
    PROVE  Sum(f, S) = (CHOOSE g : Sums(g, f, SUBSET S))[S]
BY DEF Sum, Sums, Pick, SumFunctionOnSet, FoldFunctionOnSet, MapThenFoldSet

\* A set loses one member with its picked one.
LEMMA PickTakes ==
    ASSUME NEW S, IsFiniteSet(S), S # {}
    PROVE  /\ Pick(S) \in S
           /\ IsFiniteSet(S \ {Pick(S)})
           /\ Cardinality(S) \in Nat /\ Cardinality(S) # 0
           /\ Cardinality(S \ {Pick(S)}) = Cardinality(S) - 1
<1>1. Pick(S) \in S
  BY DEF Pick
<1> QED
  BY <1>1, FS_RemoveElement, FS_CardinalityType, FS_EmptySet

\* That function exists for every finite set.
LEMMA SumsExist ==
    ASSUME NEW f, NEW S, IsFiniteSet(S)
    PROVE  \E g : Sums(g, f, SUBSET S)
<1> DEFINE D(n) == {s \in SUBSET S : Cardinality(s) <= n}
           E == {n \in Nat : \E g : Sums(g, f, D(n))}
<1>1. \A s \in SUBSET S : IsFiniteSet(s) /\ Cardinality(s) \in Nat /\ Cardinality(s) <= Cardinality(S)
  BY FS_Subset, FS_CardinalityType
<1>2. 0 \in E
  <2> DEFINE g == [s \in D(0) |-> 0]
  <2>1. \A s \in D(0) : s = {}
    BY <1>1, FS_EmptySet
  <2>2. Sums(g, f, D(0))
    BY <2>1 DEF Sums
  <2> QED
    BY <2>2
<1>3. ASSUME NEW n \in Nat, n \in E PROVE n + 1 \in E
  <2>1. PICK g : Sums(g, f, D(n))
    BY <1>3
  <2> DEFINE h == [s \in D(n + 1) |-> IF s = {} THEN 0 ELSE f[Pick(s)] + g[s \ {Pick(s)}]]
  <2>2. \A s \in D(n + 1) : s # {} => s \ {Pick(s)} \in D(n) /\ s \ {Pick(s)} \in D(n + 1)
    <3> SUFFICES ASSUME NEW s \in D(n + 1), s # {} PROVE s \ {Pick(s)} \in D(n) /\ s \ {Pick(s)} \in D(n + 1)
      OBVIOUS
    <3>1. Cardinality(s \ {Pick(s)}) = Cardinality(s) - 1 /\ Cardinality(s) \in Nat
      BY <1>1, PickTakes
    <3> QED
      BY <3>1
  <2>3. \A s \in D(n) : g[s] = h[s]
    <3>1. \A s \in D(n) : s \in D(n + 1)
      BY <1>1
    <3>2. \A s \in D(n) : g[s] = IF s = {} THEN 0 ELSE f[Pick(s)] + g[s \ {Pick(s)}]
      BY <2>1, Zenon DEF Sums
    <3> QED
      BY <3>1, <3>2
  <2>4. Sums(h, f, D(n + 1))
    <3>1. \A s \in D(n + 1) : s # {} => g[s \ {Pick(s)}] = h[s \ {Pick(s)}]
      BY <2>2, <2>3
    <3> HIDE DEF D
    <3> QED
      BY <3>1 DEF Sums
  <2> HIDE DEF h, D
  <2> QED
    BY <2>4
<1>4. Nat \subseteq E
  <2> HIDE DEF E
  <2> QED
    BY <1>2, <1>3, SetInduction
<1>5. Cardinality(S) \in Nat /\ D(Cardinality(S)) = SUBSET S
  BY <1>1
<1> QED
  BY <1>4, <1>5

\* Sums over different sets agree on the sets that they share.
LEMMA SumsAgree ==
    ASSUME NEW f, NEW S, NEW T, T \subseteq S, IsFiniteSet(S), NEW g, NEW h,
           Sums(g, f, SUBSET S), Sums(h, f, SUBSET T)
    PROVE  \A s \in SUBSET T : g[s] = h[s]
<1> DEFINE E == {n \in Nat : \A s \in SUBSET T : Cardinality(s) = n => g[s] = h[s]}
<1>1. \A s \in SUBSET T : IsFiniteSet(s) /\ Cardinality(s) \in Nat
  BY FS_Subset, FS_CardinalityType
<1>2. \A s \in SUBSET T : /\ g[s] = IF s = {} THEN 0 ELSE f[Pick(s)] + g[s \ {Pick(s)}]
                          /\ h[s] = IF s = {} THEN 0 ELSE f[Pick(s)] + h[s \ {Pick(s)}]
  <2>1. \A s \in SUBSET S : g[s] = IF s = {} THEN 0 ELSE f[Pick(s)] + g[s \ {Pick(s)}]
    BY Zenon DEF Sums
  <2>2. \A s \in SUBSET T : h[s] = IF s = {} THEN 0 ELSE f[Pick(s)] + h[s \ {Pick(s)}]
    BY Zenon DEF Sums
  <2> QED
    BY <2>1, <2>2
<1>3. 0 \in E
  BY <1>1, <1>2, FS_EmptySet
<1>4. ASSUME NEW n \in Nat, n \in E PROVE n + 1 \in E
  <2> SUFFICES ASSUME NEW s \in SUBSET T, Cardinality(s) = n + 1 PROVE g[s] = h[s]
    OBVIOUS
  <2>1. s # {}
    BY SMTT(30), FS_EmptySet
  <2>2. s \ {Pick(s)} \in SUBSET T /\ Cardinality(s \ {Pick(s)}) = n
    BY <1>1, <2>1, PickTakes
  <2>3. g[s \ {Pick(s)}] = h[s \ {Pick(s)}]
    BY <1>4, <2>2
  <2> QED
    BY <1>2, <2>1, <2>3
<1>5. Nat \subseteq E
  <2> HIDE DEF E
  <2> QED
    BY <1>3, <1>4, SetInduction
<1> QED
  BY <1>1, <1>5

\* The recursive equation that the sum of f over a finite set satisfies.
LEMMA SumEquation ==
    ASSUME NEW f, NEW S, IsFiniteSet(S)
    PROVE  Sum(f, S) = IF S = {} THEN 0 ELSE f[Pick(S)] + Sum(f, S \ {Pick(S)})
<1> DEFINE T == S \ {Pick(S)}
           g == CHOOSE g : Sums(g, f, SUBSET S)
           h == CHOOSE h : Sums(h, f, SUBSET T)
<1>1. IsFiniteSet(T) /\ T \subseteq S
  BY FS_Subset
<1> HIDE DEF T
<1>2. Sums(g, f, SUBSET S) /\ Sums(h, f, SUBSET T)
  BY <1>1, SumsExist
<1>3. Sum(f, S) = g[S] /\ Sum(f, T) = h[T]
  BY SumUnfolds
<1> HIDE DEF g, h
<1>4. g[T] = h[T]
  BY SMTT(30), <1>1, <1>2, SumsAgree
<1>5. g[S] = IF S = {} THEN 0 ELSE f[Pick(S)] + g[S \ {Pick(S)}]
  <2>1. \A s \in SUBSET S : g[s] = IF s = {} THEN 0 ELSE f[Pick(s)] + g[s \ {Pick(s)}]
    BY <1>2, Zenon DEF Sums
  <2> QED
    BY <2>1
<1> QED
  BY <1>3, <1>4, <1>5 DEF T

\* A sum of naturals is a natural.
LEMMA SumNat ==
    ASSUME NEW f, NEW S, IsFiniteSet(S), \A x \in S : f[x] \in Nat
    PROVE  Sum(f, S) \in Nat
<1> DEFINE E == {n \in Nat : \A s \in SUBSET S : Cardinality(s) = n => Sum(f, s) \in Nat}
<1>1. \A s \in SUBSET S : IsFiniteSet(s) /\ Cardinality(s) \in Nat
  BY FS_Subset, FS_CardinalityType
<1>2. 0 \in E
  BY <1>1, SumEquation, FS_EmptySet
<1>3. ASSUME NEW n \in Nat, n \in E PROVE n + 1 \in E
  <2> SUFFICES ASSUME NEW s \in SUBSET S, Cardinality(s) = n + 1 PROVE Sum(f, s) \in Nat
    OBVIOUS
  <2>1. s # {}
    BY FS_EmptySet
  <2>2. s \ {Pick(s)} \in SUBSET S /\ Cardinality(s \ {Pick(s)}) = n /\ Pick(s) \in S
    BY <1>1, <2>1, PickTakes
  <2>3. Sum(f, s \ {Pick(s)}) \in Nat
    BY <1>3, <2>2
  <2>4. Sum(f, s) = f[Pick(s)] + Sum(f, s \ {Pick(s)})
    BY <1>1, <2>1, SumEquation
  <2> QED
    BY <2>2, <2>3, <2>4
<1>4. Nat \subseteq E
  <2> HIDE DEF E
  <2> QED
    BY <1>2, <1>3, SetInduction
<1> QED
  BY <1>1, <1>4

\* Any member can be taken out of a sum first.
LEMMA SumTakes ==
    ASSUME NEW f, NEW S, IsFiniteSet(S), \A x \in S : f[x] \in Nat
    PROVE  \A x \in S : Sum(f, S) = f[x] + Sum(f, S \ {x})
<1> DEFINE E == {n \in Nat : \A s \in SUBSET S : Cardinality(s) = n =>
                                \A x \in s : Sum(f, s) = f[x] + Sum(f, s \ {x})}
<1>1. \A s \in SUBSET S : IsFiniteSet(s) /\ Cardinality(s) \in Nat
  BY FS_Subset, FS_CardinalityType
<1>2. 0 \in E
  BY <1>1, FS_EmptySet
<1>3. ASSUME NEW n \in Nat, n \in E PROVE n + 1 \in E
  <2> SUFFICES ASSUME NEW s \in SUBSET S, Cardinality(s) = n + 1, NEW x \in s
               PROVE  Sum(f, s) = f[x] + Sum(f, s \ {x})
    OBVIOUS
  <2> DEFINE p == Pick(s)
  <2>1. s # {} /\ p \in s /\ Sum(f, s) = f[p] + Sum(f, s \ {p})
    BY <1>1, PickTakes, SumEquation
  <2>2. CASE x = p
    BY <2>1, <2>2
  <2>3. CASE x # p
    <3> HIDE DEF p
    <3>1. /\ s \ {p} \in SUBSET S /\ x \in s \ {p} /\ Cardinality(s \ {p}) = n
          /\ s \ {x} \in SUBSET S /\ p \in s \ {x} /\ Cardinality(s \ {x}) = n
      <4>1. s \ {p} \in SUBSET S /\ x \in s \ {p} /\ s \ {x} \in SUBSET S /\ p \in s \ {x}
        BY <2>1, <2>3
      <4>2. Cardinality(s \ {p}) = Cardinality(s) - 1 /\ Cardinality(s \ {x}) = Cardinality(s) - 1
        BY <1>1, <2>1, FS_RemoveElement
      <4> QED
        BY <4>1, <4>2
    <3>2. Sum(f, s \ {p}) = f[x] + Sum(f, (s \ {p}) \ {x})
      BY <3>1, <1>3
    <3>3. Sum(f, s \ {x}) = f[p] + Sum(f, (s \ {x}) \ {p})
      BY <3>1, <1>3
    <3>4. (s \ {p}) \ {x} = (s \ {x}) \ {p} /\ (s \ {p}) \ {x} \in SUBSET S
      OBVIOUS
    <3>5. Sum(f, (s \ {p}) \ {x}) \in Nat /\ f[x] \in Nat /\ f[p] \in Nat
      BY <3>4, <1>1, <2>1, SumNat
    <3>6. Sum(f, (s \ {p}) \ {x}) = Sum(f, (s \ {x}) \ {p})
      BY <3>4
    <3> QED
      BY <2>1, <3>2, <3>3, <3>5, <3>6
  <2> QED
    BY <2>2, <2>3
<1>4. Nat \subseteq E
  <2> HIDE DEF E
  <2> QED
    BY <1>2, <1>3, SetInduction
<1> QED
  BY <1>1, <1>4

\* A sum is at most another one that has, for each of its members that is not
\* zero, the same member at least as large.
LEMMA SumMonotone ==
    ASSUME NEW f, NEW S, IsFiniteSet(S), \A x \in S : f[x] \in Nat,
           NEW h, NEW T, IsFiniteSet(T), \A x \in T : h[x] \in Nat,
           \A x \in S : f[x] # 0 => x \in T /\ f[x] <= h[x]
    PROVE  Sum(f, S) <= Sum(h, T)
<1> DEFINE Under(s, t) == \A x \in s : f[x] # 0 => x \in t /\ f[x] <= h[x]
           E == {n \in Nat : \A s \in SUBSET S, t \in SUBSET T :
                    Cardinality(s) = n /\ Under(s, t) => Sum(f, s) <= Sum(h, t)}
<1>1. /\ \A s \in SUBSET S : IsFiniteSet(s) /\ Cardinality(s) \in Nat
      /\ \A t \in SUBSET T : IsFiniteSet(t)
  BY FS_Subset, FS_CardinalityType
<1>2. /\ \A s \in SUBSET S : Sum(f, s) \in Nat
      /\ \A t \in SUBSET T : Sum(h, t) \in Nat
  BY <1>1, SumNat
<1>3. 0 \in E
  <2> SUFFICES ASSUME NEW s \in SUBSET S, NEW t \in SUBSET T, Cardinality(s) = 0
               PROVE  Sum(f, s) <= Sum(h, t)
    OBVIOUS
  <2>1. s = {}
    BY <1>1, FS_EmptySet
  <2>2. Sum(f, s) = 0
    BY <2>1, <1>1, SumEquation
  <2> QED
    BY <2>2, <1>2
<1>4. ASSUME NEW n \in Nat, n \in E PROVE n + 1 \in E
  <2> SUFFICES ASSUME NEW s \in SUBSET S, NEW t \in SUBSET T, Cardinality(s) = n + 1, Under(s, t)
               PROVE  Sum(f, s) <= Sum(h, t)
    OBVIOUS
  <2> DEFINE p == Pick(s)
  <2>1. s # {}
    <3> HIDE DEF Under
    <3> QED
      BY FS_EmptySet
  <2>2. p \in s /\ s \ {p} \in SUBSET S /\ Cardinality(s \ {p}) = n /\ f[p] \in Nat
    BY <1>1, <2>1, PickTakes
  <2>3. Sum(f, s) = f[p] + Sum(f, s \ {p})
    BY <1>1, <2>1, SumEquation
  <2> HIDE DEF p
  <2>4. CASE f[p] = 0
    <3>1. Under(s \ {p}, t)
      OBVIOUS
    <3>2. Sum(f, s \ {p}) <= Sum(h, t)
      BY <1>4, <2>2, <3>1
    <3> QED
      BY <2>2, <2>3, <2>4, <3>2, <1>2
  <2>5. CASE f[p] # 0
    <3>1. p \in t /\ f[p] <= h[p] /\ h[p] \in Nat
      BY <2>2, <2>5
    <3>2. Under(s \ {p}, t \ {p}) /\ t \ {p} \in SUBSET T
      OBVIOUS
    <3>3. Sum(f, s \ {p}) <= Sum(h, t \ {p})
      BY <1>4, <2>2, <3>2
    <3>4. Sum(h, t) = h[p] + Sum(h, t \ {p})
      BY <3>1, <1>1, SumTakes
    <3> QED
      BY <1>2, <2>2, <2>3, <3>1, <3>2, <3>3, <3>4
  <2> QED
    BY <2>4, <2>5
<1>5. Nat \subseteq E
  <2> HIDE DEF E
  <2> QED
    BY <1>3, <1>4, SetInduction
<1>6. Cardinality(S) \in Nat /\ Cardinality(S) \in E /\ Under(S, T)
  BY <1>1, <1>5
<1> QED
  BY <1>6

-----------------------------------------------------------------------------
\* The inductive invariant, over values of the tables and of the requests.

AnyBill == Bills \cup {EmptyBill}

Rows ==
    [who : Profiles, cost : {ComputeCost(b) : b \in AnyBill}, month : 1 .. MaxMonth,
     status : {"ok", "error", "provider_error", "client_abort", "budget_exceeded"}]

Requested ==
    [stage : {"idle", "check", "write", "spend", "done", "lost"},
     who : Profiles, stream : BOOLEAN, todo : Seq(Kinds),
     period : 1 .. MaxMonth, bill : AnyBill,
     err : {"none", "unknown", "provider_error", "client_abort", "budget_exceeded"},
     last : BOOLEAN, late : BOOLEAN, called : BOOLEAN, charged : SUBSET Kinds]

RowsOK(R) == DOMAIN R \subseteq Charges /\ \A r \in DOMAIN R : R[r] \in Rows

CountersOK(P) == \A k \in DOMAIN P : P[k] \in Nat

\* SpentFor() of the tables R and P.
CostsIn(R) == [r \in DOMAIN R |-> IF R[r].cost = None THEN 0 ELSE R[r].cost]

Counter(P, kind, who, period) ==
    IF <<ScopeKey(kind, who), period>> \in DOMAIN P THEN P[<<ScopeKey(kind, who), period>>] ELSE 0

SpentIn(R, P, kind, who, period) ==
    IF kind = "task_class"
    THEN Sum(CostsIn(R), {r \in DOMAIN R : R[r].who.firm = who.firm /\ R[r].month >= period})
    ELSE Counter(P, kind, who, period)

\* Costs that are recorded as spend.
Costly(c) == ComputeCost(c.bill) \notin {None, 0}

\* recordSpend() under way: the scopes still to be charged, and the charged ones.
Paying(c) ==
    \/ c.todo = SpendScopes(c.who) /\ c.charged = {}
    \/ c.who.user = NoUser /\ c.todo = <<"app">> /\ c.charged = {"firm"}
    \/ c.who.user # NoUser /\ c.todo = <<"app", "user">> /\ c.charged = {"firm"}
    \/ c.who.user # NoUser /\ c.todo = <<"user">> /\ c.charged = {"firm", "app"}

\* What the row of a request says, and who was charged for it.
RowFits(c, r, R) ==
    /\ r \in DOMAIN R => R[r].who = c.who /\ R[r].cost = ComputeCost(c.bill)
    /\ c.charged # {} => r \in DOMAIN R /\ Costly(c)
    /\ c.stage \in {"idle", "check"} =>
        r \notin DOMAIN R /\ c.err = "none" /\ ~ c.last /\ ~ c.called
    /\ c.stage = "spend" =>
        r \in DOMAIN R /\ Costly(c) /\ Paying(c) /\ R[r].status = StatusFor(c.err)

PaidInFull(c) == Costly(c) => c.charged = SpendKinds(c.who)

\* A complete answer goes out only behind its first, successful write.
AnswerFits(c, r, R) ==
    ~ c.stream /\ c.err = "none" =>
        /\ c.stage \in {"write", "spend"} => ~ c.last
        /\ c.stage = "write" => r \notin DOMAIN R
        /\ c.stage = "done" => r \in DOMAIN R /\ R[r].status = "ok" /\ PaidInFull(c)

\* Without a fault, no row is written twice and none is left half charged.
FaultlessFits(c, r, R) ==
    /\ c.stage = "write" => r \notin DOMAIN R
    /\ c.stage # "lost"
    /\ c.stage = "done" /\ r \in DOMAIN R => PaidInFull(c)

\* An exhausted budget is still among the limits that remain to be read.
LateFits(c, R, P) ==
    c.late => /\ ~ c.called
              /\ c.stage = "check" =>
                    \E i \in 1 .. Len(c.todo) :
                        SpentIn(R, P, c.todo[i], c.who, c.period) >= Limit[c.todo[i]]

Fits(c, r, R, P, n) ==
    /\ c \in Requested
    /\ c.stage = "check" => \A i \in 1 .. Len(c.todo) : c.todo[i] \in DOMAIN Limit
    /\ RowFits(c, r, R)
    /\ AnswerFits(c, r, R)
    /\ n = 0 => FaultlessFits(c, r, R)
    /\ LateFits(c, R, P)

\* What each request has added to the counters of a scope.
Paid(q, kind, who) ==
    [r \in Charges |->
        IF kind \in q[r].charged /\ ScopeKey(kind, q[r].who) = ScopeKey(kind, who)
        THEN ComputeCost(q[r].bill) ELSE 0]

CountedIn(P, kind, who) ==
    Sum([m \in 1 .. MaxMonth |-> Counter(P, kind, who, m)], 1 .. MaxMonth)

Accounts(P, q) ==
    \A who \in Profiles, kind \in {"firm", "app", "user"} :
        CountedIn(P, kind, who) = Sum(Paid(q, kind, who), Charges)

LedgerIInv ==
    /\ RowsOK(rows)
    /\ CountersOK(spent)
    /\ month \in 1 .. MaxMonth
    /\ faults \in 0 .. MaxFaults
    /\ req = [r \in Charges |-> req[r]]
    /\ \A r \in Charges : Fits(req[r], r, rows, spent, faults)
    /\ Accounts(spent, req)

-----------------------------------------------------------------------------
\* computeCost() answers cents, or cost_unknown for exactly the bills with
\* tokens that have no price: it is "NEVER silently zero".
THEOREM CostIsHonest ==
    ASSUME NEW b \in AnyBill
    PROVE  /\ ComputeCost(b) \in Nat \cup {None}
           /\ ComputeCost(b) = None <=> Unpriced(b)
<1> USE LedgerAssumption
<1> DEFINE used == {p \in Parts : b.usage[p] > 0}
           cents == [p \in used |-> b.usage[p] * RateOf(b.prices, p)]
<1>1. b.usage \in [Parts -> Nat]
  BY DEF AnyBill, EmptyBill, Parts
<1>2. used = {} <=> b.usage = EmptyBill.usage
  BY <1>1 DEF EmptyBill
<1>3. CASE used = {}
  <2>1. ComputeCost(b) = 0
    BY <1>3 DEF ComputeCost
  <2>2. ~ Unpriced(b)
    BY <1>2, <1>3 DEF Unpriced, EmptyBill, Parts
  <2> QED
    BY <2>1, <2>2
<1>4. CASE used # {} /\ b.prices = None
  <2>1. ComputeCost(b) = None
    BY <1>4 DEF ComputeCost
  <2>2. Unpriced(b)
    BY <1>2, <1>4 DEF Unpriced
  <2> QED
    BY <2>1, <2>2
<1>5. CASE used # {} /\ b.prices # None
  <2>1. /\ b.prices.input \in Nat \cup {None} /\ b.prices.output \in Nat \cup {None}
        /\ b.prices.cacheRead \in Nat \cup {None} /\ b.prices.cacheWrite \in Nat \cup {None}
    BY <1>5 DEF AnyBill, EmptyBill
  <2>2. (\E p \in used : RateOf(b.prices, p) = None) <=> Unpriced(b)
    BY <1>1, <1>5, <2>1 DEF RateOf, Unpriced, Parts
  <2>3. CASE \E p \in used : RateOf(b.prices, p) = None
    BY <1>5, <2>2, <2>3 DEF ComputeCost
  <2>4. CASE ~ \E p \in used : RateOf(b.prices, p) = None
    <3>1. \A p \in used : RateOf(b.prices, p) \in Nat
      BY <2>1, <2>4 DEF RateOf, Parts
    <3>2. \A p \in used : b.usage[p] \in Nat
      BY <1>1
    <3>3. \A p \in used : cents[p] \in Nat
      BY <3>1, <3>2
    <3>4. IsFiniteSet(used)
      <4>1. Parts = ({"prompt"} \cup {"completion"}) \cup ({"cachedRead"} \cup {"cacheWrite"})
        BY DEF Parts
      <4>2. IsFiniteSet(Parts)
        BY <4>1, FS_Singleton, FS_Union
      <4> QED
        BY <4>2, FS_Subset
    <3>5. ComputeCost(b) = Sum(cents, used)
      BY <1>5, <2>4 DEF ComputeCost, Sum
    <3> HIDE DEF cents, used
    <3>6. Sum(cents, used) \in Nat
      BY <3>3, <3>4, SumNat
    <3> QED
      BY <3>5, <3>6, <2>2, <2>4
  <2> QED
    BY <2>3, <2>4
<1> QED
  BY <1>3, <1>4, <1>5

-----------------------------------------------------------------------------
\* What the tables hold only grows: rows are inserted, counters incremented.
RowsGrow(R, R2, r) ==
    /\ DOMAIN R \subseteq DOMAIN R2 /\ DOMAIN R2 \subseteq DOMAIN R \cup {r}
    /\ \A q \in DOMAIN R : R2[q] = R[q]

CountersGrow(P, P2) ==
    DOMAIN P \subseteq DOMAIN P2 /\ \A k \in DOMAIN P : P[k] <= P2[k]

\* Ledger rows are finitely many and cost no less than nothing.
LEMMA CostsAreNat ==
    ASSUME NEW R, RowsOK(R)
    PROVE  /\ IsFiniteSet(DOMAIN R)
           /\ \A r \in DOMAIN R : CostsIn(R)[r] \in Nat
<1>1. IsFiniteSet(DOMAIN R)
  BY LedgerAssumption, FS_Subset DEF RowsOK
<1>2. \A r \in DOMAIN R : R[r].cost \in {ComputeCost(b) : b \in AnyBill}
  BY DEF RowsOK, Rows
<1>3. \A r \in DOMAIN R : R[r].cost \in Nat \cup {None}
  BY <1>2, CostIsHonest
<1> QED
  BY <1>1, <1>3 DEF CostsIn

\* What has been spent for a scope never decreases, so that a budget once
\* exhausted stays exhausted for its period.
LEMMA SpentGrows ==
    ASSUME NEW R, NEW R2, NEW r, RowsOK(R), RowsOK(R2), RowsGrow(R, R2, r),
           NEW P, NEW P2, CountersOK(P), CountersOK(P2), CountersGrow(P, P2),
           NEW kind, NEW who, NEW period
    PROVE  /\ SpentIn(R, P, kind, who, period) \in Nat
           /\ SpentIn(R2, P2, kind, who, period) \in Nat
           /\ SpentIn(R, P, kind, who, period) <= SpentIn(R2, P2, kind, who, period)
<1> DEFINE S(Q) == {q \in DOMAIN Q : Q[q].who.firm = who.firm /\ Q[q].month >= period}
<1>1. CASE kind # "task_class"
  BY <1>1 DEF SpentIn, Counter, CountersOK, CountersGrow
<1>2. CASE kind = "task_class"
  <2>1. IsFiniteSet(S(R)) /\ IsFiniteSet(S(R2))
    BY CostsAreNat, FS_Subset
  <2>2. /\ \A q \in S(R) : CostsIn(R)[q] \in Nat
        /\ \A q \in S(R2) : CostsIn(R2)[q] \in Nat
    BY CostsAreNat
  <2>3. \A q \in S(R) : q \in S(R2) /\ CostsIn(R)[q] = CostsIn(R2)[q]
    BY DEF RowsGrow, CostsIn
  <2>4. /\ SpentIn(R, P, kind, who, period) = Sum(CostsIn(R), S(R))
        /\ SpentIn(R2, P2, kind, who, period) = Sum(CostsIn(R2), S(R2))
    BY <1>2 DEF SpentIn
  <2> HIDE DEF S
  <2>5. Sum(CostsIn(R), S(R)) \in Nat /\ Sum(CostsIn(R2), S(R2)) \in Nat
    BY <2>1, <2>2, SumNat
  <2>6. Sum(CostsIn(R), S(R)) <= Sum(CostsIn(R2), S(R2))
    <3>1. \A q \in S(R) : CostsIn(R)[q] # 0 => q \in S(R2) /\ CostsIn(R)[q] <= CostsIn(R2)[q]
      BY <2>2, <2>3
    <3> QED
      BY <2>1, <2>2, <3>1, SumMonotone
  <2> QED
    BY <2>4, <2>5, <2>6
<1> QED
  BY <1>1, <1>2

\* A step of another request leaves what is known of a request true.
LEMMA Undisturbed ==
    ASSUME NEW R, NEW R2, NEW r, RowsOK(R), RowsOK(R2), RowsGrow(R, R2, r),
           NEW P, NEW P2, CountersOK(P), CountersOK(P2), CountersGrow(P, P2),
           NEW n, NEW n2, n2 = 0 => n = 0,
           NEW c, NEW q, q # r \/ R2 = R, Fits(c, q, R, P, n)
    PROVE  Fits(c, q, R2, P2, n2)
<1>1. /\ q \in DOMAIN R2 <=> q \in DOMAIN R
      /\ q \in DOMAIN R => R2[q] = R[q]
  BY DEF RowsGrow
<1>2. RowFits(c, q, R2) /\ AnswerFits(c, q, R2) /\ (n2 = 0 => FaultlessFits(c, q, R2))
  BY <1>1 DEF Fits, RowFits, AnswerFits, FaultlessFits
<1>3. LateFits(c, R2, P2)
  <2> SUFFICES ASSUME c.late, c.stage = "check"
               PROVE  \E i \in 1 .. Len(c.todo) :
                        SpentIn(R2, P2, c.todo[i], c.who, c.period) >= Limit[c.todo[i]]
    BY DEF Fits, LateFits
  <2>1. PICK i \in 1 .. Len(c.todo) :
            SpentIn(R, P, c.todo[i], c.who, c.period) >= Limit[c.todo[i]]
    BY DEF Fits, LateFits
  <2>2. Limit[c.todo[i]] \in Nat
    BY LedgerAssumption DEF Fits
  <2>3. /\ SpentIn(R, P, c.todo[i], c.who, c.period) \in Nat
        /\ SpentIn(R2, P2, c.todo[i], c.who, c.period) \in Nat
        /\ SpentIn(R, P, c.todo[i], c.who, c.period) <= SpentIn(R2, P2, c.todo[i], c.who, c.period)
    BY SpentGrows
  <2> QED
    BY <2>1, <2>2, <2>3
<1> QED
  BY <1>2, <1>3 DEF Fits

-----------------------------------------------------------------------------
\* A sum grows by what one of its members grows by.
LEMMA SumAdds ==
    ASSUME NEW f, NEW g, NEW S, IsFiniteSet(S), NEW x \in S, NEW n \in Nat,
           \A y \in S : f[y] \in Nat,
           g[x] = f[x] + n, \A y \in S \ {x} : g[y] = f[y]
    PROVE  Sum(g, S) = Sum(f, S) + n
<1> DEFINE T == S \ {x}
<1>1. \A y \in S : g[y] \in Nat
  OBVIOUS
<1>2. Sum(f, S) = f[x] + Sum(f, T) /\ Sum(g, S) = g[x] + Sum(g, T)
  BY <1>1, SumTakes
<1>3. IsFiniteSet(T) /\ \A y \in T : g[y] = f[y] /\ f[y] \in Nat /\ g[y] \in Nat
  BY <1>1, FS_Subset
<1> HIDE DEF T
<1>4. Sum(f, T) \in Nat /\ Sum(g, T) \in Nat
  BY <1>3, SumNat
<1>5. \A y \in T : y \in T /\ f[y] <= g[y] /\ g[y] <= f[y]
  BY <1>3
<1>6. Sum(f, T) <= Sum(g, T)
  BY <1>3, <1>5, SumMonotone
<1>7. Sum(g, T) <= Sum(f, T)
  BY <1>3, <1>5, SumMonotone
<1> QED
  BY <1>2, <1>4, <1>6, <1>7

\* Only what was charged counts.
LEMMA AccountsKept ==
    ASSUME NEW P, NEW q, NEW q2, Accounts(P, q),
           \A r \in Charges :
                \/ q[r].charged = {} /\ q2[r].charged = {}
                \/ /\ q2[r].charged = q[r].charged /\ q2[r].who = q[r].who
                   /\ q2[r].bill = q[r].bill
    PROVE  Accounts(P, q2)
<1>1. \A kind, who : Paid(q2, kind, who) = Paid(q, kind, who)
  BY DEF Paid
<1> QED
  BY <1>1 DEF Accounts

\* One upsert of recordSpend() adds the same amount to the counter of the scope
\* and to what its request has paid, and to no other scope's.
LEMMA AccountsCharged ==
    ASSUME NEW P, NEW P2, NEW q, NEW q2, NEW r \in Charges,
           NEW scope \in {"firm", "app", "user"}, NEW period \in 1 .. MaxMonth,
           NEW cost \in Nat, cost = ComputeCost(q[r].bill),
           \A x \in Charges : q[x].charged # {} => ComputeCost(q[x].bill) \in Nat,
           scope \notin q[r].charged, q2[r].charged = q[r].charged \cup {scope},
           q2[r].who = q[r].who, q2[r].bill = q[r].bill,
           \A x \in Charges \ {r} : q2[x] = q[x],
           P2 = [x \in DOMAIN P \cup {<<ScopeKey(scope, q[r].who), period>>} |->
                    (IF x \in DOMAIN P THEN P[x] ELSE 0)
                    + (IF x = <<ScopeKey(scope, q[r].who), period>> THEN cost ELSE 0)],
           CountersOK(P), Accounts(P, q)
    PROVE  CountersOK(P2) /\ CountersGrow(P, P2) /\ Accounts(P2, q2)
<1> DEFINE k == <<ScopeKey(scope, q[r].who), period>>
<1>1. CountersOK(P2) /\ CountersGrow(P, P2)
  <2> HIDE DEF k
  <2> QED
    BY DEF CountersOK, CountersGrow, k
<1>2. ASSUME NEW who \in Profiles, NEW kind \in {"firm", "app", "user"}
      PROVE  CountedIn(P2, kind, who) = Sum(Paid(q2, kind, who), Charges)
  <2> DEFINE hit == kind = scope /\ ScopeKey(kind, q[r].who) = ScopeKey(kind, who)
             add == IF hit THEN cost ELSE 0
             M == 1 .. MaxMonth
             f == [m \in M |-> Counter(P, kind, who, m)]
             g == [m \in M |-> Counter(P2, kind, who, m)]
             paid == Paid(q, kind, who)
             paid2 == Paid(q2, kind, who)
  <2>1. add \in Nat
    OBVIOUS
  <2>2. ScopeKey(kind, who) = ScopeKey(scope, q[r].who) <=> hit
    BY DEF ScopeKey
  <2>3. \A m \in M : /\ f[m] \in Nat
                     /\ g[m] = f[m] + (IF m = period THEN add ELSE 0)
    <3> SUFFICES ASSUME NEW m \in M
                 PROVE  /\ Counter(P, kind, who, m) \in Nat
                        /\ Counter(P2, kind, who, m) = Counter(P, kind, who, m)
                                                       + (IF m = period THEN add ELSE 0)
      OBVIOUS
    <3> DEFINE l == <<ScopeKey(kind, who), m>>
    <3>1. l = k <=> hit /\ m = period
      BY <2>2
    <3>2. Counter(P, kind, who, m) = (IF l \in DOMAIN P THEN P[l] ELSE 0)
      BY DEF Counter
    <3>3. Counter(P2, kind, who, m) = (IF l \in DOMAIN P2 THEN P2[l] ELSE 0)
      BY DEF Counter
    <3>4. /\ DOMAIN P2 = DOMAIN P \cup {k}
          /\ \A x \in DOMAIN P2 : P2[x] = (IF x \in DOMAIN P THEN P[x] ELSE 0)
                                          + (IF x = k THEN cost ELSE 0)
      BY Zenon
    <3> HIDE DEF l, k, hit
    <3>5. Counter(P, kind, who, m) \in Nat
      BY <3>2 DEF CountersOK
    <3> QED
      BY <3>1, <3>2, <3>3, <3>4, <3>5
  <2>4. \A x \in Charges : paid[x] \in Nat
    BY DEF Paid
  <2>5. paid2[r] = paid[r] + add /\ \A x \in Charges \ {r} : paid2[x] = paid[x]
    <3>1. paid[r] = IF kind \in q[r].charged /\ ScopeKey(kind, q[r].who) = ScopeKey(kind, who)
                    THEN cost ELSE 0
      BY DEF Paid
    <3>2. paid2[r] = IF kind \in q[r].charged \cup {scope} /\ ScopeKey(kind, q[r].who) = ScopeKey(kind, who)
                     THEN cost ELSE 0
      BY DEF Paid
    <3>3. \A x \in Charges \ {r} : paid2[x] = paid[x]
      BY DEF Paid
    <3> HIDE DEF paid, paid2
    <3> QED
      BY <3>1, <3>2, <3>3
  <2>6. IsFiniteSet(M) /\ IsFiniteSet(Charges)
    BY FS_Interval, LedgerAssumption
  <2>7. CountedIn(P, kind, who) = Sum(f, M) /\ CountedIn(P2, kind, who) = Sum(g, M)
    BY DEF CountedIn
  <2>8. Sum(f, M) = Sum(paid, Charges)
    BY <2>7 DEF Accounts
  <2> HIDE DEF f, g, paid, paid2, add, M
  <2>9. period \in M /\ g[period] = f[period] + add /\ \A m \in M \ {period} : g[m] = f[m]
    BY <2>1, <2>3 DEF M
  <2>10. Sum(g, M) = Sum(f, M) + add
    BY <2>1, <2>3, <2>6, <2>9, SumAdds
  <2>11. Sum(paid2, Charges) = Sum(paid, Charges) + add
    BY <2>1, <2>4, <2>5, <2>6, SumAdds
  <2> QED
    BY <2>7, <2>8, <2>10, <2>11 DEF paid2
<1> QED
  BY <1>1, <1>2 DEF Accounts

-----------------------------------------------------------------------------
\* A step of request r keeps the invariant if it keeps r's own part of it, the
\* accounts, and only adds to the tables.
LEMMA StepKeeps ==
    ASSUME LedgerIInv, NEW r \in Charges, NEW d, req' = [req EXCEPT ![r] = d],
           RowsOK(rows'), RowsGrow(rows, rows', r),
           CountersOK(spent'), CountersGrow(spent, spent'),
           month' \in 1 .. MaxMonth, faults' \in 0 .. MaxFaults, faults' = 0 => faults = 0,
           Fits(d, r, rows', spent', faults'), Accounts(spent', req')
    PROVE  LedgerIInv'
<1>1. req = [x \in Charges |-> req[x]]
  BY DEF LedgerIInv
<1>2. /\ req'[r] = d /\ \A x \in Charges \ {r} : req'[x] = req[x]
      /\ req' = [x \in Charges |-> req'[x]]
  BY <1>1
<1>3. ASSUME NEW x \in Charges \ {r} PROVE Fits(req[x], x, rows', spent', faults')
  BY Undisturbed DEF LedgerIInv
<1>4. \A x \in Charges : Fits(req'[x], x, rows', spent', faults')
  BY <1>2, <1>3
<1> QED
  BY <1>2, <1>4 DEF LedgerIInv

\* The same for a step that leaves the tables alone and charges nothing.
LEMMA QuietStepKeeps ==
    ASSUME LedgerIInv, NEW r \in Charges, NEW d, req' = [req EXCEPT ![r] = d],
           UNCHANGED <<rows, spent>>, month' = month,
           faults' \in 0 .. MaxFaults, faults' = 0 => faults = 0,
           \/ req[r].charged = {} /\ d.charged = {}
           \/ d.charged = req[r].charged /\ d.who = req[r].who /\ d.bill = req[r].bill,
           Fits(d, r, rows, spent, faults')
    PROVE  LedgerIInv'
<1>1. /\ RowsOK(rows') /\ RowsGrow(rows, rows', r) /\ CountersOK(spent')
      /\ month' \in 1 .. MaxMonth
  BY DEF LedgerIInv, RowsGrow
<1>2. CountersGrow(spent, spent')
  BY DEF LedgerIInv, CountersGrow, CountersOK
<1>3. Accounts(spent, req')
  <2>1. req = [x \in Charges |-> req[x]] /\ Accounts(spent, req)
    BY DEF LedgerIInv
  <2>2. \A x \in Charges : req'[x] = IF x = r THEN d ELSE req[x]
    BY <2>1
  <2>3. \A x \in Charges :
            \/ req[x].charged = {} /\ req'[x].charged = {}
            \/ /\ req'[x].charged = req[x].charged /\ req'[x].who = req[x].who
               /\ req'[x].bill = req[x].bill
    BY <2>2
  <2> QED
    BY <2>1, <2>3, AccountsKept
<1> QED
  BY <1>1, <1>2, <1>3, StepKeeps

\* spentFor() reads the tables of the state.
LEMMA SpentForIs ==
    ASSUME NEW kind, NEW who, NEW period
    PROVE  SpentFor(kind, who, period) = SpentIn(rows, spent, kind, who, period)
BY DEF SpentFor, SpentIn, Counter, Costs, CostsIn, Sum

\* The scopes that recordSpend() increments.
LEMMA ScopesAre ==
    ASSUME NEW who
    PROVE  LET u == SpendScopes(who) IN
           /\ u \in Seq(Kinds)
           /\ who.user = NoUser => Len(u) = 2 /\ u[1] = "firm" /\ u[2] = "app"
           /\ who.user # NoUser => Len(u) = 3 /\ u[1] = "firm" /\ u[2] = "app" /\ u[3] = "user"
<1> DEFINE u == SpendScopes(who)
<1>1. CASE who.user = NoUser
  <2>1. u = <<"firm", "app">>
    BY <1>1 DEF SpendScopes
  <2> HIDE DEF u
  <2>2. u \in Seq(Kinds)
    BY <2>1 DEF Kinds
  <2>3. Len(u) = 2 /\ u[1] = "firm" /\ u[2] = "app"
    BY <2>1
  <2> QED
    BY <1>1, <2>2, <2>3 DEF u
<1>2. CASE who.user # NoUser
  <2>1. u = <<"firm", "app", "user">>
    BY <1>2 DEF SpendScopes
  <2> HIDE DEF u
  <2>2. u \in Seq(Kinds)
    BY <2>1 DEF Kinds
  <2>3. Len(u) = 3 /\ u[1] = "firm" /\ u[2] = "app" /\ u[3] = "user"
    BY <2>1
  <2> QED
    BY <1>2, <2>2, <2>3 DEF u
<1> QED
  BY <1>1, <1>2

\* checkBudgets() reads exactly the limits that govern the caller.
LEMMA ChecksAre ==
    ASSUME NEW who
    PROVE  /\ Checks(who) \in Seq(Kinds)
           /\ \A i \in 1 .. Len(Checks(who)) : Checks(who)[i] \in DOMAIN Limit
           /\ \A kind \in DOMAIN Limit :
                (kind = "user" => who.user # NoUser) =>
                    \E i \in 1 .. Len(Checks(who)) : Checks(who)[i] = kind
<1> DEFINE u == SpendScopes(who)
           s == Append(u, "task_class")
           t == Filter(s, DOMAIN Limit)
<1>1. /\ u \in Seq(Kinds)
      /\ who.user = NoUser => Len(u) = 2 /\ u[1] = "firm" /\ u[2] = "app"
      /\ who.user # NoUser => Len(u) = 3 /\ u[1] = "firm" /\ u[2] = "app" /\ u[3] = "user"
  BY ScopesAre
<1> HIDE DEF u
<1>2. /\ s \in Seq(Kinds) /\ Len(s) = Len(u) + 1 /\ s[Len(s)] = "task_class"
      /\ \A i \in 1 .. Len(u) : s[i] = u[i]
  BY <1>1 DEF Kinds
<1> HIDE DEF s
<1>3. \A kind \in DOMAIN Limit : (kind = "user" => who.user # NoUser) =>
            \E j \in 1 .. Len(s) : s[j] = kind
  <2>1. \A kind \in DOMAIN Limit : kind \in {"firm", "app", "user", "task_class"}
    BY LedgerAssumption
  <2>2. CASE who.user = NoUser
    <3>1. Len(u) = 2 /\ u[1] = "firm" /\ u[2] = "app"
      BY <1>1, <2>2, Zenon
    <3>2. Len(s) = 3
      BY <1>2, <3>1
    <3>3. s[1] = "firm" /\ s[2] = "app" /\ s[3] = "task_class"
      BY <1>2, <3>1, <3>2
    <3> QED
      BY <2>1, <2>2, <3>2, <3>3
  <2>3. CASE who.user # NoUser
    <3>1. Len(s) = 4 /\ s[1] = "firm" /\ s[2] = "app" /\ s[3] = "user" /\ s[4] = "task_class"
      BY <1>2, <1>1, <2>3
    <3> QED
      BY <2>1, <3>1
  <2> QED
    BY <2>2, <2>3
<1>4. /\ t \in Seq(Kinds)
      /\ \A k \in 1 .. Len(t) : t[k] \in DOMAIN Limit
  BY <1>2, FilterSubset
<1>5. \A i \in 1 .. Len(s) : s[i] \in DOMAIN Limit => \E k \in 1 .. Len(t) : t[k] = s[i]
  BY SMTT(30), <1>2, FilterKeeps
<1>6. Checks(who) = t
  BY DEF Checks, s, u
<1> HIDE DEF t
<1>7. \A kind \in DOMAIN Limit : (kind = "user" => who.user # NoUser) =>
            \E k \in 1 .. Len(t) : t[k] = kind
  BY <1>3, <1>5
<1> QED
  BY <1>4, <1>6, <1>7

\* A request that has not begun owes nothing, whatever the tables hold.
LEMMA IdleFits ==
    /\ Idle \in Requested
    /\ \A r, R, P, n : r \notin DOMAIN R => Fits(Idle, r, R, P, n)
<1>1. NoProfile \in Profiles
  BY LedgerAssumption DEF NoProfile
<1>2. EmptyBill \in AnyBill /\ <<>> \in Seq(Kinds)
  BY DEF AnyBill
<1>3. Idle \in Requested
  BY <1>1, <1>2, LedgerAssumption DEF Idle, Requested
<1>4. /\ Idle.stage = "idle" /\ Idle.err = "none" /\ Idle.last = FALSE
      /\ Idle.called = FALSE /\ Idle.late = FALSE /\ Idle.charged = {}
  BY DEF Idle
<1> QED
  BY <1>3, <1>4 DEF Fits, RowFits, AnswerFits, FaultlessFits, LateFits

\* Empty tables agree with empty counters.
LEMMA LedgerStarts == LedgerInit => LedgerIInv
<1> SUFFICES ASSUME LedgerInit PROVE LedgerIInv
  OBVIOUS
<1>1. rows = <<>> /\ spent = <<>> /\ month = 1 /\ faults = 0 /\ req = [r \in Charges |-> Idle]
  BY DEF LedgerInit
<1>2. DOMAIN rows = {} /\ DOMAIN spent = {}
  BY <1>1
<1>3. \A r \in Charges : Fits(req[r], r, rows, spent, faults)
  BY <1>1, <1>2, IdleFits
<1>4. Accounts(spent, req)
  <2> SUFFICES ASSUME NEW who \in Profiles, NEW kind \in {"firm", "app", "user"}
               PROVE  CountedIn(spent, kind, who) = Sum(Paid(req, kind, who), Charges)
    BY DEF Accounts
  <2> DEFINE f == [m \in 1 .. MaxMonth |-> Counter(spent, kind, who, m)]
             g == Paid(req, kind, who)
             M == 1 .. MaxMonth
  <2>1. \A m \in M : f[m] = 0
    BY <1>2 DEF Counter
  <2>2. \A r \in Charges : g[r] = 0
    BY <1>1 DEF Paid, Idle
  <2>3. IsFiniteSet(M) /\ IsFiniteSet(Charges)
    BY FS_Interval, LedgerAssumption
  <2>4. CountedIn(spent, kind, who) = Sum(f, M)
    BY DEF CountedIn
  <2> HIDE DEF f, g, M
  <2>5. Sum(f, M) \in Nat /\ Sum(g, Charges) \in Nat
    BY <2>1, <2>2, <2>3, SumNat
  <2>6. Sum(f, M) <= Sum(g, Charges) /\ Sum(g, Charges) <= Sum(f, M)
    BY <2>1, <2>2, <2>3, SumMonotone
  <2> QED
    BY <2>4, <2>5, <2>6 DEF g
<1> QED
  BY <1>1, <1>2, <1>3, <1>4, LedgerAssumption DEF LedgerIInv, RowsOK, CountersOK

-----------------------------------------------------------------------------
Errors == {"none", "unknown", "provider_error", "client_abort", "budget_exceeded"}

\* Everything a request knows of itself beside its place in the write.
SameCharge(c, d) ==
    /\ d.who = c.who /\ d.bill = c.bill /\ d.charged = c.charged /\ d.stream = c.stream
    /\ d.late = c.late /\ d.called = c.called /\ d.period = c.period

\* What a request is in the catch block: one attempt to write is left.
LEMMA CaughtIs ==
    ASSUME NEW c \in Requested, NEW code \in Errors
    PROVE  LET d == Caught(c, code) IN
           /\ d \in Requested /\ d.stage = "write" /\ d.err = code /\ d.last = TRUE
           /\ SameCharge(c, d) /\ d.todo = c.todo
BY DEF Caught, Requested, Errors, SameCharge

\* What a request is once write() has returned.
LEMMA WrittenIs ==
    ASSUME NEW c \in Requested
    PROVE  LET d == Written(c) IN
           /\ d \in Requested /\ d.stage = "done" /\ d.err = c.err /\ d.last = c.last
           /\ SameCharge(c, d)
<1>1. <<>> \in Seq(Kinds)
  OBVIOUS
<1> QED
  BY <1>1 DEF Written, Requested, SameCharge

\* A write that rejects, behind any fault: the request ends, or comes to its
\* last attempt with the error noted, and in both cases keeps what it was charged.
LEMMA RejectedFits ==
    ASSUME NEW c \in Requested, NEW r, NEW R, NEW P, NEW n, n # 0,
           r \in DOMAIN R => R[r].who = c.who /\ R[r].cost = ComputeCost(c.bill),
           c.charged # {} => r \in DOMAIN R /\ Costly(c),
           ~ c.stream /\ c.err = "none" => ~ c.last,
           c.late => ~ c.called
    PROVE  Fits(WriteRejected(c), r, R, P, n) /\ SameCharge(c, WriteRejected(c))
<1> DEFINE d == WriteRejected(c)
<1>1. CASE c.last
  <2>1. d = Written(c)
    BY <1>1 DEF WriteRejected
  <2>2. /\ d \in Requested /\ d.stage = "done" /\ d.err = c.err /\ d.last = c.last
        /\ SameCharge(c, d)
    BY <2>1, WrittenIs
  <2> HIDE DEF d
  <2>3. RowFits(d, r, R)
    BY <2>2 DEF RowFits, SameCharge, Costly
  <2>4. AnswerFits(d, r, R)
    BY <1>1, <2>2 DEF AnswerFits, SameCharge
  <2>5. LateFits(d, R, P)
    BY <2>2 DEF LateFits, SameCharge
  <2> QED
    BY <2>2, <2>3, <2>4, <2>5 DEF Fits, d
<1>2. CASE ~ c.last
  <2> DEFINE e == Caught(c, "unknown")
  <2>1. d = [e EXCEPT !.todo = <<>>]
    BY <1>2 DEF WriteRejected
  <2>2. e \in Requested /\ e.stage = "write" /\ e.err = "unknown" /\ e.last = TRUE /\ SameCharge(c, e)
    BY CaughtIs DEF Errors
  <2> HIDE DEF d, e
  <2>3. <<>> \in Seq(Kinds)
    OBVIOUS
  <2>4. d \in Requested /\ d.stage = "write" /\ d.err = "unknown" /\ SameCharge(c, d)
    BY <2>1, <2>2, <2>3 DEF Requested, SameCharge
  <2>5. RowFits(d, r, R)
    BY <2>4 DEF RowFits, SameCharge, Costly
  <2>6. AnswerFits(d, r, R)
    BY <2>4 DEF AnswerFits
  <2>7. LateFits(d, R, P)
    BY <2>4 DEF LateFits, SameCharge
  <2> QED
    BY <2>4, <2>5, <2>6, <2>7 DEF Fits, d
<1> QED
  BY <1>1, <1>2

-----------------------------------------------------------------------------
\* One lemma per action.

\* checkBudgets() begins for some caller, in the month it takes once.
LEMMA BeginKeeps ==
    ASSUME LedgerIInv, NEW r \in Charges, BudgetBegins(r)
    PROVE  LedgerIInv'
<1>1. PICK who \in Profiles, stream \in BOOLEAN :
        req' = [req EXCEPT ![r] =
            [Idle EXCEPT !.stage = "check", !.who = who, !.stream = stream,
                         !.todo = Checks(who), !.period = month,
                         !.late = BudgetGone(who, month)]]
  BY DEF BudgetBegins
<1> DEFINE d == [Idle EXCEPT !.stage = "check", !.who = who, !.stream = stream,
                             !.todo = Checks(who), !.period = month,
                             !.late = BudgetGone(who, month)]
<1>2. /\ Fits(req[r], r, rows, spent, faults) /\ month \in 1 .. MaxMonth
      /\ UNCHANGED <<rows, spent, month, faults>> /\ faults \in 0 .. MaxFaults
      /\ req[r].stage = "idle"
  BY DEF LedgerIInv, BudgetBegins, DbUnchanged, Charge
<1>3. req[r].charged = {} /\ r \notin DOMAIN rows
  BY <1>2 DEF Fits, RowFits
<1>4. /\ d \in Requested /\ d.stage = "check" /\ d.who = who /\ d.todo = Checks(who)
      /\ d.period = month /\ d.late = BudgetGone(who, month)
      /\ d.err = "none" /\ d.last = FALSE /\ d.called = FALSE /\ d.charged = {}
  <2>1. BudgetGone(who, month) \in BOOLEAN
    BY DEF BudgetGone
  <2>2. Idle \in Requested /\ Checks(who) \in Seq(Kinds)
    BY IdleFits, ChecksAre
  <2>3. Idle.err = "none" /\ Idle.last = FALSE /\ Idle.called = FALSE /\ Idle.charged = {}
    BY DEF Idle
  <2> QED
    BY <1>2, <2>1, <2>2, <2>3 DEF Requested
<1> HIDE DEF d
<1>5. RowFits(d, r, rows) /\ AnswerFits(d, r, rows) /\ FaultlessFits(d, r, rows)
  BY <1>3, <1>4 DEF RowFits, AnswerFits, FaultlessFits
<1>6. LateFits(d, rows, spent)
  <2> SUFFICES ASSUME d.late
               PROVE  \E i \in 1 .. Len(d.todo) :
                        SpentIn(rows, spent, d.todo[i], d.who, d.period) >= Limit[d.todo[i]]
    BY <1>4 DEF LateFits
  <2>1. PICK kind \in DOMAIN Limit : /\ kind = "user" => who.user # NoUser
                                     /\ SpentFor(kind, who, month) >= Limit[kind]
    BY <1>4 DEF BudgetGone
  <2>2. PICK i \in 1 .. Len(Checks(who)) : Checks(who)[i] = kind
    BY <2>1, ChecksAre
  <2>3. SpentIn(rows, spent, kind, who, month) >= Limit[kind]
    BY <2>1, SpentForIs
  <2> QED
    BY <1>4, <2>2, <2>3
<1>7. Fits(d, r, rows, spent, faults)
  <2>1. \A i \in 1 .. Len(d.todo) : d.todo[i] \in DOMAIN Limit
    BY <1>4, ChecksAre
  <2> QED
    BY <1>4, <1>5, <1>6, <2>1 DEF Fits
<1>8. req' = [req EXCEPT ![r] = d]
  BY <1>1 DEF d
<1> QED
  BY <1>2, <1>3, <1>4, <1>7, <1>8, QuietStepKeeps

\* evaluate() of one scope stops the request or lets it through.
LEMMA CheckKeeps ==
    ASSUME LedgerIInv, NEW r \in Charges, BudgetChecked(r)
    PROVE  LedgerIInv'
<1> DEFINE c == req[r]
           k == Head(c.todo)
           d == IF Exhausted(k, c.who, c.period) THEN Caught(c, "budget_exceeded")
                ELSE [c EXCEPT !.todo = Tail(c.todo)]
<1>1. /\ Fits(c, r, rows, spent, faults)
      /\ UNCHANGED <<rows, spent, month, faults>> /\ faults \in 0 .. MaxFaults
      /\ c.stage = "check" /\ c.todo # <<>>
      /\ req' = [req EXCEPT ![r] = d]
  BY DEF LedgerIInv, BudgetChecked, DbUnchanged, Charge
<1>2. Exhausted(k, c.who, c.period) <=> SpentIn(rows, spent, k, c.who, c.period) >= Limit[k]
  BY SpentForIs DEF Exhausted
<1> HIDE DEF c, k
<1>3. /\ c \in Requested /\ c.todo \in Seq(Kinds)
      /\ r \notin DOMAIN rows /\ c.charged = {} /\ c.err = "none" /\ ~ c.last /\ ~ c.called
  BY <1>1 DEF Fits, RowFits, Requested
<1>4. CASE Exhausted(k, c.who, c.period)
  <2>1. d = Caught(c, "budget_exceeded")
    BY <1>4
  <2> HIDE DEF d
  <2>2. d \in Requested /\ d.stage = "write" /\ d.err = "budget_exceeded" /\ SameCharge(c, d)
    <3>1. "budget_exceeded" \in Errors
      BY DEF Errors
    <3> QED
      BY <2>1, <3>1, <1>3, CaughtIs
  <2>3. RowFits(d, r, rows) /\ AnswerFits(d, r, rows) /\ FaultlessFits(d, r, rows)
    BY <2>2, <1>3 DEF RowFits, AnswerFits, FaultlessFits, SameCharge
  <2>4. LateFits(d, rows, spent)
    BY <2>2, <1>3 DEF LateFits, SameCharge
  <2>5. Fits(d, r, rows, spent, faults)
    BY <2>2, <2>3, <2>4 DEF Fits
  <2> QED
    BY <1>1, <1>3, <2>2, <2>5, QuietStepKeeps DEF SameCharge, c
<1>5. CASE ~ Exhausted(k, c.who, c.period)
  <2>1. d = [c EXCEPT !.todo = Tail(c.todo)]
    BY <1>5
  <2>2. Tail(c.todo) \in Seq(Kinds)
    BY <1>1, <1>3
  <2>3. /\ d \in Requested /\ d.stage = "check" /\ d.todo = Tail(c.todo)
        /\ d.err = "none" /\ d.last = c.last /\ SameCharge(c, d)
    BY <2>1, <2>2, <1>1, <1>3 DEF Requested, SameCharge
  <2> HIDE DEF d
  <2>4. RowFits(d, r, rows) /\ AnswerFits(d, r, rows) /\ FaultlessFits(d, r, rows)
    BY <2>3, <1>3 DEF RowFits, AnswerFits, FaultlessFits, SameCharge
  <2>5. /\ Len(d.todo) \in Nat /\ Len(c.todo) = Len(d.todo) + 1
        /\ k = c.todo[1] /\ \A i \in 1 .. Len(d.todo) : d.todo[i] = c.todo[i + 1]
    BY <2>3, <1>1, <1>3 DEF k
  <2>6. \A i \in 1 .. Len(d.todo) : d.todo[i] \in DOMAIN Limit
    BY <2>5, <1>1 DEF Fits
  <2>7. LateFits(d, rows, spent)
    <3> SUFFICES ASSUME c.late
                 PROVE  \E i \in 1 .. Len(d.todo) :
                            SpentIn(rows, spent, d.todo[i], d.who, d.period) >= Limit[d.todo[i]]
      BY <1>3, <2>3 DEF LateFits, SameCharge
    <3>1. PICK j \in 1 .. Len(c.todo) :
            SpentIn(rows, spent, c.todo[j], c.who, c.period) >= Limit[c.todo[j]]
      BY <1>1 DEF Fits, LateFits
    <3>2. j # 1
      BY <3>1, <2>5, <1>2, <1>5
    <3>3. j - 1 \in 1 .. Len(d.todo) /\ (j - 1) + 1 = j
      BY <3>2, <2>5
    <3>4. d.todo[j - 1] = c.todo[j]
      BY <3>3, <2>5
    <3> QED
      BY <3>1, <3>3, <3>4, <2>3 DEF SameCharge
  <2>8. Fits(d, r, rows, spent, faults)
    BY <2>3, <2>4, <2>6, <2>7 DEF Fits
  <2> QED
    BY <1>1, <1>3, <2>3, <2>8, QuietStepKeeps DEF SameCharge, c
<1> QED
  BY <1>4, <1>5

\* A request that comes to its write for the first time.
LEMMA FirstWriteFits ==
    ASSUME NEW d \in Requested, NEW r, NEW R, NEW P, NEW n,
           d.stage = "write", d.charged = {}, ~ d.late, r \notin DOMAIN R,
           ~ d.stream /\ d.err = "none" => ~ d.last
    PROVE  Fits(d, r, R, P, n)
BY DEF Fits, RowFits, AnswerFits, FaultlessFits, LateFits

\* The model answers, fails, or breaks off a stream after some tokens.
LEMMA ExecuteKeeps ==
    ASSUME LedgerIInv, NEW r \in Charges, Execute(r)
    PROVE  LedgerIInv'
<1> DEFINE c == [req[r] EXCEPT !.called = TRUE]
<1>1. /\ Fits(req[r], r, rows, spent, faults)
      /\ UNCHANGED <<rows, spent, month, faults>> /\ faults \in 0 .. MaxFaults
      /\ req[r].stage = "check" /\ c.todo = <<>>
  BY DEF LedgerIInv, Execute, DbUnchanged, Charge
<1>2. /\ req[r] \in Requested /\ r \notin DOMAIN rows /\ req[r].charged = {}
      /\ req[r].err = "none" /\ ~ req[r].last
  BY <1>1 DEF Fits, RowFits
<1>3. /\ c \in Requested /\ c.charged = {} /\ c.err = "none" /\ c.late = req[r].late
      /\ c.stream = req[r].stream /\ c.todo = req[r].todo
  BY <1>2 DEF Requested
<1>4. ~ c.late
  <2>1. Len(req[r].todo) = 0
    BY <1>1, <1>3
  <2> QED
    BY <1>1, <1>3, <2>1 DEF Fits, LateFits
<1>5. ASSUME NEW d \in Requested, d.stage = "write", d.charged = {}, ~ d.late,
             ~ d.stream /\ d.err = "none" => ~ d.last, req' = [req EXCEPT ![r] = d]
      PROVE  LedgerIInv'
  <2>1. Fits(d, r, rows, spent, faults')
    BY <1>2, <1>5, FirstWriteFits
  <2> QED
    BY <1>1, <1>2, <1>5, <2>1, QuietStepKeeps
<1>6. \/ \E bill \in Bills :
            req' = [req EXCEPT ![r] = [c EXCEPT !.stage = "write", !.bill = bill,
                                                !.last = c.stream]]
      \/ req' = [req EXCEPT ![r] = Caught(c, "provider_error")]
      \/ \E bill \in Bills, code \in {"provider_error", "client_abort"} :
            req' = [req EXCEPT ![r] = [Caught(c, code) EXCEPT !.bill = bill]]
  BY DEF Execute
<1> HIDE DEF c
<1>7. Bills \subseteq AnyBill /\ {"provider_error", "client_abort"} \subseteq Errors
  BY DEF AnyBill, Errors
<1>8. CASE \E bill \in Bills :
            req' = [req EXCEPT ![r] = [c EXCEPT !.stage = "write", !.bill = bill,
                                                !.last = c.stream]]
  <2>1. PICK bill \in Bills :
            req' = [req EXCEPT ![r] = [c EXCEPT !.stage = "write", !.bill = bill,
                                                !.last = c.stream]]
    BY <1>8
  <2> DEFINE d == [c EXCEPT !.stage = "write", !.bill = bill, !.last = c.stream]
  <2>2. /\ d \in Requested /\ d.stage = "write" /\ d.charged = {} /\ ~ d.late
        /\ d.stream = c.stream /\ d.last = c.stream
    BY <1>3, <1>4, <1>7 DEF Requested
  <2>3. req' = [req EXCEPT ![r] = d]
    BY <2>1
  <2> HIDE DEF d
  <2> QED
    BY <1>5, <2>2, <2>3
<1>9. CASE req' = [req EXCEPT ![r] = Caught(c, "provider_error")]
  <2> DEFINE d == Caught(c, "provider_error")
  <2>1. d \in Requested /\ d.stage = "write" /\ d.err = "provider_error" /\ SameCharge(c, d)
    BY <1>3, <1>7, CaughtIs
  <2>2. req' = [req EXCEPT ![r] = d]
    BY <1>9
  <2> HIDE DEF d
  <2> QED
    BY <1>3, <1>4, <1>5, <2>1, <2>2 DEF SameCharge
<1>10. CASE \E bill \in Bills, code \in {"provider_error", "client_abort"} :
            req' = [req EXCEPT ![r] = [Caught(c, code) EXCEPT !.bill = bill]]
  <2>1. PICK bill \in Bills, code \in {"provider_error", "client_abort"} :
            req' = [req EXCEPT ![r] = [Caught(c, code) EXCEPT !.bill = bill]]
    BY <1>10
  <2> DEFINE e == Caught(c, code)
             d == [e EXCEPT !.bill = bill]
  <2>2. e \in Requested /\ e.stage = "write" /\ e.err = code /\ SameCharge(c, e)
    BY <1>3, <1>7, CaughtIs
  <2>3. req' = [req EXCEPT ![r] = d]
    BY <2>1
  <2> HIDE DEF e
  <2>4. /\ d \in Requested /\ d.stage = "write" /\ d.err # "none"
        /\ d.charged = e.charged /\ d.late = e.late
    BY <2>2, <1>7 DEF Requested
  <2> HIDE DEF d
  <2> QED
    BY <1>3, <1>4, <1>5, <2>2, <2>3, <2>4 DEF SameCharge
<1> QED
  BY <1>6, <1>8, <1>9, <1>10

\* The insert adds the request's own row, unless it is there already.
LEMMA InsertAdds ==
    ASSUME LedgerIInv, NEW r \in Charges, req[r].stage = "write"
    PROVE  LET R == InsertedRows(r) IN
           /\ RowsOK(R) /\ RowsGrow(rows, R, r)
           /\ r \in DOMAIN R /\ R[r].who = req[r].who /\ R[r].cost = ComputeCost(req[r].bill)
           /\ r \notin DOMAIN rows => R[r].status = StatusFor(req[r].err)
<1> DEFINE c == req[r]
           R == InsertedRows(r)
           row == [who |-> c.who, cost |-> ComputeCost(c.bill), month |-> month,
                   status |-> StatusFor(c.err)]
<1>1. /\ RowsOK(rows) /\ Fits(c, r, rows, spent, faults) /\ c \in Requested
      /\ month \in 1 .. MaxMonth
  BY DEF LedgerIInv, Fits
<1>2. CASE r \in DOMAIN rows
  <2>1. R = rows
    BY <1>2 DEF InsertedRows
  <2>2. R[r].who = c.who /\ R[r].cost = ComputeCost(c.bill)
    BY <1>1, <1>2, <2>1 DEF Fits, RowFits
  <2> QED
    BY <1>1, <1>2, <2>1, <2>2 DEF RowsGrow
<1>3. CASE r \notin DOMAIN rows
  <2>1. R = [q \in DOMAIN rows \cup {r} |-> IF q # r THEN rows[q] ELSE row]
    BY <1>3 DEF InsertedRows
  <2>2. row \in Rows /\ row.who = c.who /\ row.cost = ComputeCost(c.bill) /\ row.status = StatusFor(c.err)
    BY <1>1 DEF Rows, Requested, StatusFor
  <2> HIDE DEF R, row
  <2>3. DOMAIN R = DOMAIN rows \cup {r} /\ R[r] = row /\ \A q \in DOMAIN rows : R[q] = rows[q]
    BY <2>1, <1>3
  <2>4. RowsOK(R) /\ RowsGrow(rows, R, r)
    BY <1>1, <1>3, <2>2, <2>3 DEF RowsOK, RowsGrow
  <2> QED
    BY <2>2, <2>3, <2>4 DEF R
<1> QED
  BY <1>2, <1>3

\* Leaving the tables alone lets nothing shrink.
LEMMA TablesStay == LedgerIInv => CountersGrow(spent, spent) /\ \A r : RowsGrow(rows, rows, r)
BY DEF LedgerIInv, CountersGrow, CountersOK, RowsGrow

\* The INSERT writes one row per request, whoever tries again.
LEMMA InsertKeeps ==
    ASSUME LedgerIInv, NEW r \in Charges, InsertRow(r)
    PROVE  LedgerIInv'
<1> DEFINE c == req[r]
           inserted == r \notin DOMAIN rows
           d == AfterInsert(c, inserted)
           R == InsertedRows(r)
<1>1. /\ Fits(c, r, rows, spent, faults) /\ c \in Requested /\ c.stage = "write"
      /\ UNCHANGED <<spent, month, faults>> /\ faults \in 0 .. MaxFaults /\ month \in 1 .. MaxMonth
      /\ CountersOK(spent) /\ Accounts(spent, req)
      /\ rows' = R /\ req' = [req EXCEPT ![r] = d] /\ req = [x \in Charges |-> req[x]]
  BY DEF LedgerIInv, Fits, InsertRow, Charge
<1>2. /\ RowsOK(R) /\ RowsGrow(rows, R, r)
      /\ r \in DOMAIN R /\ R[r].who = c.who /\ R[r].cost = ComputeCost(c.bill)
      /\ inserted => R[r].status = StatusFor(c.err)
  BY <1>1, InsertAdds
<1> HIDE DEF c, R
<1>3. /\ d \in Requested /\ d.err = c.err /\ d.last = c.last /\ SameCharge(c, d)
      /\ \/ inserted /\ Costly(c) /\ d.stage = "spend" /\ d.todo = SpendScopes(c.who)
         \/ ~ (inserted /\ Costly(c)) /\ d.stage = "done"
  <2>1. CASE inserted /\ Costly(c)
    <3>1. d = [c EXCEPT !.stage = "spend", !.todo = SpendScopes(c.who)]
      BY <2>1 DEF AfterInsert, Costly
    <3>2. SpendScopes(c.who) \in Seq(Kinds)
      BY ScopesAre
    <3> HIDE DEF d, inserted
    <3> QED
      BY <2>1, <3>1, <3>2, <1>1 DEF Requested, SameCharge
  <2>2. CASE ~ (inserted /\ Costly(c))
    <3>1. d = Written(c)
      BY <2>2 DEF AfterInsert, Costly
    <3> HIDE DEF d, inserted
    <3> QED
      BY <2>2, <3>1, <1>1, WrittenIs
  <2> QED
    BY <2>1, <2>2
<1>4. (c.charged # {} => ~ inserted) /\ (c.late => ~ c.called)
      /\ (~ c.stream /\ c.err = "none" => inserted) /\ (faults = 0 => inserted)
  BY <1>1 DEF Fits, RowFits, LateFits, AnswerFits, FaultlessFits
<1> HIDE DEF d
<1>5. RowFits(d, r, R)
  <2>1. d.stage = "spend" => Paying(d)
    BY <1>3, <1>4 DEF Paying, SameCharge
  <2>2. c.charged # {} => Costly(c)
    BY <1>1 DEF Fits, RowFits
  <2> QED
    BY <1>2, <1>3, <2>1, <2>2 DEF RowFits, SameCharge, Costly
<1>6. AnswerFits(d, r, R)
  <2>1. ~ c.stream /\ c.err = "none" => ~ c.last
    BY <1>1 DEF Fits, AnswerFits
  <2> QED
    BY <1>2, <1>3, <1>4, <2>1 DEF AnswerFits, SameCharge, PaidInFull, Costly, StatusFor
<1>7. faults = 0 => FaultlessFits(d, r, R)
  BY <1>3, <1>4 DEF FaultlessFits, SameCharge, PaidInFull, Costly
<1>8. LateFits(d, R, spent)
  BY <1>3, <1>4 DEF LateFits, SameCharge
<1>9. Fits(d, r, R, spent, faults)
  BY <1>3, <1>5, <1>6, <1>7, <1>8 DEF Fits
<1>10. Accounts(spent, req')
  <2>1. \A x \in Charges : req'[x] = IF x = r THEN d ELSE req[x]
    BY <1>1
  <2>2. \A x \in Charges : /\ req'[x].charged = req[x].charged /\ req'[x].who = req[x].who
                           /\ req'[x].bill = req[x].bill
    BY <2>1, <1>3 DEF SameCharge, c
  <2> QED
    BY <1>1, <2>2, AccountsKept
<1> QED
  BY <1>1, <1>2, <1>9, <1>10, StepKeeps, TablesStay

\* recordSpend() charges the firm, the app and, if there is one, the user.
LEMMA KindsAre ==
    ASSUME NEW who
    PROVE  SpendKinds(who) = IF who.user = NoUser THEN {"firm", "app"} ELSE {"firm", "app", "user"}
<1> DEFINE u == SpendScopes(who)
<1>1. /\ who.user = NoUser => Len(u) = 2 /\ u[1] = "firm" /\ u[2] = "app"
      /\ who.user # NoUser => Len(u) = 3 /\ u[1] = "firm" /\ u[2] = "app" /\ u[3] = "user"
  BY ScopesAre
<1>2. SpendKinds(who) = {u[i] : i \in 1 .. Len(u)}
  BY DEF SpendKinds
<1> HIDE DEF u
<1>3. CASE who.user = NoUser
  <2>1. Len(u) = 2
    BY <1>1, <1>3, Zenon
  <2>2. 1 .. Len(u) = {1, 2}
    BY <2>1
  <2> QED
    BY <1>1, <1>2, <1>3, <2>2
<1>4. CASE who.user # NoUser
  <2>1. Len(u) = 3
    BY <1>1, <1>4, Zenon
  <2>2. 1 .. Len(u) = {1, 2, 3}
    BY <2>1
  <2> QED
    BY <1>1, <1>2, <1>4, <2>2
<1> QED
  BY <1>3, <1>4

\* Every counter update charges the next scope, one that was not charged yet,
\* and the last one completes them.
LEMMA PayingStep ==
    ASSUME NEW c \in Requested, Paying(c)
    PROVE  /\ Head(c.todo) \in {"firm", "app", "user"} /\ Head(c.todo) \notin c.charged
           /\ Len(c.todo) = 1 => c.charged \cup {Head(c.todo)} = SpendKinds(c.who)
           /\ Len(c.todo) # 1 =>
                /\ Tail(c.todo) \in Seq(Kinds)
                /\ \A d : (/\ d.who = c.who /\ d.todo = Tail(c.todo)
                           /\ d.charged = c.charged \cup {Head(c.todo)}) => Paying(d)
<1>1. /\ c.who.user = NoUser => SpendKinds(c.who) = {"firm", "app"}
      /\ c.who.user # NoUser => SpendKinds(c.who) = {"firm", "app", "user"}
  BY KindsAre
<1>2. CASE c.who.user = NoUser /\ c.todo = <<"firm", "app">> /\ c.charged = {}
  <2>1. Head(c.todo) = "firm" /\ Tail(c.todo) = <<"app">> /\ Len(c.todo) = 2
    BY <1>2
  <2>2. <<"app">> \in Seq(Kinds)
    BY DEF Kinds
  <2>3. c.charged \cup {Head(c.todo)} = {"firm"}
    BY <1>2, <2>1
  <2>4. ASSUME NEW d, d.who = c.who, d.todo = Tail(c.todo), d.charged = c.charged \cup {Head(c.todo)}
        PROVE  Paying(d)
    BY <1>2, <2>1, <2>3, <2>4, Zenon DEF Paying
  <2>5. Head(c.todo) \in {"firm", "app", "user"} /\ Head(c.todo) \notin c.charged
    BY <1>2, <2>1
  <2>6. Tail(c.todo) \in Seq(Kinds)
    BY <2>1, <2>2, Zenon
  <2>7. Len(c.todo) # 1
    BY <2>1
  <2> QED
    BY <2>4, <2>5, <2>6, <2>7, Zenon
<1>3. CASE c.who.user = NoUser /\ c.todo = <<"app">> /\ c.charged = {"firm"}
  BY <1>1, <1>3
<1>4. CASE c.who.user # NoUser /\ c.todo = <<"firm", "app", "user">> /\ c.charged = {}
  <2>1. Head(c.todo) = "firm" /\ Tail(c.todo) = <<"app", "user">> /\ Len(c.todo) = 3
    BY <1>4
  <2>2. <<"app", "user">> \in Seq(Kinds)
    BY DEF Kinds
  <2>3. c.charged \cup {Head(c.todo)} = {"firm"}
    BY <1>4, <2>1
  <2>4. ASSUME NEW d, d.who = c.who, d.todo = Tail(c.todo), d.charged = c.charged \cup {Head(c.todo)}
        PROVE  Paying(d)
    BY <1>4, <2>1, <2>3, <2>4, Zenon DEF Paying
  <2>5. Head(c.todo) \in {"firm", "app", "user"} /\ Head(c.todo) \notin c.charged
    BY <1>4, <2>1
  <2>6. Tail(c.todo) \in Seq(Kinds)
    BY <2>1, <2>2, Zenon
  <2>7. Len(c.todo) # 1
    BY <2>1
  <2> QED
    BY <2>4, <2>5, <2>6, <2>7, Zenon
<1>5. CASE c.who.user # NoUser /\ c.todo = <<"app", "user">> /\ c.charged = {"firm"}
  <2>1. Head(c.todo) = "app" /\ Tail(c.todo) = <<"user">> /\ Len(c.todo) = 2
    BY <1>5
  <2>2. <<"user">> \in Seq(Kinds) /\ {"firm"} \cup {"app"} = {"firm", "app"}
    BY DEF Kinds
  <2>3. c.charged \cup {Head(c.todo)} = {"firm", "app"}
    BY <1>5, <2>1
  <2>4. ASSUME NEW d, d.who = c.who, d.todo = Tail(c.todo), d.charged = c.charged \cup {Head(c.todo)}
        PROVE  Paying(d)
    BY <1>5, <2>1, <2>3, <2>4, Zenon DEF Paying
  <2>5. Head(c.todo) \in {"firm", "app", "user"} /\ Head(c.todo) \notin c.charged
    BY <1>5, <2>1
  <2>6. Tail(c.todo) \in Seq(Kinds)
    BY <2>1, <2>2, Zenon
  <2>7. Len(c.todo) # 1
    BY <2>1
  <2> QED
    BY <2>4, <2>5, <2>6, <2>7, Zenon
<1>6. CASE c.who.user # NoUser /\ c.todo = <<"user">> /\ c.charged = {"firm", "app"}
  BY <1>1, <1>6
<1> QED
  BY <1>2, <1>3, <1>4, <1>5, <1>6 DEF Paying, SpendScopes

\* What a request is after one of its counters was charged.
LEMMA ChargedIs ==
    ASSUME LedgerIInv, NEW r \in Charges, req[r].stage = "spend"
    PROVE  LET c == req[r] e == Charged(req[r]) IN
           /\ e \in Requested /\ e.stage = "spend" /\ e.charged = c.charged \cup {Head(c.todo)}
           /\ e.who = c.who /\ e.bill = c.bill /\ e.todo = c.todo /\ e.err = c.err
           /\ e.last = c.last /\ e.stream = c.stream /\ e.late = c.late /\ e.called = c.called
<1> DEFINE c == req[r]
           e == Charged(c)
<1>1. c \in Requested /\ Paying(c) /\ month \in 1 .. MaxMonth
  BY DEF LedgerIInv, Fits, RowFits
<1>2. SpendPeriod(c) \in 1 .. MaxMonth
  BY <1>1 DEF SpendPeriod, Requested
<1>3. Head(c.todo) \in Kinds
  <2> HIDE DEF c
  <2> QED
    BY <1>1, PayingStep DEF Kinds
<1>4. c.charged \cup {Head(c.todo)} \in SUBSET Kinds
  BY <1>1, <1>3 DEF Requested
<1>5. e = [c EXCEPT !.charged = c.charged \cup {Head(c.todo)}, !.period = SpendPeriod(c)]
  BY DEF Charged
<1> HIDE DEF c, e
<1>6. /\ e \in Requested /\ e.stage = c.stage /\ e.charged = c.charged \cup {Head(c.todo)}
      /\ e.who = c.who /\ e.bill = c.bill /\ e.todo = c.todo /\ e.err = c.err
      /\ e.last = c.last /\ e.stream = c.stream /\ e.late = c.late /\ e.called = c.called
  BY <1>1, <1>2, <1>4, <1>5 DEF Requested
<1> QED
  BY <1>6 DEF c, e

\* One counter update keeps the accounts, whatever becomes of the request.
LEMMA ChargeAdds ==
    ASSUME LedgerIInv, NEW r \in Charges, req[r].stage = "spend",
           NEW d, d.charged = req[r].charged \cup {Head(req[r].todo)},
           d.who = req[r].who, d.bill = req[r].bill,
           spent' = UpsertedSpend(req[r]), req' = [req EXCEPT ![r] = d]
    PROVE  CountersOK(spent') /\ CountersGrow(spent, spent') /\ Accounts(spent', req')
<1> DEFINE c == req[r]
           k == Head(c.todo)
           cost == ComputeCost(c.bill)
<1>1. /\ c \in Requested /\ Paying(c) /\ Costly(c) /\ month \in 1 .. MaxMonth
      /\ req = [x \in Charges |-> req[x]] /\ CountersOK(spent) /\ Accounts(spent, req)
  BY DEF LedgerIInv, Fits, RowFits
<1>2. SpendPeriod(c) \in 1 .. MaxMonth
  BY <1>1 DEF SpendPeriod, Requested
<1>3. k \in {"firm", "app", "user"} /\ k \notin c.charged
  <2> HIDE DEF c
  <2> QED
    BY <1>1, PayingStep
<1>4. \A x \in Charges : req[x].charged # {} => ComputeCost(req[x].bill) \in Nat
  <2>1. \A x \in Charges : req[x] \in Requested /\ (req[x].charged # {} => Costly(req[x]))
    BY DEF LedgerIInv, Fits, RowFits
  <2>2. \A x \in Charges : req[x].bill \in AnyBill
    BY <2>1 DEF Requested
  <2> QED
    BY <2>1, <2>2, CostIsHonest DEF Costly
<1>5. cost \in Nat
  <2>1. c.bill \in AnyBill
    BY <1>1 DEF Requested
  <2> QED
    BY <1>1, <2>1, CostIsHonest DEF Costly
<1>6. req'[r] = d /\ \A x \in Charges \ {r} : req'[x] = req[x]
  BY <1>1
<1> DEFINE period == SpendPeriod(c)
<1>7. spent' = [x \in DOMAIN spent \cup {<<ScopeKey(k, req[r].who), period>>} |->
                    (IF x \in DOMAIN spent THEN spent[x] ELSE 0)
                    + (IF x = <<ScopeKey(k, req[r].who), period>> THEN cost ELSE 0)]
  BY DEF UpsertedSpend
<1>8. /\ k \notin req[r].charged /\ req'[r].charged = req[r].charged \cup {k}
      /\ req'[r].who = req[r].who /\ req'[r].bill = req[r].bill
  BY <1>3, <1>6
<1>9. cost = ComputeCost(req[r].bill) /\ period \in 1 .. MaxMonth
  BY <1>2
<1> HIDE DEF k, cost, period, c
<1> QED
  BY SMTT(30), <1>1, <1>3, <1>4, <1>5, <1>6, <1>7, <1>8, <1>9, AccountsCharged

\* recordSpend() charges one counter per statement.
LEMMA SpendKeeps ==
    ASSUME LedgerIInv, NEW r \in Charges, RecordSpend(r)
    PROVE  LedgerIInv'
<1> DEFINE c == req[r]
           e == Charged(c)
           d == IF Len(e.todo) = 1 THEN Written(e) ELSE [e EXCEPT !.todo = Tail(e.todo)]
<1>1. /\ Fits(c, r, rows, spent, faults) /\ c \in Requested /\ c.stage = "spend"
      /\ UNCHANGED <<rows, month, faults>> /\ faults \in 0 .. MaxFaults /\ month \in 1 .. MaxMonth
      /\ RowsOK(rows) /\ spent' = UpsertedSpend(c) /\ req' = [req EXCEPT ![r] = d]
  BY DEF LedgerIInv, Fits, RecordSpend, Charge
<1>2. /\ e \in Requested /\ e.stage = "spend" /\ e.charged = c.charged \cup {Head(c.todo)}
      /\ e.who = c.who /\ e.bill = c.bill /\ e.todo = c.todo /\ e.err = c.err
      /\ e.last = c.last /\ e.stream = c.stream /\ e.late = c.late /\ e.called = c.called
  BY <1>1, ChargedIs
<1> HIDE DEF c, e
<1>3. /\ r \in DOMAIN rows /\ Costly(c) /\ Paying(c) /\ rows[r].status = StatusFor(c.err)
      /\ rows[r].who = c.who /\ rows[r].cost = ComputeCost(c.bill)
      /\ (c.late => ~ c.called) /\ (~ c.stream /\ c.err = "none" => ~ c.last)
  BY <1>1 DEF Fits, RowFits, LateFits, AnswerFits
<1>4. /\ d \in Requested /\ d.charged = e.charged /\ d.who = e.who /\ d.bill = e.bill
      /\ d.err = e.err /\ d.last = e.last /\ d.stream = e.stream
      /\ d.late = e.late /\ d.called = e.called
      /\ \/ d.stage = "spend" /\ Paying(d)
         \/ d.stage = "done" /\ d.charged = SpendKinds(c.who)
  <2>1. CASE Len(e.todo) = 1
    <3>1. d = Written(e)
      BY <2>1
    <3>2. e.charged = SpendKinds(c.who)
      BY <1>1, <1>2, <1>3, <2>1, PayingStep
    <3> HIDE DEF d
    <3> QED
      BY <1>2, <3>1, <3>2, WrittenIs DEF SameCharge
  <2>2. CASE Len(e.todo) # 1
    <3>1. d = [e EXCEPT !.todo = Tail(e.todo)]
      BY <2>2
    <3>2. Tail(e.todo) \in Seq(Kinds)
      BY <1>1, <1>2, <1>3, <2>2, PayingStep
    <3> HIDE DEF d
    <3>3. /\ d \in Requested /\ d.charged = e.charged /\ d.who = e.who /\ d.bill = e.bill
          /\ d.err = e.err /\ d.last = e.last /\ d.stream = e.stream /\ d.stage = "spend"
          /\ d.late = e.late /\ d.called = e.called /\ d.todo = Tail(e.todo)
      BY <1>2, <3>1, <3>2 DEF Requested
    <3>4. Paying(d)
      BY <1>1, <1>2, <1>3, <2>2, <3>3, PayingStep
    <3> QED
      BY <3>3, <3>4
  <2> QED
    BY <2>1, <2>2
<1> HIDE DEF d
<1>5. Costly(d)
  BY <1>2, <1>3, <1>4 DEF Costly
<1>6. RowFits(d, r, rows)
  BY <1>2, <1>3, <1>4, <1>5 DEF RowFits
<1>7. AnswerFits(d, r, rows)
  BY <1>2, <1>3, <1>4 DEF AnswerFits, PaidInFull, StatusFor
<1>8. FaultlessFits(d, r, rows)
  BY <1>2, <1>4 DEF FaultlessFits, PaidInFull
<1>9. LateFits(d, rows, spent')
  BY <1>2, <1>3, <1>4 DEF LateFits
<1>10. Fits(d, r, rows, spent', faults)
  BY <1>4, <1>6, <1>7, <1>8, <1>9 DEF Fits
<1>11. CountersOK(spent') /\ CountersGrow(spent, spent') /\ Accounts(spent', req')
  BY <1>1, <1>2, <1>4, ChargeAdds DEF c
<1> QED
  BY <1>1, <1>10, <1>11, StepKeeps, TablesStay

\* A statement that fails changes no table.
LEMMA FailureKeeps ==
    ASSUME LedgerIInv, NEW r \in Charges, StatementFails(r)
    PROVE  LedgerIInv'
<1> DEFINE c == req[r]
<1>1. /\ Fits(c, r, rows, spent, faults) /\ c \in Requested
      /\ UNCHANGED <<rows, spent, month>> /\ faults' \in 0 .. MaxFaults /\ faults' # 0
  BY LedgerAssumption DEF LedgerIInv, Fits, StatementFails, Fault, DbUnchanged
<1>2. (c.late => ~ c.called) /\ (c.charged # {} => r \in DOMAIN rows /\ Costly(c))
      /\ (r \in DOMAIN rows => rows[r].who = c.who /\ rows[r].cost = ComputeCost(c.bill))
  BY <1>1 DEF Fits, LateFits, RowFits
<1>3. \/ c.stage = "check" /\ req' = [req EXCEPT ![r] = Caught(c, "unknown")]
      \/ c.stage \in {"write", "spend"} /\ req' = [req EXCEPT ![r] = WriteRejected(c)]
  BY DEF StatementFails, Charge
<1>4. CASE c.stage = "check" /\ req' = [req EXCEPT ![r] = Caught(c, "unknown")]
  <2> DEFINE d == Caught(c, "unknown")
  <2>1. d \in Requested /\ d.stage = "write" /\ d.err = "unknown" /\ SameCharge(c, d)
    <3>1. "unknown" \in Errors
      BY DEF Errors
    <3> HIDE DEF c
    <3> QED
      BY <1>1, <3>1, CaughtIs
  <2>2. r \notin DOMAIN rows
    BY <1>1, <1>4 DEF Fits, RowFits
  <2>3. req' = [req EXCEPT ![r] = d]
    BY <1>4
  <2> HIDE DEF c, d
  <2>4. RowFits(d, r, rows) /\ AnswerFits(d, r, rows) /\ LateFits(d, rows, spent)
    BY <1>2, <2>1, <2>2 DEF RowFits, AnswerFits, LateFits, SameCharge, Costly
  <2>5. Fits(d, r, rows, spent, faults')
    BY <1>1, <2>1, <2>4 DEF Fits
  <2> QED
    BY <1>1, <2>1, <2>3, <2>5, QuietStepKeeps DEF SameCharge, c
<1>5. CASE c.stage \in {"write", "spend"} /\ req' = [req EXCEPT ![r] = WriteRejected(c)]
  <2>1. ~ c.stream /\ c.err = "none" => ~ c.last
    BY <1>1, <1>5 DEF Fits, AnswerFits
  <2> HIDE DEF c
  <2>2. Fits(WriteRejected(c), r, rows, spent, faults') /\ SameCharge(c, WriteRejected(c))
    BY <1>1, <1>2, <2>1, RejectedFits
  <2> QED
    BY <1>1, <1>5, <2>2, QuietStepKeeps DEF SameCharge, c
<1> QED
  BY <1>3, <1>4, <1>5

\* A statement whose answer is lost has changed the table, and is reported
\* as failed.
LEMMA LossKeeps ==
    ASSUME LedgerIInv, NEW r \in Charges, AnswerLost(r)
    PROVE  LedgerIInv'
<1> DEFINE c == req[r]
<1>1. /\ Fits(c, r, rows, spent, faults) /\ c \in Requested /\ month' \in 1 .. MaxMonth
      /\ faults' \in 0 .. MaxFaults /\ faults' # 0
      /\ RowsOK(rows) /\ CountersOK(spent) /\ Accounts(spent, req)
      /\ req = [x \in Charges |-> req[x]]
  BY LedgerAssumption DEF LedgerIInv, Fits, AnswerLost, Fault
<1>2. \/ /\ c.stage = "write" /\ rows' = InsertedRows(r) /\ spent' = spent
         /\ req' = [req EXCEPT ![r] = WriteRejected(c)]
      \/ /\ c.stage = "spend" /\ spent' = UpsertedSpend(c) /\ rows' = rows
         /\ req' = [req EXCEPT ![r] = WriteRejected(Charged(c))]
  BY DEF AnswerLost, Charge
<1>3. CASE /\ c.stage = "write" /\ rows' = InsertedRows(r) /\ spent' = spent
           /\ req' = [req EXCEPT ![r] = WriteRejected(c)]
  <2> DEFINE d == WriteRejected(c)
  <2>1. /\ (c.late => ~ c.called) /\ (~ c.stream /\ c.err = "none" => ~ c.last)
        /\ (c.charged # {} => Costly(c))
    BY <1>1, <1>3 DEF Fits, LateFits, AnswerFits, RowFits
  <2>2. /\ RowsOK(rows') /\ RowsGrow(rows, rows', r) /\ r \in DOMAIN rows'
        /\ rows'[r].who = c.who /\ rows'[r].cost = ComputeCost(c.bill)
    BY <1>3, InsertAdds
  <2>3. Fits(d, r, rows', spent', faults') /\ SameCharge(c, d)
    <3> HIDE DEF c
    <3> QED
      BY <1>1, <2>1, <2>2, RejectedFits
  <2>4. req' = [req EXCEPT ![r] = d]
    BY <1>3
  <2> HIDE DEF d
  <2>5. Accounts(spent, req')
    <3>1. \A x \in Charges : req'[x] = IF x = r THEN d ELSE req[x]
      BY <1>1, <2>4
    <3>2. \A x \in Charges : /\ req'[x].charged = req[x].charged /\ req'[x].who = req[x].who
                             /\ req'[x].bill = req[x].bill
      BY <3>1, <2>3 DEF SameCharge
    <3> QED
      BY <1>1, <3>2, AccountsKept
  <2>6. CountersOK(spent') /\ CountersGrow(spent, spent') /\ Accounts(spent', req')
    BY <1>1, <1>3, <2>5, TablesStay
  <2> QED
    BY <1>1, <2>2, <2>3, <2>4, <2>6, StepKeeps
<1>4. CASE /\ c.stage = "spend" /\ spent' = UpsertedSpend(c) /\ rows' = rows
           /\ req' = [req EXCEPT ![r] = WriteRejected(Charged(c))]
  <2> DEFINE e == Charged(c)
             d == WriteRejected(e)
  <2>1. /\ e \in Requested /\ e.charged = c.charged \cup {Head(c.todo)}
        /\ e.who = c.who /\ e.bill = c.bill /\ e.err = c.err
        /\ e.last = c.last /\ e.stream = c.stream /\ e.late = c.late /\ e.called = c.called
    BY <1>4, ChargedIs
  <2>2. /\ (c.late => ~ c.called) /\ (~ c.stream /\ c.err = "none" => ~ c.last)
        /\ r \in DOMAIN rows /\ Costly(c)
        /\ rows[r].who = c.who /\ rows[r].cost = ComputeCost(c.bill)
    BY <1>1, <1>4 DEF Fits, LateFits, AnswerFits, RowFits
  <2> HIDE DEF e
  <2>3. Costly(e)
    BY <2>1, <2>2 DEF Costly
  <2>4. Fits(d, r, rows', spent', faults') /\ SameCharge(e, d)
    BY <1>1, <1>4, <2>1, <2>2, <2>3, RejectedFits
  <2>5. req' = [req EXCEPT ![r] = d]
    BY <1>4 DEF e
  <2> HIDE DEF d
  <2>6. CountersOK(spent') /\ CountersGrow(spent, spent') /\ Accounts(spent', req')
    BY <1>4, <2>1, <2>4, <2>5, ChargeAdds DEF SameCharge
  <2>7. RowsOK(rows') /\ RowsGrow(rows, rows', r)
    BY <1>1, <1>4, TablesStay
  <2> QED
    BY <1>1, <2>4, <2>5, <2>6, <2>7, StepKeeps
<1> QED
  BY <1>2, <1>3, <1>4

\* A crash ends the request and leaves the tables.
LEMMA CrashKeeps ==
    ASSUME LedgerIInv, Crash
    PROVE  LedgerIInv'
<1>1. /\ UNCHANGED <<rows, spent, month>> /\ faults' \in 0 .. MaxFaults /\ faults' # 0
      /\ \A x \in Charges : req'[x] = IF req[x].stage \in {"idle", "done"} THEN req[x]
                                      ELSE [req[x] EXCEPT !.stage = "lost", !.todo = <<>>]
      /\ req' = [x \in Charges |-> req'[x]]
  <2>1. UNCHANGED <<rows, spent, month>> /\ faults < MaxFaults /\ faults' = faults + 1
    BY Zenon DEF Crash, Fault, DbUnchanged
  <2>2. faults' \in 0 .. MaxFaults /\ faults' # 0
    BY <2>1, LedgerAssumption DEF LedgerIInv
  <2>3. req' = [x \in Charges |-> IF req[x].stage \in {"idle", "done"} THEN req[x]
                                  ELSE [req[x] EXCEPT !.stage = "lost", !.todo = <<>>]]
    BY Zenon DEF Crash
  <2> QED
    BY <2>1, <2>2, <2>3
<1>2. ASSUME NEW x \in Charges
      PROVE  /\ Fits(req'[x], x, rows, spent, faults')
             /\ req'[x].charged = req[x].charged /\ req'[x].who = req[x].who
             /\ req'[x].bill = req[x].bill
  <2>1. Fits(req[x], x, rows, spent, faults) /\ req[x] \in Requested
    BY DEF LedgerIInv, Fits
  <2>2. CASE req[x].stage \in {"idle", "done"}
    <3>1. req'[x] = req[x]
      BY <1>1, <2>2
    <3> QED
      BY <1>1, <2>1, <3>1 DEF Fits
  <2>3. CASE req[x].stage \notin {"idle", "done"}
    <3> DEFINE d == [req[x] EXCEPT !.stage = "lost", !.todo = <<>>]
    <3>1. req'[x] = d
      BY <1>1, <2>3
    <3>2. <<>> \in Seq(Kinds)
      OBVIOUS
    <3>3. d \in Requested /\ d.stage = "lost" /\ SameCharge(req[x], d)
      BY <2>1, <3>2 DEF Requested, SameCharge
    <3> HIDE DEF d
    <3>4. RowFits(d, x, rows) /\ AnswerFits(d, x, rows) /\ LateFits(d, rows, spent)
      BY <2>1, <3>3 DEF Fits, RowFits, AnswerFits, LateFits, SameCharge, Costly
    <3> QED
      BY <1>1, <3>1, <3>3, <3>4 DEF Fits, SameCharge
  <2> QED
    BY <2>2, <2>3
<1>3. Accounts(spent, req')
  <2>1. Accounts(spent, req)
    BY DEF LedgerIInv
  <2> QED
    BY <1>2, <2>1, AccountsKept
<1> QED
  BY <1>1, <1>2, <1>3 DEF LedgerIInv

\* Every step of the requests keeps the invariant.
LEMMA LedgerStep == LedgerIInv /\ [LedgerNext]_ledgerVars => LedgerIInv'
<1> SUFFICES ASSUME LedgerIInv, [LedgerNext]_ledgerVars PROVE LedgerIInv'
  OBVIOUS
<1>1. ASSUME NEW r \in Charges,
             \/ BudgetBegins(r) \/ BudgetChecked(r) \/ Execute(r)
             \/ InsertRow(r) \/ RecordSpend(r)
             \/ StatementFails(r) \/ AnswerLost(r)
      PROVE  LedgerIInv'
  BY <1>1, BeginKeeps, CheckKeeps, ExecuteKeeps, InsertKeeps, SpendKeeps, FailureKeeps, LossKeeps
<1>2. CASE Crash
  BY <1>2, CrashKeeps
<1>3. CASE Rollover
  BY <1>3, LedgerAssumption DEF Rollover, DbUnchanged, LedgerIInv
<1>4. CASE UNCHANGED ledgerVars
  BY <1>4 DEF ledgerVars, LedgerIInv
<1> QED
  BY <1>1, <1>2, <1>3, <1>4 DEF LedgerNext

\* The ledger's invariant, for every number of requests and every price.
THEOREM LedgerInductive == LedgerSpec => []LedgerIInv
BY LedgerStarts, LedgerStep, PTL DEF LedgerSpec

-----------------------------------------------------------------------------
\* The hard stop holds for every set of limits, callers and requests: a request
\* that begins when one of its budgets is exhausted is never let through.
THEOREM HardStopHolds == LedgerSpec => []HardStop
<1>1. LedgerIInv => HardStop
  BY DEF LedgerIInv, HardStop, Fits, LateFits
<1> QED
  BY <1>1, LedgerInductive, PTL

\* Every complete answer was ledgered as ok and charged in full, or the row says
\* that its cost is not known, exactly when a price is missing.
THEOREM AnswersAreBilled == LedgerSpec => []AnsweredIsBilled
<1>1. LedgerIInv => AnsweredIsBilled
  <2> SUFFICES ASSUME LedgerIInv, NEW r \in Charges, req[r].stage = "done",
                      ~ req[r].stream, req[r].err = "none"
               PROVE  /\ r \in DOMAIN rows
                      /\ rows[r].status = "ok"
                      /\ \/ rows[r].cost # None /\ rows[r].cost > 0 /\ ~ Unpriced(req[r].bill)
                                /\ req[r].charged = SpendKinds(req[r].who)
                         \/ rows[r].cost = None /\ Unpriced(req[r].bill)
                         \/ rows[r].cost = 0 /\ ~ Unpriced(req[r].bill)
    BY DEF AnsweredIsBilled
  <2>1. /\ r \in DOMAIN rows /\ rows[r].status = "ok" /\ PaidInFull(req[r])
        /\ rows[r].cost = ComputeCost(req[r].bill) /\ req[r].bill \in AnyBill
    BY DEF LedgerIInv, Fits, AnswerFits, RowFits, Requested
  <2>2. /\ ComputeCost(req[r].bill) \in Nat \cup {None}
        /\ ComputeCost(req[r].bill) = None <=> Unpriced(req[r].bill)
    BY <2>1, CostIsHonest
  <2> QED
    BY <2>1, <2>2, LedgerAssumption DEF PaidInFull, Costly
<1> QED
  BY <1>1, LedgerInductive, PTL

\* The sums of the two tables that the accounts compare.
LEMMA ScopeSums ==
    ASSUME LedgerIInv, NEW who \in Profiles, NEW kind \in SpendKinds(who)
    PROVE  LET S == {r \in DOMAIN rows : ScopeKey(kind, rows[r].who) = ScopeKey(kind, who)}
           IN  /\ kind \in {"firm", "app", "user"} /\ (kind = "user" => who.user # NoUser)
               /\ Ledgered(kind, who) = Sum(CostsIn(rows), S)
               /\ Counted(kind, who) = Sum(Paid(req, kind, who), Charges)
               /\ IsFiniteSet(S) /\ \A r \in S : CostsIn(rows)[r] \in Nat
               /\ \A r \in Charges : Paid(req, kind, who)[r] \in Nat
               /\ \A r \in Charges : Paid(req, kind, who)[r] # 0 =>
                        r \in S /\ Paid(req, kind, who)[r] <= CostsIn(rows)[r]
<1> DEFINE S == {r \in DOMAIN rows : ScopeKey(kind, rows[r].who) = ScopeKey(kind, who)}
<1>1. kind \in {"firm", "app", "user"} /\ (kind = "user" => who.user # NoUser)
  BY KindsAre
<1>2. Ledgered(kind, who) = Sum(CostsIn(rows), S)
  <2> DEFINE InScope(r) ==
            CASE kind = "firm" -> rows[r].who.firm = who.firm
              [] kind = "app"  -> rows[r].who.firm = who.firm /\ rows[r].who.app = who.app
              [] kind = "user" -> rows[r].who.firm = who.firm /\ rows[r].who.user = who.user
             T == {r \in DOMAIN rows : InScope(r)}
  <2>1. \A r : InScope(r) <=> ScopeKey(kind, rows[r].who) = ScopeKey(kind, who)
    BY <1>1 DEF ScopeKey
  <2>2. Ledgered(kind, who) = Sum(Costs, T)
    BY DEF Ledgered, Sum
  <2>3. T = S
    <3> HIDE DEF InScope
    <3> QED
      BY <2>1
  <2>4. Costs = CostsIn(rows)
    BY DEF Costs, CostsIn
  <2> HIDE DEF T, S
  <2> QED
    BY <2>2, <2>3, <2>4
<1>3. Counted(kind, who) = Sum(Paid(req, kind, who), Charges)
  <2>1. \A m \in 1 .. MaxMonth : SpentFor(kind, who, m) = Counter(spent, kind, who, m)
    BY <1>1 DEF SpentFor, Counter
  <2>2. [m \in 1 .. MaxMonth |-> SpentFor(kind, who, m)]
            = [m \in 1 .. MaxMonth |-> Counter(spent, kind, who, m)]
    BY <2>1
  <2>3. Counted(kind, who) = CountedIn(spent, kind, who)
    BY <2>2 DEF Counted, CountedIn, Sum
  <2>4. Accounts(spent, req)
    BY DEF LedgerIInv
  <2> QED
    BY <1>1, <2>3, <2>4 DEF Accounts
<1>4. IsFiniteSet(S) /\ \A r \in S : CostsIn(rows)[r] \in Nat
  <2>1. RowsOK(rows)
    BY DEF LedgerIInv
  <2> QED
    BY <2>1, CostsAreNat, FS_Subset
<1>5. ASSUME NEW r \in Charges
      PROVE  /\ Paid(req, kind, who)[r] \in Nat
             /\ Paid(req, kind, who)[r] # 0 => r \in S /\ Paid(req, kind, who)[r] <= CostsIn(rows)[r]
  <2> DEFINE c == req[r]
             hit == kind \in c.charged /\ ScopeKey(kind, c.who) = ScopeKey(kind, who)
  <2>1. Paid(req, kind, who)[r] = IF hit THEN ComputeCost(c.bill) ELSE 0
    BY DEF Paid
  <2>2. CASE ~ hit
    BY <2>1, <2>2
  <2>3. CASE hit
    <3>1. /\ r \in DOMAIN rows /\ rows[r].who = c.who /\ rows[r].cost = ComputeCost(c.bill)
          /\ Costly(c) /\ c.bill \in AnyBill
      BY <2>3 DEF LedgerIInv, Fits, RowFits, Requested
    <3>2. ComputeCost(c.bill) \in Nat
      BY <3>1, CostIsHonest DEF Costly
    <3>3. CostsIn(rows)[r] = ComputeCost(c.bill)
      BY <3>1 DEF CostsIn, Costly
    <3>4. r \in S
      BY <2>3, <3>1
    <3> QED
      BY <2>1, <2>3, <3>2, <3>3, <3>4
  <2> QED
    BY <2>2, <2>3
<1> HIDE DEF S
<1>6. /\ \A r \in Charges : Paid(req, kind, who)[r] \in Nat
      /\ \A r \in Charges : Paid(req, kind, who)[r] # 0 =>
            r \in S /\ Paid(req, kind, who)[r] <= CostsIn(rows)[r]
  BY <1>5
<1> QED
  BY <1>1, <1>2, <1>3, <1>4, <1>6 DEF S

\* No counter ever exceeds what the ledger rows of its scope cost.
THEOREM NobodyIsOvercharged == LedgerSpec => []NeverOvercharged
<1>1. ASSUME LedgerIInv, NEW who \in Profiles, NEW kind \in SpendKinds(who)
      PROVE  Counted(kind, who) <= Ledgered(kind, who)
  <2> DEFINE S == {r \in DOMAIN rows : ScopeKey(kind, rows[r].who) = ScopeKey(kind, who)}
  <2>1. /\ Ledgered(kind, who) = Sum(CostsIn(rows), S)
        /\ Counted(kind, who) = Sum(Paid(req, kind, who), Charges)
        /\ IsFiniteSet(S) /\ \A r \in S : CostsIn(rows)[r] \in Nat
        /\ \A r \in Charges : Paid(req, kind, who)[r] \in Nat
        /\ \A r \in Charges : Paid(req, kind, who)[r] # 0 =>
                        r \in S /\ Paid(req, kind, who)[r] <= CostsIn(rows)[r]
    BY <1>1, ScopeSums
  <2> HIDE DEF S
  <2>2. Sum(Paid(req, kind, who), Charges) <= Sum(CostsIn(rows), S)
    BY <2>1, SumMonotone, LedgerAssumption
  <2> QED
    BY <2>1, <2>2
<1>2. LedgerIInv => LedgerTypeOK
  <2> SUFFICES ASSUME LedgerIInv PROVE LedgerTypeOK
    OBVIOUS
  <2>1. req \in [Charges -> Requested]
    BY DEF LedgerIInv, Fits
  <2> QED
    BY <2>1 DEF LedgerIInv, RowsOK, CountersOK, LedgerTypeOK, Requested, Rows, AnyBill
<1>3. LedgerIInv => NeverOvercharged
  BY <1>1, <1>2 DEF NeverOvercharged
<1> QED
  BY <1>3, LedgerInductive, PTL

\* Without a fault, the counters of quiescent requests are the exact sums of the
\* ledger rows.
THEOREM ExactCounters == LedgerSpec => []ExactWithoutFaults
<1>1. ASSUME LedgerIInv, faults = 0, \A r \in Charges : req[r].stage \in {"idle", "done"},
             NEW who \in Profiles, NEW kind \in SpendKinds(who)
      PROVE  Counted(kind, who) = Ledgered(kind, who)
  <2> DEFINE S == {r \in DOMAIN rows : ScopeKey(kind, rows[r].who) = ScopeKey(kind, who)}
             paid == Paid(req, kind, who)
  <2>1. /\ kind \in {"firm", "app", "user"} /\ (kind = "user" => who.user # NoUser)
        /\ Ledgered(kind, who) = Sum(CostsIn(rows), S)
        /\ Counted(kind, who) = Sum(paid, Charges)
        /\ IsFiniteSet(S) /\ \A r \in S : CostsIn(rows)[r] \in Nat
        /\ \A r \in Charges : paid[r] \in Nat
        /\ \A r \in Charges : paid[r] # 0 => r \in S /\ paid[r] <= CostsIn(rows)[r]
    BY <1>1, ScopeSums
  <2>2. ASSUME NEW r \in S, CostsIn(rows)[r] # 0
        PROVE  r \in Charges /\ CostsIn(rows)[r] <= paid[r]
    <3>1. r \in DOMAIN rows /\ r \in Charges /\ ScopeKey(kind, rows[r].who) = ScopeKey(kind, who)
      BY <1>1 DEF LedgerIInv, RowsOK
    <3>2. Fits(req[r], r, rows, spent, faults)
      BY <1>1, <3>1 DEF LedgerIInv
    <3>3. rows[r].who = req[r].who /\ rows[r].cost = ComputeCost(req[r].bill)
      BY <3>1, <3>2 DEF Fits, RowFits
    <3>4. Costly(req[r]) /\ CostsIn(rows)[r] = ComputeCost(req[r].bill)
      BY <2>2, <3>1, <3>3 DEF Costly, CostsIn
    <3>5. req[r].stage = "done"
      BY <1>1, <3>1, <3>2 DEF Fits, RowFits
    <3>6. req[r].charged = SpendKinds(req[r].who)
      BY <1>1, <3>1, <3>2, <3>4, <3>5 DEF Fits, FaultlessFits, PaidInFull
    <3>7. kind = "user" => req[r].who.user # NoUser
      BY <2>1, <3>1, <3>3 DEF ScopeKey
    <3>8. kind \in req[r].charged
      BY <2>1, <3>6, <3>7, KindsAre
    <3>9. paid[r] = ComputeCost(req[r].bill)
      BY <3>1, <3>3, <3>8 DEF Paid
    <3>10. CostsIn(rows)[r] \in Nat
      BY <2>1
    <3> QED
      BY <3>1, <3>4, <3>9, <3>10
  <2> HIDE DEF S, paid
  <2>3. Sum(paid, Charges) <= Sum(CostsIn(rows), S)
    BY <2>1, SumMonotone, LedgerAssumption
  <2>4. Sum(CostsIn(rows), S) <= Sum(paid, Charges)
    BY <2>1, <2>2, SumMonotone, LedgerAssumption
  <2>5. Sum(paid, Charges) \in Nat /\ Sum(CostsIn(rows), S) \in Nat
    BY <2>1, SumNat, LedgerAssumption
  <2> QED
    BY <2>1, <2>3, <2>4, <2>5
<1>2. LedgerIInv => ExactWithoutFaults
  BY <1>1 DEF ExactWithoutFaults
<1> QED
  BY <1>2, LedgerInductive, PTL

=============================================================================

--------------------------- MODULE LoadShedProofs ---------------------------
(***************************************************************************)
(* Proofs about the load-shed guard, for any finite set of callers, any    *)
(* set of providers, any concurrency limit and any queue capacity.         *)
(***************************************************************************)
EXTENDS LoadShed, ArrayProofs

\* The holders of a provider's slots are finitely many.
LEMMA HoldersFinite ==
    ASSUME NEW p \in Providers
    PROVE  IsFiniteSet(Holders(p)) /\ Cardinality(Holders(p)) \in Nat
<1>1. IsFiniteSet(Holders(p))
  BY LoadShedAssumption, FS_Subset DEF Holders
<1> QED
  BY <1>1, FS_CardinalityType

\* What QueueExact says of one provider's queue.
QueueExactAt(q) ==
    /\ Len(queue[q]) <= QueueCap
    /\ \A i \in 1 .. Len(queue[q]) :
        st[queue[q][i]] = "queued" /\ at[queue[q][i]] = q
    /\ \A i, j \in 1 .. Len(queue[q]) : queue[q][i] = queue[q][j] => i = j
    /\ \A r \in Requests : st[r] = "queued" /\ at[r] = q =>
        \E i \in 1 .. Len(queue[q]) : queue[q][i] = r

\* The i-th entry of a queue in shed.ts belongs to a waiting caller.
LEMMA Entry ==
    ASSUME ShedSafe, NEW q \in Providers, NEW i \in 1 .. Len(queue[q])
    PROVE  /\ queue[q][i] \in Requests
           /\ st[queue[q][i]] = "queued"
           /\ at[queue[q][i]] = q
<1>1. queue[q] \in Seq(Requests)
  BY DEF ShedSafe, TypeOK
<1>2. queue[q][i] \in Requests
  BY <1>1
<1> QED
  BY <1>2 DEF ShedSafe, QueueExact

\* A step that leaves a queue and the set of its waiters alone keeps it exact.
LEMMA QueueFrame ==
    ASSUME ShedSafe, NEW q \in Providers, queue'[q] = queue[q],
           \A x \in Requests :
               (st'[x] = "queued" /\ at'[x] = q) <=> (st[x] = "queued" /\ at[x] = q)
    PROVE  QueueExactAt(q)'
<1>1. \A i \in 1 .. Len(queue[q]) :
        queue[q][i] \in Requests /\ st[queue[q][i]] = "queued" /\ at[queue[q][i]] = q
  BY Entry
<1>2. QueueExactAt(q)
  BY DEF ShedSafe, QueueExact, QueueExactAt
<1> QED
  BY <1>1, <1>2 DEF QueueExactAt

\* A fresh LoadShedGuard, with empty Maps, satisfies the invariant.
LEMMA InitSafe == Init => ShedSafe
<1> SUFFICES ASSUME Init PROVE ShedSafe
  OBVIOUS
<1>1. TypeOK
  BY DEF Init, TypeOK
<1>2. \A p \in Providers : Holders(p) = {}
  BY DEF Init, Holders
<1>3. SlotAccounting
  BY <1>2, FS_EmptySet DEF Init, SlotAccounting
<1>4. WithinLimit /\ NoIdleSlotWhileQueued
  BY LoadShedAssumption DEF Init, WithinLimit, NoIdleSlotWhileQueued
<1>5. QueueExact
  BY LoadShedAssumption DEF Init, QueueExact
<1> QED
  BY <1>1, <1>3, <1>4, <1>5 DEF ShedSafe

\* acquire() with a free slot: the holders grow by one, as the counter does.
LEMMA AcquireSlotSafe ==
    ASSUME ShedSafe, NEW r \in Requests, NEW p \in Providers, AcquireSlot(r, p)
    PROVE  ShedSafe'
<1> USE DEF ShedSafe
<1>1. TypeOK'
  BY DEF TypeOK, AcquireSlot
<1>2. queue[p] = <<>>
  BY LoadShedAssumption DEF TypeOK, NoIdleSlotWhileQueued, AcquireSlot
<1>3. \A q \in Providers :
        Holders(q)' = IF q = p THEN Holders(q) \cup {r} ELSE Holders(q)
  BY DEF TypeOK, Holders, AcquireSlot
<1>4. r \notin Holders(p)
  BY DEF Holders, AcquireSlot
<1>5. Cardinality(Holders(p) \cup {r}) = Cardinality(Holders(p)) + 1
  BY <1>4, HoldersFinite, FS_AddElement
<1>6. SlotAccounting'
  BY <1>3, <1>5 DEF TypeOK, SlotAccounting, AcquireSlot
<1>7. WithinLimit' /\ NoIdleSlotWhileQueued'
  BY <1>2, LoadShedAssumption
     DEF TypeOK, WithinLimit, NoIdleSlotWhileQueued, AcquireSlot
<1>8. QueueExact'
  BY SMTT(30) DEF TypeOK, QueueExact, AcquireSlot
<1> QED
  BY <1>1, <1>6, <1>7, <1>8

\* acquire() that queues: only a full provider has a queue, and the new
\* entry is not yet in it.
LEMMA AcquireQueuedSafe ==
    ASSUME ShedSafe, NEW r \in Requests, NEW p \in Providers, AcquireQueued(r, p)
    PROVE  ShedSafe'
<1> USE DEF ShedSafe
<1>1. /\ Append(queue[p], r) \in Seq(Requests)
      /\ Len(Append(queue[p], r)) = Len(queue[p]) + 1
      /\ \A i \in 1 .. Len(queue[p]) : Append(queue[p], r)[i] = queue[p][i]
      /\ Append(queue[p], r)[Len(queue[p]) + 1] = r
      /\ Len(queue[p]) \in Nat
  BY DEF TypeOK
<1>2. TypeOK'
  BY <1>1 DEF TypeOK, AcquireQueued
<1>3. \A q \in Providers : Holders(q)' = Holders(q)
  BY DEF TypeOK, Holders, AcquireQueued
<1>4. SlotAccounting' /\ WithinLimit'
  BY <1>3 DEF SlotAccounting, WithinLimit, AcquireQueued
<1>5. NoIdleSlotWhileQueued'
  BY LoadShedAssumption
     DEF TypeOK, WithinLimit, NoIdleSlotWhileQueued, AcquireQueued
<1>6. \A q \in Providers : \A i \in 1 .. Len(queue[q]) : queue[q][i] # r
  BY DEF QueueExact, AcquireQueued
<1>7. ASSUME NEW q \in Providers
      PROVE  QueueExactAt(q)'
  <2>1. CASE q = p
    <3>1. queue'[q] = Append(queue[p], r)
      BY <2>1 DEF TypeOK, AcquireQueued
    <3>2. Len(queue'[q]) <= QueueCap
      BY <1>1, <3>1, LoadShedAssumption DEF AcquireQueued
    <3>3. \A i \in 1 .. Len(queue'[q]) :
            \/ i \in 1 .. Len(queue[p]) /\ queue'[q][i] = queue[p][i]
            \/ i = Len(queue[p]) + 1 /\ queue'[q][i] = r
      BY <1>1, <3>1
    <3>4. \A i \in 1 .. Len(queue'[q]) :
            st'[queue'[q][i]] = "queued" /\ at'[queue'[q][i]] = q
      BY <2>1, <1>6, <3>3 DEF TypeOK, QueueExact, AcquireQueued
    <3>5. \A i, j \in 1 .. Len(queue'[q]) : queue'[q][i] = queue'[q][j] => i = j
      BY SMTT(30), <1>6, <3>3 DEF QueueExact
    <3>6. \A x \in Requests : st'[x] = "queued" /\ at'[x] = q =>
            \E i \in 1 .. Len(queue'[q]) : queue'[q][i] = x
      <4> SUFFICES ASSUME NEW x \in Requests, st'[x] = "queued", at'[x] = q
                   PROVE  \E i \in 1 .. Len(queue'[q]) : queue'[q][i] = x
        OBVIOUS
      <4>1. CASE x = r
        BY <1>1, <3>1, <4>1
      <4>2. CASE x # r
        <5>1. st[x] = "queued" /\ at[x] = p
          BY <2>1, <4>2 DEF TypeOK, AcquireQueued
        <5>2. PICK i \in 1 .. Len(queue[p]) : queue[p][i] = x
          BY <5>1 DEF QueueExact
        <5> QED
          BY <1>1, <3>1, <5>2
      <4> QED
        BY <4>1, <4>2
    <3> QED
      BY <3>2, <3>4, <3>5, <3>6 DEF QueueExactAt
  <2>2. CASE q # p
    <3>1. queue'[q] = queue[q]
      BY <2>2 DEF TypeOK, AcquireQueued
    <3>2. \A x \in Requests :
            (st'[x] = "queued" /\ at'[x] = q) <=> (st[x] = "queued" /\ at[x] = q)
      BY <2>2 DEF TypeOK, AcquireQueued
    <3> QED
      BY <3>1, <3>2, QueueFrame
  <2> QED
    BY <2>1, <2>2
<1>8. QueueExact'
  BY <1>7 DEF QueueExact, QueueExactAt
<1> QED
  BY <1>2, <1>4, <1>5, <1>8

\* acquire() that sheds changes no slot and no queue.
LEMMA AcquireShedSafe ==
    ASSUME ShedSafe, NEW r \in Requests, NEW p \in Providers, AcquireShed(r, p)
    PROVE  ShedSafe'
<1> USE DEF ShedSafe
<1>1. TypeOK'
  BY DEF TypeOK, AcquireShed
<1>2. \A q \in Providers : Holders(q)' = Holders(q)
  BY DEF TypeOK, Holders, AcquireShed
<1>3. SlotAccounting' /\ WithinLimit' /\ NoIdleSlotWhileQueued'
  BY <1>2 DEF SlotAccounting, WithinLimit, NoIdleSlotWhileQueued, AcquireShed
<1>5. QueueExact'
  <2>1. ASSUME NEW q \in Providers PROVE QueueExactAt(q)'
    <3>1. queue'[q] = queue[q]
      BY DEF AcquireShed
    <3>2. \A x \in Requests :
            (st'[x] = "queued" /\ at'[x] = q) <=> (st[x] = "queued" /\ at[x] = q)
      BY DEF TypeOK, AcquireShed
    <3> QED
      BY <3>1, <3>2, QueueFrame
  <2> QED
    BY <2>1 DEF QueueExact, QueueExactAt
<1> QED
  BY <1>1, <1>3, <1>5

\* The holder that releases is counted, so the counter is positive.
LEMMA HolderCounted ==
    ASSUME ShedSafe, NEW r \in Requests, st[r] = "holding"
    PROVE  /\ at[r] \in Providers
           /\ r \in Holders(at[r])
           /\ Cardinality(Holders(at[r]) \ {r}) = inFlight[at[r]] - 1
           /\ inFlight[at[r]] - 1 \in Nat
<1> USE DEF ShedSafe
<1>1. at[r] \in Providers /\ r \in Holders(at[r])
  BY DEF TypeOK, Holders
<1>2. /\ IsFiniteSet(Holders(at[r]) \ {r})
      /\ Cardinality(Holders(at[r]) \ {r}) = Cardinality(Holders(at[r])) - 1
  BY <1>1, HoldersFinite, FS_RemoveElement
<1>3. Cardinality(Holders(at[r]) \ {r}) \in Nat
  BY <1>2, FS_CardinalityType
<1> QED
  BY <1>1, <1>2, <1>3 DEF SlotAccounting

\* release() with an empty queue: holders and counter both shrink by one.
LEMMA ReleaseFreeSafe ==
    ASSUME ShedSafe, NEW r \in Requests, ReleaseFree(r)
    PROVE  ShedSafe'
<1> USE DEF ShedSafe
<1>1. /\ at[r] \in Providers
      /\ Cardinality(Holders(at[r]) \ {r}) = inFlight[at[r]] - 1
      /\ inFlight[at[r]] - 1 \in Nat
  BY HolderCounted DEF ReleaseFree
<1>2. TypeOK'
  BY <1>1 DEF TypeOK, ReleaseFree
<1>3. \A q \in Providers :
        Holders(q)' = IF q = at[r] THEN Holders(q) \ {r} ELSE Holders(q)
  BY DEF TypeOK, Holders, ReleaseFree
<1>4. SlotAccounting'
  BY <1>1, <1>3 DEF TypeOK, SlotAccounting, ReleaseFree
<1>5. WithinLimit'
  BY <1>1, LoadShedAssumption DEF TypeOK, WithinLimit, ReleaseFree
<1>6. Len(queue[at[r]]) = 0
  BY <1>1, LoadShedAssumption DEF TypeOK, WithinLimit, ReleaseFree
<1>7. NoIdleSlotWhileQueued'
  BY <1>1, <1>6 DEF TypeOK, NoIdleSlotWhileQueued, ReleaseFree
<1>8. \A q \in Providers : \A i \in 1 .. Len(queue[q]) : queue[q][i] # r
  BY DEF QueueExact, ReleaseFree
<1>9. QueueExact'
  BY <1>8 DEF TypeOK, QueueExact, ReleaseFree
<1> QED
  BY <1>2, <1>4, <1>5, <1>7, <1>9

\* release() that hands the slot over: one holder leaves, the head of the
\* queue joins, and the counter ends where it was.
LEMMA ReleaseHandoffSafe ==
    ASSUME ShedSafe, NEW r \in Requests, ReleaseHandoff(r)
    PROVE  ShedSafe'
<1> USE DEF ShedSafe
<1> DEFINE p == at[r]
           n == Head(queue[p])
<1>1. /\ p \in Providers
      /\ Cardinality(Holders(p) \ {r}) = inFlight[p] - 1
      /\ inFlight[p] - 1 \in Nat
      /\ inFlight[p] \in Nat
  BY HolderCounted DEF ReleaseHandoff, TypeOK
<1>2. /\ Len(queue[p]) \in Nat /\ Len(queue[p]) > 0
      /\ n = queue[p][1]
      /\ Tail(queue[p]) \in Seq(Requests)
      /\ Len(Tail(queue[p])) = Len(queue[p]) - 1
      /\ \A i \in 1 .. (Len(queue[p]) - 1) : Tail(queue[p])[i] = queue[p][i + 1]
  BY <1>1 DEF TypeOK, ReleaseHandoff
<1>3. n \in Requests /\ st[n] = "queued" /\ at[n] = p /\ n # r
  <2>1. 1 \in 1 .. Len(queue[p])
    BY <1>2
  <2>2. n \in Requests /\ st[n] = "queued" /\ at[n] = p
    BY <1>1, <1>2, <2>1, Entry
  <2> QED
    BY <2>2 DEF ReleaseHandoff
<1>4. /\ inFlight' = inFlight
      /\ queue' = [queue EXCEPT ![p] = Tail(@)]
      /\ st' = [st EXCEPT ![r] = "idle", ![n] = "holding"]
      /\ at' = at /\ aborted' = aborted
      /\ listening' = [listening EXCEPT ![n] = FALSE]
      /\ st[r] = "holding"
  BY <1>1 DEF TypeOK, ReleaseHandoff
<1>5. TypeOK'
  BY <1>2, <1>4 DEF TypeOK
<1>6. \A q \in Providers :
        Holders(q)' = IF q = p THEN (Holders(q) \ {r}) \cup {n} ELSE Holders(q)
  BY <1>3, <1>4 DEF TypeOK, Holders
<1>7. n \notin Holders(p) \ {r}
  BY <1>3 DEF Holders
<1>8. IsFiniteSet(Holders(p) \ {r})
  BY <1>1, HoldersFinite, FS_RemoveElement
<1>9. Cardinality((Holders(p) \ {r}) \cup {n}) = inFlight[p]
  <2>1. Cardinality((Holders(p) \ {r}) \cup {n}) = Cardinality(Holders(p) \ {r}) + 1
    BY <1>7, <1>8, FS_AddElement
  <2>2. (inFlight[p] - 1) + 1 = inFlight[p]
    BY <1>1
  <2> QED
    BY <1>1, <2>1, <2>2
<1>10. SlotAccounting'
  BY <1>4, <1>6, <1>9 DEF SlotAccounting
<1>11. WithinLimit'
  BY <1>4 DEF WithinLimit
<1>12. NoIdleSlotWhileQueued'
  BY <1>1, <1>2, <1>4 DEF TypeOK, NoIdleSlotWhileQueued
<1>13. \A i \in 2 .. Len(queue[p]) : queue[p][i] # n
  BY <1>1, <1>2 DEF QueueExact
<1>14. ASSUME NEW q \in Providers
       PROVE  QueueExactAt(q)'
  <2>1. CASE q = p
    <3>1. /\ Len(queue'[q]) = Len(queue[p]) - 1
          /\ \A i \in 1 .. (Len(queue[p]) - 1) :
                i + 1 \in 2 .. Len(queue[p]) /\ queue'[q][i] = queue[p][i + 1]
      BY <1>1, <1>2, <1>4, <2>1 DEF TypeOK
    <3>2. Len(queue'[q]) <= QueueCap
      BY <1>1, <1>2, <3>1, LoadShedAssumption DEF QueueExact
    <3>3. \A i \in 1 .. Len(queue'[q]) :
            st'[queue'[q][i]] = "queued" /\ at'[queue'[q][i]] = q
      <4> SUFFICES ASSUME NEW i \in 1 .. Len(queue'[q])
                   PROVE  st'[queue'[q][i]] = "queued" /\ at'[queue'[q][i]] = q
        OBVIOUS
      <4>1. i + 1 \in 2 .. Len(queue[p]) /\ queue'[q][i] = queue[p][i + 1]
        BY <1>2, <3>1
      <4>2. i + 1 \in 1 .. Len(queue[p])
        BY <1>2, <4>1
      <4>3. /\ queue[p][i + 1] \in Requests
            /\ st[queue[p][i + 1]] = "queued"
            /\ at[queue[p][i + 1]] = p
        BY <1>1, <4>2, Entry
      <4>4. queue[p][i + 1] # r /\ queue[p][i + 1] # n
        BY <1>4, <1>13, <4>1, <4>3
      <4> QED
        BY <1>4, <2>1, <4>1, <4>3, <4>4 DEF TypeOK
    <3>4. \A i, j \in 1 .. Len(queue'[q]) : queue'[q][i] = queue'[q][j] => i = j
      BY <1>1, <1>2, <3>1 DEF QueueExact
    <3>5. ASSUME NEW x \in Requests, st'[x] = "queued", at'[x] = q
          PROVE  \E i \in 1 .. Len(queue'[q]) : queue'[q][i] = x
      <4>1. st[x] = "queued" /\ at[x] = p /\ x # n
        BY <1>3, <1>4, <2>1, <3>5 DEF TypeOK
      <4>2. PICK i \in 1 .. Len(queue[p]) : queue[p][i] = x
        BY <1>1, <4>1 DEF QueueExact
      <4>3. i # 1 /\ i - 1 \in 1 .. (Len(queue[p]) - 1) /\ (i - 1) + 1 = i
        BY <1>2, <4>1, <4>2
      <4>4. queue'[q][i - 1] = x
        BY <3>1, <4>2, <4>3
      <4> QED
        BY <3>1, <4>3, <4>4
    <3> QED
      BY <3>2, <3>3, <3>4, <3>5 DEF QueueExactAt
  <2>2. CASE q # p
    <3>1. queue'[q] = queue[q]
      BY <1>4, <2>2 DEF TypeOK
    <3>2. \A x \in Requests :
            (st'[x] = "queued" /\ at'[x] = q) <=> (st[x] = "queued" /\ at[x] = q)
      BY <1>3, <1>4, <2>2 DEF TypeOK
    <3> QED
      BY <3>1, <3>2, QueueFrame
  <2> QED
    BY <2>1, <2>2
<1>15. QueueExact'
  BY <1>14 DEF QueueExact, QueueExactAt
<1> QED
  BY <1>5, <1>10, <1>11, <1>12, <1>15

\* An abort that finds its entry: splice() removes that entry and no other.
LEMMA AbortQueuedSafe ==
    ASSUME ShedSafe, NEW r \in Requests, AbortQueued(r)
    PROVE  ShedSafe'
<1> USE DEF ShedSafe
<1> DEFINE p == at[r]
<1>1. p \in Providers /\ queue[p] \in Seq(Requests) /\ Len(queue[p]) \in Nat
  BY DEF TypeOK
<1>2. PICK k \in 1 .. Len(queue[p]) :
        queue[p][k] = r /\ queue' = [queue EXCEPT ![p] = Splice(@, k)]
  BY DEF AbortQueued
<1>3. /\ Splice(queue[p], k) \in Seq(Requests)
      /\ Len(Splice(queue[p], k)) = Len(queue[p]) - 1
      /\ \A j \in 1 .. (Len(queue[p]) - 1) :
            Splice(queue[p], k)[j] = IF j < k THEN queue[p][j] ELSE queue[p][j + 1]
  BY <1>1, <1>2, SpliceType
<1>4. /\ queue' = [queue EXCEPT ![p] = Splice(queue[p], k)]
      /\ st' = [st EXCEPT ![r] = "idle"]
      /\ inFlight' = inFlight /\ at' = at
      /\ listening' = [listening EXCEPT ![r] = FALSE]
      /\ aborted' = [aborted EXCEPT ![r] = TRUE]
      /\ st[r] = "queued"
  BY <1>2 DEF AbortQueued
<1>5. TypeOK'
  BY <1>1, <1>3, <1>4 DEF TypeOK
<1>6. \A q \in Providers : Holders(q)' = Holders(q)
  BY <1>4 DEF TypeOK, Holders
<1>7. SlotAccounting' /\ WithinLimit'
  BY <1>4, <1>6 DEF SlotAccounting, WithinLimit
<1>8. queue[p] # <<>>
  BY <1>1, <1>2
<1>9. NoIdleSlotWhileQueued'
  BY <1>1, <1>4, <1>8 DEF TypeOK, NoIdleSlotWhileQueued
<1>10. ASSUME NEW q \in Providers
       PROVE  QueueExactAt(q)'
  <2>1. CASE q = p
    <3>1. /\ Len(queue'[q]) = Len(queue[p]) - 1
          /\ \A j \in 1 .. (Len(queue[p]) - 1) :
                queue'[q][j] = IF j < k THEN queue[p][j] ELSE queue[p][j + 1]
      BY <1>3, <1>4, <2>1 DEF TypeOK
    <3>2. \A i, j \in 1 .. Len(queue[p]) : queue[p][i] = queue[p][j] => i = j
      BY <1>1 DEF QueueExact
    <3>3. Len(queue'[q]) <= QueueCap
      BY <1>1, <3>1, LoadShedAssumption DEF QueueExact
    <3>4. ASSUME NEW i \in 1 .. Len(queue'[q])
          PROVE  st'[queue'[q][i]] = "queued" /\ at'[queue'[q][i]] = q
      <4>1. PICK m \in 1 .. Len(queue[p]) : m # k /\ queue'[q][i] = queue[p][m]
        <5>1. CASE i < k
          BY <1>1, <3>1, <5>1
        <5>2. CASE ~ (i < k)
          BY <1>1, <3>1, <5>2
        <5> QED
          BY <5>1, <5>2
      <4>2. queue[p][m] \in Requests /\ st[queue[p][m]] = "queued" /\ at[queue[p][m]] = p
        BY <1>1, Entry
      <4>3. queue[p][m] # r
        BY <1>2, <3>2, <4>1
      <4> QED
        BY <1>4, <2>1, <4>1, <4>2, <4>3 DEF TypeOK
    <3>5. \A i, j \in 1 .. Len(queue'[q]) : queue'[q][i] = queue'[q][j] => i = j
      <4> DEFINE old(i) == IF i < k THEN i ELSE i + 1
      <4>1. \A i \in 1 .. Len(queue'[q]) :
              old(i) \in 1 .. Len(queue[p]) /\ queue'[q][i] = queue[p][old(i)]
        BY <1>1, <1>2, <3>1
      <4>2. \A i, j \in 1 .. Len(queue'[q]) : old(i) = old(j) => i = j
        BY <1>1, <1>2, <3>1
      <4> HIDE DEF old
      <4> QED
        BY <3>2, <4>1, <4>2
    <3>6. ASSUME NEW x \in Requests, st'[x] = "queued", at'[x] = q
          PROVE  \E i \in 1 .. Len(queue'[q]) : queue'[q][i] = x
      <4>1. st[x] = "queued" /\ at[x] = p /\ x # r
        BY <1>4, <2>1, <3>6 DEF TypeOK
      <4>2. PICK m \in 1 .. Len(queue[p]) : queue[p][m] = x
        BY <1>1, <4>1 DEF QueueExact
      <4>3. m # k
        BY <1>2, <4>1, <4>2
      <4>4. CASE m < k
        BY <1>1, <3>1, <4>2, <4>4
      <4>5. CASE m > k
        <5>1. m - 1 \in 1 .. (Len(queue[p]) - 1) /\ ~ (m - 1 < k) /\ (m - 1) + 1 = m
          BY <1>1, <4>5
        <5>2. queue'[q][m - 1] = x
          BY <3>1, <4>2, <5>1
        <5> QED
          BY <3>1, <5>1, <5>2
      <4> QED
        BY <4>3, <4>4, <4>5
    <3> QED
      BY <3>3, <3>4, <3>5, <3>6 DEF QueueExactAt
  <2>2. CASE q # p
    <3>1. queue'[q] = queue[q]
      BY <1>4, <2>2 DEF TypeOK
    <3>2. \A x \in Requests :
            (st'[x] = "queued" /\ at'[x] = q) <=> (st[x] = "queued" /\ at[x] = q)
      BY <1>4, <2>2 DEF TypeOK
    <3> QED
      BY <3>1, <3>2, QueueFrame
  <2> QED
    BY <2>1, <2>2
<1>11. QueueExact'
  BY <1>10 DEF QueueExact, QueueExactAt
<1> QED
  BY <1>5, <1>7, <1>9, <1>11

\* A signal that fires outside the queue, a fresh signal, and a stuttering
\* step leave the guard's Maps alone.
LEMMA SignalSafe ==
    ASSUME ShedSafe,
           \/ \E r \in Requests : AbortElsewhere(r) \/ NewRequest(r)
           \/ UNCHANGED vars
    PROVE  ShedSafe'
<1> USE DEF ShedSafe
<1>1. /\ inFlight' = inFlight /\ queue' = queue /\ st' = st /\ at' = at
      /\ listening' = listening
  BY DEF AbortElsewhere, NewRequest, vars
<1>2. TypeOK'
  BY <1>1 DEF TypeOK, AbortElsewhere, NewRequest, vars
<1>3. \A q \in Providers : Holders(q)' = Holders(q)
  BY <1>1 DEF Holders
<1>4. SlotAccounting' /\ WithinLimit' /\ NoIdleSlotWhileQueued' /\ QueueExact'
  BY <1>1, <1>3 DEF SlotAccounting, WithinLimit, NoIdleSlotWhileQueued, QueueExact
<1> QED
  BY <1>2, <1>4

\* Every step of the guard keeps the invariant.
LEMMA NextSafe == ShedSafe /\ [Next]_vars => ShedSafe'
<1> SUFFICES ASSUME ShedSafe, [Next]_vars PROVE ShedSafe'
  OBVIOUS
<1>1. ASSUME NEW r \in Requests, NEW p \in Providers, Acquire(r, p) PROVE ShedSafe'
  BY <1>1, AcquireSlotSafe, AcquireQueuedSafe, AcquireShedSafe DEF Acquire
<1>2. ASSUME NEW r \in Requests, Release(r) PROVE ShedSafe'
  BY <1>2, ReleaseFreeSafe, ReleaseHandoffSafe DEF Release
<1>3. ASSUME NEW r \in Requests, AbortQueued(r) PROVE ShedSafe'
  BY <1>3, AbortQueuedSafe
<1>4. CASE \/ \E r \in Requests : AbortElsewhere(r) \/ NewRequest(r)
           \/ UNCHANGED vars
  BY <1>4, SignalSafe
<1> QED
  BY <1>1, <1>2, <1>3, <1>4 DEF Next

\* The load-shed guard (src/resilience/shed.ts) always satisfies the inductive
\* invariant: types, exact slot counts within the limit, an exact queue and no
\* slot idle while somebody waits.
THEOREM Invariance == Spec => []ShedSafe
<1> QED
  BY InitSafe, NextSafe, PTL DEF Spec

\* shed.ts keeps its Maps well typed; in particular the counter that
\* release() decrements never goes below zero.
THEOREM TypeCorrect == Spec => []TypeOK
<1>1. ShedSafe => TypeOK
  BY DEF ShedSafe
<1> QED
  BY <1>1, Invariance, PTL

\* The in-flight counter of shed.ts always equals the number of slots held.
THEOREM SlotsAccounted == Spec => []SlotAccounting
<1>1. ShedSafe => SlotAccounting
  BY DEF ShedSafe
<1> QED
  BY <1>1, Invariance, PTL

\* UPSTREAM_MAX_CONCURRENCY holds for every number of callers and providers.
THEOREM LimitHolds == Spec => []WithinLimit
<1>1. ShedSafe => WithinLimit
  BY DEF ShedSafe
<1> QED
  BY <1>1, Invariance, PTL

\* shed.ts loses no wake-up: a provider with waiters has all its slots taken.
THEOREM NoLostWakeUp == Spec => []NoIdleSlotWhileQueued
<1>1. ShedSafe => NoIdleSlotWhileQueued
  BY DEF ShedSafe
<1> QED
  BY <1>1, Invariance, PTL

\* The wait queue of shed.ts holds exactly its waiters, bounded by the cap.
THEOREM QueueIsExact == Spec => []QueueExact
<1>1. ShedSafe => QueueExact
  BY DEF ShedSafe
<1> QED
  BY <1>1, Invariance, PTL

\* Only two steps of the guard make a caller a holder: acquire() with a free
\* slot, which by NoIdleSlotWhileQueued finds no queue, and the hand-off,
\* which serves the head.  So nobody overtakes.
THEOREM FirstComeFirstServed == Spec => NoOvertaking
<1>1. ShedSafe /\ [Next]_vars =>
        [\A r \in Requests :
            st[r] # "holding" /\ st'[r] = "holding" =>
                \/ queue[at'[r]] = <<>>
                \/ Head(queue[at'[r]]) = r]_vars
  <2> SUFFICES ASSUME ShedSafe, Next, NEW x \in Requests,
                      st[x] # "holding", st'[x] = "holding"
               PROVE  queue[at'[x]] = <<>> \/ Head(queue[at'[x]]) = x
    BY DEF vars
  <2> USE DEF ShedSafe
  <2>1. ASSUME NEW r \in Requests, NEW p \in Providers, AcquireSlot(r, p)
        PROVE  queue[at'[x]] = <<>>
    <3>1. x = r /\ at'[x] = p
      BY <2>1 DEF TypeOK, AcquireSlot
    <3> QED
      BY <2>1, <3>1, LoadShedAssumption DEF TypeOK, NoIdleSlotWhileQueued, AcquireSlot
  <2>2. ASSUME NEW r \in Requests, ReleaseHandoff(r)
        PROVE  Head(queue[at'[x]]) = x
    <3>1. at[r] \in Providers /\ queue[at[r]] \in Seq(Requests) /\ Len(queue[at[r]]) > 0
      BY <2>2 DEF TypeOK, ReleaseHandoff
    <3>2. 1 \in 1 .. Len(queue[at[r]]) /\ Head(queue[at[r]]) = queue[at[r]][1]
      BY <3>1
    <3>3. at[Head(queue[at[r]])] = at[r]
      BY <3>1, <3>2, Entry
    <3>4. x = Head(queue[at[r]]) /\ at' = at
      BY <2>2 DEF TypeOK, ReleaseHandoff
    <3> QED
      BY <3>3, <3>4
  <2>3. ASSUME NEW r \in Requests, NEW p \in Providers,
               AcquireQueued(r, p) \/ AcquireShed(r, p)
        PROVE  FALSE
    BY <2>3 DEF TypeOK, AcquireQueued, AcquireShed
  <2>4. ASSUME NEW r \in Requests,
               ReleaseFree(r) \/ AbortQueued(r) \/ AbortElsewhere(r) \/ NewRequest(r)
        PROVE  FALSE
    BY <2>4 DEF TypeOK, ReleaseFree, AbortQueued, AbortElsewhere, NewRequest
  <2> QED
    BY <2>1, <2>2, <2>3, <2>4 DEF Next, Acquire, Release
<1> QED
  BY <1>1, Invariance, PTL DEF Spec, NoOvertaking

\* The counter and queue of shed.ts implement the slot pool: taking a free
\* slot is Take, a release that finds no waiter is Give, the hand-off is
\* Hand, and every other step leaves the holders alone.
THEOREM Refinement == Spec => ImplementsSlotPool
<1> DEFINE held == [p \in Providers |-> Holders(p)]
<1>1. Init => Pool!Init
  BY DEF Init, Pool!Init, Holders
<1>2. ShedSafe /\ [Next]_vars => [Pool!Next]_held
  <2> SUFFICES ASSUME ShedSafe, [Next]_vars PROVE [Pool!Next]_held
    OBVIOUS
  <2> USE DEF ShedSafe
  <2>1. \A x \in Requests, q \in Providers : x \in Holders(q) <=> st[x] = "holding" /\ at[x] = q
    BY DEF Holders
  <2>2. ASSUME NEW r \in Requests, NEW p \in Providers, AcquireSlot(r, p)
        PROVE  Pool!Take(r, p)
    <3>1. Pool!Free(r)
      BY <2>1, <2>2 DEF Pool!Free, AcquireSlot
    <3>2. Cardinality(held[p]) < MaxConcurrent
      BY <2>2 DEF SlotAccounting, AcquireSlot
    <3>3. held' = [held EXCEPT ![p] = @ \cup {r}]
      BY ZenonT(40), <2>2 DEF TypeOK, Holders, AcquireSlot
    <3> QED
      BY <3>1, <3>2, <3>3 DEF Pool!Take, Pool!Cardinality, Cardinality
  <2>3. ASSUME NEW r \in Requests, ReleaseFree(r)
        PROVE  at[r] \in Providers /\ Pool!Give(r, at[r])
    <3>1. at[r] \in Providers /\ r \in held[at[r]]
      BY <2>3 DEF TypeOK, Holders, ReleaseFree
    <3>2. held' = [held EXCEPT ![at[r]] = @ \ {r}]
      BY <2>3 DEF TypeOK, Holders, ReleaseFree
    <3> QED
      BY <3>1, <3>2 DEF Pool!Give
  <2>4. ASSUME NEW r \in Requests, ReleaseHandoff(r)
        PROVE  /\ at[r] \in Providers
               /\ Head(queue[at[r]]) \in Requests
               /\ Pool!Hand(r, Head(queue[at[r]]), at[r])
    <3> DEFINE p == at[r]
               n == Head(queue[p])
    <3>1. p \in Providers /\ queue[p] \in Seq(Requests) /\ Len(queue[p]) > 0
      BY <2>4 DEF TypeOK, ReleaseHandoff
    <3>2. 1 \in 1 .. Len(queue[p]) /\ n = queue[p][1]
      BY <3>1
    <3>3. n \in Requests /\ st[n] = "queued" /\ at[n] = p
      BY <3>1, <3>2, Entry
    <3>4. r \in held[p] /\ st[r] = "holding" /\ n # r
      BY <2>4, <3>1, <3>3 DEF Holders, ReleaseHandoff
    <3>5. Pool!Free(n)
      BY <2>1, <3>3 DEF Pool!Free
    <3>6. st' = [st EXCEPT ![r] = "idle", ![n] = "holding"] /\ at' = at
      BY <2>4 DEF ReleaseHandoff
    <3>7. \A q \in Providers :
            Holders(q)' = IF q = p THEN (Holders(q) \ {r}) \cup {n} ELSE Holders(q)
      BY <3>3, <3>4, <3>6 DEF TypeOK, Holders
    <3>8. held' = [held EXCEPT ![p] = (@ \ {r}) \cup {n}]
      BY <3>1, <3>7
    <3> QED
      BY <3>1, <3>3, <3>4, <3>5, <3>8 DEF Pool!Hand
  <2>5. ASSUME NEW r \in Requests, NEW p \in Providers,
               AcquireQueued(r, p) \/ AcquireShed(r, p)
        PROVE  held' = held
    BY <2>5 DEF TypeOK, Holders, AcquireQueued, AcquireShed
  <2>6. ASSUME NEW r \in Requests,
               AbortQueued(r) \/ AbortElsewhere(r) \/ NewRequest(r)
        PROVE  held' = held
    BY <2>6 DEF TypeOK, Holders, AbortQueued, AbortElsewhere, NewRequest
  <2>7. UNCHANGED vars => held' = held
    BY DEF vars, Holders
  <2> QED
    BY <2>2, <2>3, <2>4, <2>5, <2>6, <2>7
       DEF Next, Acquire, Release, Pool!Next
<1> QED
  BY <1>1, <1>2, Invariance, PTL DEF Spec, ImplementsSlotPool, Pool!Spec

=============================================================================

-------------------------- MODULE ResilienceProofs --------------------------
(***************************************************************************)
(* Proofs about the two executors over their breaker windows and the       *)
(* load-shed guard, for any requests, providers, chain and limits.  What   *)
(* LoadShedProofs shows of the guard alone is used here, through the       *)
(* refinement mapping, as the invariant of the guard in use.               *)
(***************************************************************************)
EXTENDS Resilience, ArrayProofs

\* The guard as the executors use it, with the theorems about it.
Guard == INSTANCE LoadShedProofs WITH
    st <- [r \in Requests |-> SlotState(req[r])],
    at <- [r \in Requests |-> req[r].slotAt],
    aborted <- [r \in Requests |-> Aborted(req[r])],
    listening <- [r \in Requests |-> req[r].listening]

-----------------------------------------------------------------------------
\* prune() keeps outcomes.
LEMMA PruneKeeps ==
    ASSUME NEW s \in Seq(Outcome)
    PROVE  Prune(s) \in Seq(Outcome)
<1> DEFINE live == {i \in 1 .. Len(s) : s[i].age <= WindowMs}
           first == IF live = {} THEN Len(s) + 1
                    ELSE CHOOSE i \in live : \A j \in live : i <= j
<1>1. Len(s) \in Nat /\ live \subseteq Nat /\ live \subseteq 1 .. Len(s)
  OBVIOUS
<1>2. first \in 1 .. (Len(s) + 1)
  <2>1. CASE live = {}
    BY <1>1, <2>1
  <2>2. CASE live # {}
    <3> HIDE DEF live
    <3>1. \E i \in live : \A j \in live : i <= j
      BY <1>1, <2>2, LeastNatural
    <3>2. first \in live
      BY <2>2, <3>1
    <3> HIDE DEF first
    <3> QED
      BY <1>1, <3>2
  <2> QED
    BY <2>1, <2>2
<1>3. Prune(s) = SubSeq(s, first, Len(s))
  BY DEF Prune
<1> HIDE DEF first
<1> QED
  BY <1>1, <1>2, <1>3

\* Whatever breaker.ts does to a window leaves a window.
LEMMA AllowWindow ==
    ASSUME NEW w \in Window
    PROVE  AfterAllow(w) \in Window
BY DEF AfterAllow, Window, BreakerState

\* Recording an outcome leaves a window of the breaker ...
LEMMA RecordWindow ==
    ASSUME NEW w \in Window, NEW ok \in BOOLEAN
    PROVE  AfterRecord(w, ok) \in Window
<1> DEFINE p == Push(w, ok)
           t == Append(w.outcomes, [ok |-> ok, age |-> 0])
           v == AfterRecord(w, ok)
<1>1. w.outcomes \in Seq(Outcome) /\ [ok |-> ok, age |-> 0] \in Outcome /\ w.state \in BreakerState
  BY BreakerAssumption DEF Window, Outcome
<1>2. Prune(t) \in Seq(Outcome)
  <2>1. t \in Seq(Outcome)
    BY <1>1
  <2> QED
    BY <2>1, PruneKeeps
<1>3. p = [w EXCEPT !.outcomes = Prune(t)]
  BY DEF Push
<1> HIDE DEF t, p
<1>4. p \in Window /\ p.outcomes \in Seq(Outcome)
  BY <1>2, <1>3 DEF Window
<1>5. Filter(p.outcomes, Successes) \in Seq(Outcome)
  BY <1>4, FilterSubset
<1>6. 0 \in 0 .. OpenDurationMs
  BY BreakerAssumption
<1>7. v = CASE w.state = "half_open" -> RecordHalfOpen(p, ok)
            [] w.state = "closed"    -> RecordClosed(p, ok)
            [] w.state = "open"      -> p
  BY DEF AfterRecord, p
<1> HIDE DEF v
<1>8. RecordHalfOpen(p, ok) \in Window
  BY <1>4, <1>5, <1>6 DEF RecordHalfOpen, Window, BreakerState
<1>9. RecordClosed(p, ok) \in Window
  BY <1>4, <1>6 DEF RecordClosed, Window, BreakerState
<1>10. v \in Window
  BY <1>1, <1>4, <1>7, <1>8, <1>9 DEF BreakerState
<1> QED
  BY <1>10 DEF v

\* ... and so does time.
LEMMA TickWindow ==
    ASSUME NEW w \in Window
    PROVE  AfterTick(w) \in Window
<1> DEFINE s == w.outcomes
           e(i) == [s[i] EXCEPT !.age = Older(s[i].age, WindowMs + 1)]
           t == [i \in 1 .. Len(s) |-> e(i)]
<1>1. s \in Seq(Outcome) /\ Len(s) \in Nat /\ w.openedAge \in 0 .. OpenDurationMs
  BY DEF Window
<1>2. \A o \in Outcome : [o EXCEPT !.age = Older(o.age, WindowMs + 1)] \in Outcome
  BY BreakerAssumption DEF Outcome, Older
<1>3. AfterTick(w) = [w EXCEPT !.outcomes = t, !.openedAge = Older(w.openedAge, OpenDurationMs)]
  BY DEF AfterTick
<1> HIDE DEF s
<1>4. \A i \in 1 .. Len(s) : e(i) \in Outcome
  BY <1>1, <1>2
<1> HIDE DEF e
<1>5. t \in Seq(Outcome)
  BY <1>1, <1>4
<1>6. Older(w.openedAge, OpenDurationMs) \in 0 .. OpenDurationMs
  BY <1>1, BreakerAssumption DEF Older
<1> HIDE DEF t
<1> QED
  BY <1>3, <1>5, <1>6 DEF Window

-----------------------------------------------------------------------------
\* The guard's assumptions hold of the executors' constants.
LEMMA GuardAssumption == Guard!LoadShedAssumption
BY HopsAssumption DEF Guard!IsFiniteSet, IsFiniteSet

\* The guard's own steps keep its invariant: the theorem of LoadShedProofs,
\* under the mapping of ImplementsLoadShed.
LEMMA GuardStep == Guard!ShedSafe /\ [Guard!Next]_Guard!vars => Guard!ShedSafe'
BY GuardAssumption, Guard!NextSafe

-----------------------------------------------------------------------------
\* The inductive invariant.  What holds of one execution: it waits in the queue
\* with a live listener or with a signal that has fired, it backs off with a
\* retry left and an error to throw again, content has gone out from the hop it
\* is streaming from and from no other, an error past routing is not one of the
\* policy, and a later hop does not work before it is audited.
ExecSound(q) ==
    /\ q \in Execution
    /\ Chain[q.hop] \in Loaded
    /\ q.listening <=> q.pc = "queued" /\ ~ Aborted(q)
    /\ q.pc = "backoff" => q.attempt < MaxRetries /\ q.err # "none"
    /\ q.out # {} => q.pc = "streaming" /\ q.content /\ q.out = {q.hop}
    /\ q.tried => q.pc # "done" /\ q.err \notin PolicySide \cup {"none"}
    /\ q.pc \in {"calling", "backoff", "streaming"} /\ q.hop > 1 => q.audited
    /\ q.result = "ok" => q.pc = "done"

\* ... and of all of them with the guard and the breaker they share.
ResilienceIInv ==
    /\ win \in [Providers -> Window]
    /\ req \in [Requests -> Execution]
    /\ \A r \in Requests : ExecSound(req[r])
    /\ Guard!ShedSafe

\* What one step may make of an execution q.
Legal(q, d) ==
    /\ ExecSound(d)
    /\ q.tried /\ d.pc = "done" => d.result \notin PolicySide
    /\ q.pc # "calling" /\ d.pc = "calling" => ~ Aborted(q)
    /\ q.hop > 1 /\ q.pc # "done" /\ d.result = "ok" => q.audited

\* What the guard sees of an execution.
Seen(d, q) ==
    /\ SlotState(d) = SlotState(q) /\ d.slotAt = q.slotAt
    /\ Aborted(d) = Aborted(q) /\ d.listening = q.listening

\* An execution that does not move makes no illegal move.
LEMMA Idling ==
    ASSUME NEW q, ExecSound(q)
    PROVE  Legal(q, q) /\ Seen(q, q)
BY DEF ExecSound, Legal, Seen

\* Execution r goes on as d, the others as they are.
LEMMA Alone ==
    ASSUME ResilienceIInv, NEW r \in Requests, NEW d, Legal(req[r], d),
           req' = [req EXCEPT ![r] = d]
    PROVE  /\ req' \in [Requests -> Execution]
           /\ \A x \in Requests : Legal(req[x], req'[x])
           /\ req'[r] = d /\ \A x \in Requests \ {r} : req'[x] = req[x]
<1>1. d \in Execution
  BY DEF Legal, ExecSound
<1>2. req \in [Requests -> Execution] /\ \A x \in Requests : Legal(req[x], req[x])
  BY Idling DEF ResilienceIInv
<1> QED
  BY <1>1, <1>2

\* A step that the guard does not notice.
LEMMA Unnoticed ==
    ASSUME \A x \in Requests : Seen(req'[x], req[x]), UNCHANGED <<inFlight, queue>>
    PROVE  UNCHANGED Guard!vars
<1>1. /\ \A x \in Requests : SlotState(req'[x]) = SlotState(req[x])
      /\ \A x \in Requests : req'[x].slotAt = req[x].slotAt
      /\ \A x \in Requests : Aborted(req'[x]) = Aborted(req[x])
      /\ \A x \in Requests : req'[x].listening = req[x].listening
  BY DEF Seen
<1>2. [x \in Requests |-> SlotState(req[x])]' = [x \in Requests |-> SlotState(req[x])]
  BY <1>1 DEF SlotState
<1>3. [x \in Requests |-> req[x].slotAt]' = [x \in Requests |-> req[x].slotAt]
  BY <1>1
<1>4. [x \in Requests |-> Aborted(req[x])]' = [x \in Requests |-> Aborted(req[x])]
  BY <1>1 DEF Aborted
<1>5. [x \in Requests |-> req[x].listening]' = [x \in Requests |-> req[x].listening]
  BY <1>1
<1> QED
  BY <1>2, <1>3, <1>4, <1>5 DEF Guard!vars

-----------------------------------------------------------------------------
\* The executor's exit: a result, the signal as it was, and no locals.
LEMMA FinishedFacts ==
    ASSUME NEW q \in Execution, NEW code \in ErrorCode \cup {"ok", "client_abort"}
    PROVE  LET d == Finished(q, code) IN
           /\ ExecSound(d) /\ d.pc = "done" /\ d.result = code
           /\ d.slotAt = q.slotAt /\ Aborted(d) = Aborted(q) /\ ~ d.listening
<1> DEFINE n == NoExecution(q.slotAt)
           d == Finished(q, code)
<1>1. /\ q.slotAt \in Providers /\ Aborted(q) \in BOOLEAN
  BY DEF Execution, Aborted
<1>2. /\ n \in Execution /\ n.hop = 1 /\ ~ n.fired /\ ~ n.listening /\ n.out = {} /\ ~ n.tried
      /\ n.slotAt = q.slotAt
  BY <1>1, HopsAssumption DEF NoExecution, Execution
<1>3. d = [n EXCEPT !.pc = "done", !.result = code, !.client = Aborted(q)]
  BY DEF Finished
<1> HIDE DEF n
<1>4. /\ d \in Execution /\ d.pc = "done" /\ d.result = code /\ d.client = Aborted(q)
      /\ d.hop = 1 /\ ~ d.fired /\ ~ d.listening /\ d.out = {} /\ ~ d.tried /\ d.slotAt = q.slotAt
  BY ZenonT(100), <1>1, <1>2, <1>3 DEF Execution
<1> HIDE DEF d
<1>5. Aborted(d) = Aborted(q)
  BY <1>1, <1>4 DEF Aborted, Execution
<1>6. ExecSound(d)
  BY <1>4, HopsAssumption DEF ExecSound
<1> QED
  BY <1>4, <1>5, <1>6 DEF d

\* d is execution q after its hop: on its way to the next one or done, without
\* a slot and out of the queue.
Left(d, q) ==
    /\ ExecSound(d) /\ d.pc \in {"routing", "done"}
    /\ d.slotAt = q.slotAt /\ Aborted(d) = Aborted(q) /\ ~ d.listening

\* The loop over the chain: a policy code ends it only if no hop was tried.
LEMMA AdvanceFacts ==
    ASSUME NEW q \in Execution, Chain[q.hop] \in Loaded, q.err # "none", q.tried => q.err \notin PolicySide,
           q.out = {}, q.result # "ok", q.listening => Aborted(q)
    PROVE  /\ Left(Advance(q), q) /\ Advance(q).result # "ok"
           /\ q.tried /\ Advance(q).pc = "done" => Advance(q).result \notin PolicySide
<1> DEFINE later == {i \in (q.hop + 1) .. Len(Chain) : Chain[i] \in Loaded}
           code == IF q.fired \/ q.err = "none" THEN "provider_unavailable" ELSE q.err
           h == CHOOSE i \in later : \A j \in later : i <= j
           d == Advance(q)
<1>1. q.hop \in 1 .. Len(Chain) /\ Len(Chain) \in Nat /\ q.err \in ErrorCode
  BY HopsAssumption DEF Execution
<1>2. CASE Aborted(q) \/ later = {}
  <2>1. d = Finished(q, code)
    BY <1>2 DEF Advance
  <2>2. /\ code \in ErrorCode /\ code # "ok" /\ (q.tried => code \notin PolicySide)
    BY <1>1 DEF ErrorCode, PolicySide
  <2> HIDE DEF code, d
  <2>3. /\ ExecSound(d) /\ d.pc = "done" /\ d.result = code
        /\ d.slotAt = q.slotAt /\ Aborted(d) = Aborted(q) /\ ~ d.listening
    BY <2>1, <2>2, FinishedFacts
  <2> QED
    BY <2>2, <2>3 DEF Left, d
<1>3. CASE ~ (Aborted(q) \/ later = {})
  <2>1. d = [q EXCEPT !.pc = "routing", !.hop = h]
    BY <1>3 DEF Advance
  <2>2. later \subseteq Nat /\ later # {} /\ \A i \in later : i \in 1 .. Len(Chain) /\ Chain[i] \in Loaded
    BY <1>1, <1>3
  <2> HIDE DEF later
  <2>3. h \in later
    BY <2>2, LeastNatural
  <2>4. h \in 1 .. Len(Chain) /\ Chain[h] \in Loaded
    BY <2>2, <2>3
  <2> HIDE DEF h, d
  <2>5. d \in Execution
    BY <2>1, <2>4 DEF Execution
  <2>6. /\ d.pc = "routing" /\ d.hop = h /\ d.err = q.err /\ d.client = q.client /\ d.fired = q.fired
        /\ d.listening = q.listening /\ d.slotAt = q.slotAt /\ d.result = q.result
        /\ d.tried = q.tried /\ d.out = q.out
    BY <2>1 DEF Execution
  <2>7. Aborted(d) = Aborted(q) /\ ~ d.listening
    BY <1>3, <2>6 DEF Aborted
  <2>8. ExecSound(d)
    BY <2>4, <2>5, <2>6, <2>7 DEF ExecSound
  <2> QED
    BY <2>6, <2>7, <2>8 DEF Left, d
<1> QED
  BY <1>2, <1>3

\* A hop that is over with error e: c is execution q with what its end noted.
LEMMA FailHopFacts ==
    ASSUME NEW q, NEW c \in Execution, NEW e \in ErrorCode, Chain[c.hop] \in Loaded,
           c.tried => e \notin PolicySide, q.tried => c.tried, c.out = {}, c.result # "ok",
           c.listening => Aborted(c)
    PROVE  Legal(q, FailHop(c, e)) /\ Left(FailHop(c, e), c)
<1> DEFINE b == [c EXCEPT !.err = e, !.attempt = 0]
           d == FailHop(c, e)
<1>1. /\ b \in Execution /\ b.err = e /\ b.hop = c.hop /\ b.tried = c.tried /\ b.out = c.out
      /\ b.result = c.result /\ b.listening = c.listening /\ b.client = c.client /\ b.fired = c.fired
      /\ b.slotAt = c.slotAt
  <2>1. 0 \in 0 .. MaxRetries
    BY HopsAssumption
  <2> QED
    BY <2>1 DEF Execution
<1>2. d = Advance(b) /\ e # "none"
  BY DEF FailHop, ErrorCode
<1> HIDE DEF b, d
<1>3. Aborted(b) = Aborted(c)
  BY <1>1 DEF Aborted
<1>4. /\ Left(d, b) /\ d.result # "ok"
      /\ b.tried /\ d.pc = "done" => d.result \notin PolicySide
  BY <1>1, <1>2, <1>3, AdvanceFacts
<1>5. Left(d, c)
  BY <1>1, <1>3, <1>4 DEF Left
<1>6. Legal(q, d)
  BY <1>1, <1>4 DEF Left, Legal
<1> QED
  BY <1>5, <1>6 DEF d

\* release(): request r leaves its slot as d, and the oldest waiter, if there
\* is one, goes on with it.
LEMMA ReleaseFacts ==
    ASSUME ResilienceIInv, NEW r \in Requests, req[r].pc \in Holding, NEW d,
           Legal(req[r], d), Left(d, req[r]), ReleaseThen(r, d)
    PROVE  /\ req' \in [Requests -> Execution]
           /\ \A x \in Requests : Legal(req[x], req'[x])
           /\ Guard!Release(r)
<1> DEFINE p == req[r].slotAt
           h == Head(queue[p])
           g == [req[h] EXCEPT !.pc = "granted", !.listening = FALSE]
<1>1. /\ req \in [Requests -> Execution] /\ \A x \in Requests : ExecSound(req[x])
      /\ queue \in [Providers -> Seq(Requests)] /\ p \in Providers /\ d \in Execution
  BY DEF ResilienceIInv, Guard!ShedSafe, Guard!TypeOK, Execution, Legal, ExecSound
<1>2. /\ SlotState(req[r]) = "holding" /\ SlotState(d) = "idle" /\ d.slotAt = req[r].slotAt
      /\ Aborted(d) = Aborted(req[r]) /\ d.listening = req[r].listening
  <2>1. ~ req[r].listening /\ req[r].listening \in BOOLEAN /\ d.listening \in BOOLEAN
    BY <1>1 DEF ExecSound, Holding, Execution
  <2> QED
    BY <2>1 DEF Left, SlotState, Holding
<1>3. CASE Len(queue[p]) > 0 /\ inFlight[p] - 1 < MaxConcurrent
  <2>1. /\ queue' = [queue EXCEPT ![p] = Tail(@)] /\ UNCHANGED inFlight
        /\ req' = [req EXCEPT ![r] = d, ![h].pc = "granted", ![h].listening = FALSE]
    BY <1>3 DEF ReleaseThen
  <2>2. 1 \in 1 .. Len(queue[p]) /\ h = queue[p][1]
    BY <1>1, <1>3
  <2>3. h \in Requests /\ SlotState(req[h]) = "queued"
    <3>1. Guard!ShedSafe
      BY DEF ResilienceIInv
    <3> HIDE DEF p
    <3>2. /\ queue[p][1] \in Requests
          /\ [x \in Requests |-> SlotState(req[x])][queue[p][1]] = "queued"
      BY ZenonT(40), <1>1, <2>2, <3>1, GuardAssumption, Guard!Entry
    <3> QED
      BY <2>2, <3>2
  <2> HIDE DEF h, p
  <2>4. h # r /\ req[h].pc = "queued" /\ req[h] \in Execution /\ ExecSound(req[h])
    BY <1>1, <1>2, <2>3 DEF SlotState
  <2>5. /\ g \in Execution /\ g.pc = "granted" /\ ~ g.listening /\ g.hop = req[h].hop /\ g.slotAt = req[h].slotAt
        /\ g.out = req[h].out /\ g.tried = req[h].tried /\ g.err = req[h].err /\ g.result = req[h].result
        /\ g.client = req[h].client /\ g.fired = req[h].fired /\ g.listening = FALSE
    BY <2>4 DEF Execution
  <2>6. /\ req' \in [Requests -> Execution] /\ req'[r] = d /\ req'[h] = g
        /\ \A x \in Requests \ {r, h} : req'[x] = req[x]
    <3>1. req' = [[req EXCEPT ![r] = d] EXCEPT ![h].pc = "granted", ![h].listening = FALSE]
      BY <2>1
    <3>2. [req EXCEPT ![r] = d][h] = req[h]
      BY <1>1, <2>3, <2>4
    <3>3. req' = [[req EXCEPT ![r] = d] EXCEPT ![h] = g]
      BY <1>1, <2>3, <2>4, <3>1, <3>2
    <3> HIDE DEF g
    <3> QED
      BY <1>1, <2>3, <2>4, <2>5, <3>3
  <2> HIDE DEF g
  <2>7. Legal(req[h], g)
    <3>1. ExecSound(g)
      BY <2>4, <2>5 DEF ExecSound
    <3> QED
      BY <2>4, <2>5, <3>1 DEF Legal, ExecSound
  <2>8. \A x \in Requests : Legal(req[x], req'[x])
    BY <1>1, <2>6, <2>7, Idling
  <2>9. /\ [x \in Requests |-> SlotState(req[x])]' =
                [[x \in Requests |-> SlotState(req[x])] EXCEPT ![r] = "idle", ![h] = "holding"]
        /\ [x \in Requests |-> req[x].listening]' = [[x \in Requests |-> req[x].listening] EXCEPT ![h] = FALSE]
        /\ [x \in Requests |-> req[x].slotAt]' = [x \in Requests |-> req[x].slotAt]
        /\ [x \in Requests |-> Aborted(req[x])]' = [x \in Requests |-> Aborted(req[x])]
    <3>1. SlotState(g) = "holding" /\ Aborted(g) = Aborted(req[h])
      BY <2>5 DEF SlotState, Holding, Aborted
    <3>2. \A x \in Requests : SlotState(req'[x]) = IF x = r THEN "idle" ELSE IF x = h THEN "holding" ELSE SlotState(req[x])
      BY <1>2, <2>4, <2>6, <3>1
    <3>3. \A x \in Requests : req'[x].listening = IF x = h THEN FALSE ELSE req[x].listening
      BY <1>2, <2>4, <2>5, <2>6
    <3>4. \A x \in Requests : req'[x].slotAt = req[x].slotAt /\ Aborted(req'[x]) = Aborted(req[x])
      BY <1>2, <2>4, <2>5, <2>6, <3>1
    <3>5. [x \in Requests |-> SlotState(req'[x])] =
                [[x \in Requests |-> SlotState(req[x])] EXCEPT ![r] = "idle", ![h] = "holding"]
      BY <2>3, <2>4, <3>2
    <3>6. [x \in Requests |-> req'[x].listening] = [[x \in Requests |-> req[x].listening] EXCEPT ![h] = FALSE]
      BY <3>3
    <3> QED
      BY <3>4, <3>5, <3>6 DEF SlotState, Aborted
  <2>10. inFlight' = [inFlight EXCEPT ![p] = (inFlight[p] - 1) + 1]
    BY <1>1, <2>1 DEF ResilienceIInv, Guard!ShedSafe, Guard!TypeOK
  <2>11. Guard!ReleaseHandoff(r)
    BY <1>2, <1>3, <2>1, <2>9, <2>10 DEF Guard!ReleaseHandoff, h, p
  <2> QED
    BY <2>6, <2>8, <2>11 DEF Guard!Release
<1>4. CASE ~ (Len(queue[p]) > 0 /\ inFlight[p] - 1 < MaxConcurrent)
  <2>1. /\ inFlight' = [inFlight EXCEPT ![p] = @ - 1] /\ UNCHANGED queue
        /\ req' = [req EXCEPT ![r] = d]
    BY <1>4 DEF ReleaseThen
  <2>2. /\ req' \in [Requests -> Execution] /\ \A x \in Requests : Legal(req[x], req'[x])
        /\ req'[r] = d /\ \A x \in Requests \ {r} : req'[x] = req[x]
    BY <2>1, Alone
  <2>3. /\ \A x \in Requests : SlotState(req'[x]) = IF x = r THEN "idle" ELSE SlotState(req[x])
        /\ \A x \in Requests : req'[x].slotAt = req[x].slotAt
        /\ \A x \in Requests : Aborted(req'[x]) = Aborted(req[x])
        /\ \A x \in Requests : req'[x].listening = req[x].listening
    BY <1>2, <2>2
  <2>4. /\ [x \in Requests |-> SlotState(req[x])]' = [[x \in Requests |-> SlotState(req[x])] EXCEPT ![r] = "idle"]
        /\ [x \in Requests |-> req[x].listening]' = [x \in Requests |-> req[x].listening]
        /\ [x \in Requests |-> req[x].slotAt]' = [x \in Requests |-> req[x].slotAt]
        /\ [x \in Requests |-> Aborted(req[x])]' = [x \in Requests |-> Aborted(req[x])]
    BY <2>3 DEF SlotState, Aborted
  <2>5. Guard!ReleaseFree(r)
    BY <1>2, <1>4, <2>1, <2>4 DEF Guard!ReleaseFree
  <2> QED
    BY <2>2, <2>5 DEF Guard!Release
<1> QED
  BY <1>3, <1>4

-----------------------------------------------------------------------------
\* What every step comes to: windows stay windows, each execution moves as it
\* may, and the guard takes one of its own steps or none.
StepFits ==
    /\ win' \in [Providers -> Window]
    /\ req' \in [Requests -> Execution]
    /\ \A x \in Requests : Legal(req[x], req'[x])
    /\ [Guard!Next]_Guard!vars

\* A step of one execution that touches neither slot nor queue is none of the
\* guard's.
LEMMA QuietStep ==
    ASSUME ResilienceIInv, NEW r \in Requests, NEW d, Legal(req[r], d), Seen(d, req[r]),
           req' = [req EXCEPT ![r] = d], UNCHANGED <<inFlight, queue>>, win' \in [Providers -> Window]
    PROVE  StepFits
<1>1. /\ req' \in [Requests -> Execution] /\ \A x \in Requests : Legal(req[x], req'[x])
      /\ req'[r] = d /\ \A x \in Requests \ {r} : req'[x] = req[x]
  BY Alone
<1>2. \A x \in Requests : Seen(req'[x], req[x])
  BY <1>1 DEF Seen
<1>3. UNCHANGED Guard!vars
  BY <1>2, Unnoticed
<1> QED
  BY <1>1, <1>3 DEF StepFits

\* A step that gives the slot back is the guard's release(), with or without
\* a waiter to hand it to.
LEMMA ReleaseStep ==
    ASSUME ResilienceIInv, NEW r \in Requests, req[r].pc \in Holding, NEW d,
           Legal(req[r], d), Left(d, req[r]), ReleaseThen(r, d), win' \in [Providers -> Window]
    PROVE  StepFits
<1>1. Guard!Next
  BY ReleaseFacts DEF Guard!Next
<1> QED
  BY <1>1, ReleaseFacts DEF StepFits

\* What the guard sees of the step of one execution from and to a place outside
\* the queue, when only its signal changes.
LEMMA SignalStep ==
    ASSUME ResilienceIInv, NEW r \in Requests, NEW d, Legal(req[r], d),
           SlotState(d) = SlotState(req[r]), SlotState(req[r]) # "queued",
           Aborted(req[r]) /\ ~ Aborted(d) => SlotState(d) = "idle",
           d.slotAt = req[r].slotAt, d.listening = req[r].listening,
           req' = [req EXCEPT ![r] = d], UNCHANGED <<inFlight, queue>>, win' \in [Providers -> Window]
    PROVE  StepFits
<1>1. /\ req' \in [Requests -> Execution] /\ \A x \in Requests : Legal(req[x], req'[x])
      /\ req'[r] = d /\ \A x \in Requests \ {r} : req'[x] = req[x]
  BY Alone
<1>2. d \in Execution /\ req[r] \in Execution
  BY DEF Legal, ExecSound, ResilienceIInv
<1>3. Aborted(d) \in BOOLEAN /\ Aborted(req[r]) \in BOOLEAN
  BY <1>2 DEF Execution, Aborted
<1>4. CASE Aborted(d) = Aborted(req[r])
  BY <1>4, QuietStep DEF Seen
<1>5. CASE Aborted(d) # Aborted(req[r])
  <2>1. /\ [x \in Requests |-> SlotState(req[x])]' = [x \in Requests |-> SlotState(req[x])]
        /\ [x \in Requests |-> req[x].listening]' = [x \in Requests |-> req[x].listening]
        /\ [x \in Requests |-> req[x].slotAt]' = [x \in Requests |-> req[x].slotAt]
    <3>1. \A x \in Requests : /\ SlotState(req'[x]) = SlotState(req[x])
                              /\ req'[x].listening = req[x].listening /\ req'[x].slotAt = req[x].slotAt
      BY <1>1
    <3> QED
      BY <3>1 DEF SlotState
  <2>2. [x \in Requests |-> Aborted(req[x])]' = [[x \in Requests |-> Aborted(req[x])] EXCEPT ![r] = Aborted(d)]
    <3>1. \A x \in Requests : Aborted(req'[x]) = IF x = r THEN Aborted(d) ELSE Aborted(req[x])
      BY <1>1
    <3> QED
      BY <3>1 DEF Aborted
  <2>3. CASE Aborted(d)
    <3>1. ~ Aborted(req[r]) /\ Aborted(d) = TRUE
      BY <1>3, <1>5, <2>3
    <3>2. Guard!AbortElsewhere(r)
      BY <2>1, <2>2, <3>1 DEF Guard!AbortElsewhere
    <3> QED
      BY <1>1, <3>2 DEF StepFits, Guard!Next
  <2>4. CASE ~ Aborted(d)
    <3>1. Aborted(req[r]) /\ Aborted(d) = FALSE /\ SlotState(req[r]) = "idle"
      BY <1>3, <1>5, <2>4
    <3>2. Guard!NewRequest(r)
      BY <2>1, <2>2, <3>1 DEF Guard!NewRequest
    <3> QED
      BY <1>1, <3>2 DEF StepFits, Guard!Next
  <2> QED
    BY <2>3, <2>4
<1> QED
  BY <1>4, <1>5

\* record() on the window of a provider.
LEMMA RecordStep ==
    ASSUME ResilienceIInv, NEW p \in Providers, NEW ok \in BOOLEAN, Record(p, ok)
    PROVE  win' \in [Providers -> Window]
<1>1. win' = [win EXCEPT ![p] = AfterRecord(win[p], ok)] /\ win \in [Providers -> Window]
  BY DEF Record, ResilienceIInv
<1>2. AfterRecord(win[p], ok) \in Window
  BY <1>1, RecordWindow
<1> QED
  BY <1>1, <1>2

\* What the invariant says of one execution, for the steps below.
LEMMA Running ==
    ASSUME ResilienceIInv, NEW r \in Requests
    PROVE  /\ req[r] \in Execution /\ ExecSound(req[r]) /\ Target(req[r]) \in Providers
           /\ req[r].slotAt \in Providers /\ req \in [Requests -> Execution]
           /\ win \in [Providers -> Window]
<1>1. req[r] \in Execution /\ ExecSound(req[r]) /\ req \in [Requests -> Execution] /\ win \in [Providers -> Window]
  BY DEF ResilienceIInv
<1>2. Chain[req[r].hop] \in Loaded
  BY <1>1 DEF ExecSound
<1>3. Target(req[r]) \in Providers
  BY <1>2, HopsAssumption DEF Target
<1> QED
  BY <1>1, <1>3 DEF Execution

-----------------------------------------------------------------------------
\* A request enters the executor.
LEMMA ArriveFits ==
    ASSUME ResilienceIInv, NEW r \in Requests, Arrive(r)
    PROVE  StepFits
<1>1. PICK gone \in BOOLEAN :
        req' = [req EXCEPT ![r] =
                    IF gone THEN Finished([NoExecution(req[r].slotAt) EXCEPT !.client = gone], "provider_unavailable")
                    ELSE [[NoExecution(req[r].slotAt) EXCEPT !.client = gone] EXCEPT !.pc = "routing"]]
  BY DEF Arrive
<1>2. req[r].pc \in {"idle", "done"} /\ UNCHANGED <<win, inFlight, queue>>
  BY DEF Arrive
<1> DEFINE q == req[r]
           n == NoExecution(q.slotAt)
           c == [n EXCEPT !.client = gone]
           d == IF gone THEN Finished(c, "provider_unavailable") ELSE [c EXCEPT !.pc = "routing"]
<1>3. q \in Execution /\ ExecSound(q) /\ q.slotAt \in Providers /\ win \in [Providers -> Window]
  BY Running
<1>4. /\ n \in Execution /\ n.hop = 1 /\ ~ n.fired /\ ~ n.listening /\ n.out = {} /\ ~ n.tried
      /\ n.slotAt = q.slotAt /\ n.result = "none"
  BY <1>3, HopsAssumption DEF NoExecution, Execution
<1>5. req' = [req EXCEPT ![r] = d]
  BY <1>1
<1> HIDE DEF n, q
<1>6. /\ c \in Execution /\ c.client = gone /\ c.hop = 1 /\ ~ c.fired /\ ~ c.listening /\ c.out = {}
      /\ ~ c.tried /\ c.slotAt = q.slotAt /\ c.result = "none"
  BY <1>4 DEF Execution
<1> HIDE DEF c
<1>7. ExecSound(d) /\ d.pc \in {"routing", "done"} /\ d.slotAt = q.slotAt /\ ~ d.listening /\ d.result # "ok"
      /\ (d.pc = "done" => d.result = "provider_unavailable")
  <2>1. CASE gone
    <3>1. d = Finished(c, "provider_unavailable") /\ "provider_unavailable" \in ErrorCode
      BY <2>1 DEF ErrorCode
    <3> HIDE DEF d
    <3> QED
      BY <1>6, <3>1, FinishedFacts
  <2>2. CASE ~ gone
    <3>1. d = [c EXCEPT !.pc = "routing"]
      BY <2>2
    <3> HIDE DEF d
    <3>2. /\ d \in Execution /\ d.pc = "routing" /\ d.hop = 1 /\ ~ d.listening /\ d.out = {}
          /\ ~ d.tried /\ d.slotAt = q.slotAt /\ d.result = "none"
      BY <1>6, <3>1 DEF Execution
    <3>3. ExecSound(d)
      BY <3>2, HopsAssumption DEF ExecSound
    <3> QED
      BY <3>2, <3>3
  <2> QED
    BY <2>1, <2>2
<1> HIDE DEF d
<1>8. ~ q.listening /\ SlotState(q) = "idle" /\ SlotState(d) = "idle"
  BY <1>2, <1>3, <1>7 DEF ExecSound, SlotState, Holding, q
<1>9. d.listening = q.listening
  BY <1>3, <1>7, <1>8 DEF ExecSound, Execution
<1>10. Legal(q, d)
  BY <1>7 DEF Legal, PolicySide
<1> QED
  BY <1>2, <1>3, <1>5, <1>7, <1>8, <1>9, <1>10, SignalStep DEF q

-----------------------------------------------------------------------------
\* From the routing of a hop to the next one or to the end: the guard, which
\* has not been asked, notices nothing.
LEMMA RoutingFails ==
    ASSUME ResilienceIInv, NEW r \in Requests, req[r].pc = "routing", NEW c \in Execution, NEW e \in ErrorCode,
           c.hop = req[r].hop, c.slotAt = req[r].slotAt, c.out = req[r].out, c.result = req[r].result,
           c.listening = req[r].listening, c.client = req[r].client, c.fired = req[r].fired,
           c.tried => e \notin PolicySide, req[r].tried => c.tried,
           req' = [req EXCEPT ![r] = FailHop(c, e)], UNCHANGED <<inFlight, queue>>, win' \in [Providers -> Window]
    PROVE  StepFits
<1> DEFINE q == req[r]
           d == FailHop(c, e)
<1>1. q \in Execution /\ ExecSound(q) /\ q.pc = "routing"
  BY Running
<1>2. /\ Chain[c.hop] \in Loaded /\ c.out = {} /\ c.result # "ok" /\ ~ q.listening /\ ~ c.listening
  BY <1>1 DEF ExecSound
<1>3. Legal(q, d) /\ Left(d, c)
  BY <1>2, FailHopFacts
<1> HIDE DEF d
<1>4. Aborted(c) = Aborted(q)
  BY DEF Aborted
<1>5. d.listening = q.listening
  <2>1. d.listening \in BOOLEAN /\ q.listening \in BOOLEAN /\ ~ d.listening /\ ~ q.listening
    BY <1>1, <1>2, <1>3 DEF Left, ExecSound, Execution
  <2> QED
    BY <2>1
<1>6. SlotState(d) = SlotState(q)
  BY <1>1, <1>3 DEF Left, SlotState, Holding
<1>7. Seen(d, q)
  BY <1>3, <1>4, <1>5, <1>6 DEF Seen, Left
<1> QED
  BY <1>3, <1>7, QuietStep DEF d

\* routeForModel() throws: the hop is over without having asked for a slot.
LEMMA RouteFailsFits ==
    ASSUME ResilienceIInv, NEW r \in Requests, RouteFails(r)
    PROVE  StepFits
<1> DEFINE q == req[r]
           b == q.audited \/ (HasPrevious(q) /\ r \notin Streaming)
           c == [q EXCEPT !.audited = b]
<1>1. PICK e \in RouteErrors :
        req' = [req EXCEPT ![r] =
                    FailHop([q EXCEPT !.audited = @ \/ (HasPrevious(q) /\ r \notin Streaming)], PreferError(q.err, e))]
  BY DEF RouteFails
<1>2. q.pc = "routing" /\ UNCHANGED <<win, inFlight, queue>>
  BY DEF RouteFails
<1>3. q \in Execution /\ ExecSound(q) /\ win \in [Providers -> Window]
  BY Running
<1>4. b \in BOOLEAN
  BY <1>3 DEF Execution
<1>5. req' = [req EXCEPT ![r] = FailHop(c, PreferError(q.err, e))]
  BY <1>1
<1>6. e \in ErrorCode /\ q.err \in ErrorCode \cup {"none"}
  BY <1>3, HopsAssumption DEF Execution
<1>7. PreferError(q.err, e) \in ErrorCode /\ (q.tried => PreferError(q.err, e) \notin PolicySide)
  BY <1>3, <1>6 DEF PreferError, ExecSound
<1> HIDE DEF b
<1>8. /\ c \in Execution /\ c.hop = q.hop /\ c.slotAt = q.slotAt /\ c.out = q.out /\ c.result = q.result
      /\ c.listening = q.listening /\ c.client = q.client /\ c.fired = q.fired /\ c.tried = q.tried
  BY <1>3, <1>4 DEF Execution
<1> HIDE DEF c
<1> QED
  BY <1>2, <1>3, <1>5, <1>7, <1>8, RoutingFails

\* The breaker says no: the hop is over without having asked for a slot.
LEMMA RouteRefusedFits ==
    ASSUME ResilienceIInv, NEW r \in Requests, RouteRefused(r)
    PROVE  StepFits
<1> DEFINE q == req[r]
           c == [q EXCEPT !.audited = TRUE, !.tried = TRUE]
<1>1. /\ req' = [req EXCEPT ![r] = FailHop(c, "provider_unavailable")]
      /\ q.pc = "routing" /\ UNCHANGED <<win, inFlight, queue>>
  BY DEF RouteRefused
<1>2. q \in Execution /\ win \in [Providers -> Window]
  BY Running
<1>3. "provider_unavailable" \in ErrorCode /\ "provider_unavailable" \notin PolicySide
  BY DEF ErrorCode, PolicySide
<1>4. /\ c \in Execution /\ c.hop = q.hop /\ c.slotAt = q.slotAt /\ c.out = q.out /\ c.result = q.result
      /\ c.listening = q.listening /\ c.client = q.client /\ c.fired = q.fired /\ c.tried
  BY <1>2 DEF Execution
<1> HIDE DEF c
<1> QED
  BY <1>1, <1>2, <1>3, <1>4, RoutingFails

\* The breaker has let a hop through.
LEMMA GateFacts ==
    ASSUME ResilienceIInv, NEW r \in Requests, Gate(r)
    PROVE  win' \in [Providers -> Window] /\ SlotState(req[r]) = "idle" /\ req[r].pc = "routing"
<1> DEFINE p == Target(req[r])
<1>1. p \in Providers /\ win \in [Providers -> Window]
  BY Running
<1>2. win' = [win EXCEPT ![p] = AfterAllow(win[p])] /\ req[r].pc = "routing"
  BY DEF Gate
<1> HIDE DEF p
<1>3. AfterAllow(win[p]) \in Window
  BY <1>1, AllowWindow
<1>4. SlotState(req[r]) = "idle"
  BY <1>2 DEF SlotState, Holding
<1> QED
  BY <1>1, <1>2, <1>3, <1>4

\* acquire() with a free slot.
LEMMA RouteSlotFits ==
    ASSUME ResilienceIInv, NEW r \in Requests, RouteSlot(r)
    PROVE  StepFits
<1> DEFINE q == req[r]
           p == Target(q)
           d == [q EXCEPT !.pc = "granted", !.slotAt = p]
<1>1. /\ q \in Execution /\ ExecSound(q) /\ p \in Providers /\ req \in [Requests -> Execution]
  BY Running
<1>2. /\ win' \in [Providers -> Window] /\ SlotState(q) = "idle" /\ q.pc = "routing"
  BY GateFacts DEF RouteSlot
<1>3. /\ inFlight[p] < MaxConcurrent /\ inFlight' = [inFlight EXCEPT ![p] = @ + 1] /\ UNCHANGED queue
      /\ req' = [req EXCEPT ![r].pc = "granted", ![r].slotAt = p]
  BY DEF RouteSlot
<1> HIDE DEF p
<1>4. req' = [req EXCEPT ![r] = d]
  BY <1>1, <1>3
<1>5. /\ d \in Execution /\ d.pc = "granted" /\ d.slotAt = p /\ d.hop = q.hop /\ d.listening = q.listening
      /\ d.client = q.client /\ d.fired = q.fired /\ d.out = q.out /\ d.tried = q.tried /\ d.err = q.err
      /\ d.result = q.result
  BY <1>1 DEF Execution
<1> HIDE DEF d
<1>6. ExecSound(d) /\ Aborted(d) = Aborted(q) /\ SlotState(d) = "holding"
  BY <1>1, <1>2, <1>5 DEF ExecSound, Aborted, SlotState, Holding
<1>7. Legal(q, d)
  BY <1>1, <1>2, <1>5, <1>6 DEF Legal, ExecSound
<1>8. /\ req' \in [Requests -> Execution] /\ \A x \in Requests : Legal(req[x], req'[x])
      /\ req'[r] = d /\ \A x \in Requests \ {r} : req'[x] = req[x]
  BY <1>4, <1>7, Alone
<1>9. /\ [x \in Requests |-> SlotState(req[x])]' = [[x \in Requests |-> SlotState(req[x])] EXCEPT ![r] = "holding"]
      /\ [x \in Requests |-> req[x].slotAt]' = [[x \in Requests |-> req[x].slotAt] EXCEPT ![r] = p]
      /\ [x \in Requests |-> req[x].listening]' = [x \in Requests |-> req[x].listening]
      /\ [x \in Requests |-> Aborted(req[x])]' = [x \in Requests |-> Aborted(req[x])]
  <2>1. \A x \in Requests : /\ SlotState(req'[x]) = IF x = r THEN "holding" ELSE SlotState(req[x])
                            /\ req'[x].slotAt = IF x = r THEN p ELSE req[x].slotAt
                            /\ req'[x].listening = req[x].listening /\ Aborted(req'[x]) = Aborted(req[x])
    BY <1>5, <1>6, <1>8
  <2> QED
    BY <2>1 DEF SlotState, Aborted
<1>10. Guard!AcquireSlot(r, p)
  BY <1>2, <1>3, <1>9 DEF Guard!AcquireSlot
<1>11. Guard!Acquire(r, p)
  BY <1>10 DEF Guard!Acquire
<1>12. Guard!Next
  BY <1>1, <1>11 DEF Guard!Next
<1> QED
  BY <1>2, <1>8, <1>12 DEF StepFits

\* acquire() with room in the queue.
LEMMA RouteQueuedFits ==
    ASSUME ResilienceIInv, NEW r \in Requests, RouteQueued(r)
    PROVE  StepFits
<1> DEFINE q == req[r]
           p == Target(q)
           a == ~ Aborted(q)
           d == [q EXCEPT !.pc = "queued", !.slotAt = p, !.listening = a]
<1>1. /\ q \in Execution /\ ExecSound(q) /\ p \in Providers /\ req \in [Requests -> Execution]
  BY Running
<1>2. /\ win' \in [Providers -> Window] /\ SlotState(q) = "idle" /\ q.pc = "routing"
  BY GateFacts DEF RouteQueued
<1>3. /\ inFlight[p] >= MaxConcurrent /\ Len(queue[p]) < QueueCap /\ UNCHANGED inFlight
      /\ queue' = [queue EXCEPT ![p] = Append(@, r)]
      /\ req' = [req EXCEPT ![r].pc = "queued", ![r].slotAt = p, ![r].listening = ~ Aborted(req[r])]
  BY DEF RouteQueued
<1>4. a \in BOOLEAN /\ a = ~ Aborted(q)
  BY <1>1 DEF Execution, Aborted
<1> HIDE DEF p
<1>5. req' = [req EXCEPT ![r] = d]
  BY <1>1, <1>3
<1> HIDE DEF a
<1>6. /\ d \in Execution /\ d.pc = "queued" /\ d.slotAt = p /\ d.hop = q.hop /\ d.listening = a
      /\ d.client = q.client /\ d.fired = q.fired /\ d.out = q.out /\ d.tried = q.tried /\ d.err = q.err
      /\ d.result = q.result
  BY ZenonT(40), <1>1, <1>4 DEF Execution
<1> HIDE DEF d
<1>7. Aborted(d) = Aborted(q) /\ SlotState(d) = "queued"
  BY <1>6 DEF Aborted, SlotState, Holding
<1>8. ExecSound(d)
  BY <1>1, <1>2, <1>4, <1>6, <1>7 DEF ExecSound
<1>9. Legal(q, d)
  BY <1>1, <1>2, <1>6, <1>8 DEF Legal, ExecSound
<1>10. /\ req' \in [Requests -> Execution] /\ \A x \in Requests : Legal(req[x], req'[x])
       /\ req'[r] = d /\ \A x \in Requests \ {r} : req'[x] = req[x]
  BY <1>5, <1>9, Alone
<1>11. /\ [x \in Requests |-> SlotState(req[x])]' = [[x \in Requests |-> SlotState(req[x])] EXCEPT ![r] = "queued"]
       /\ [x \in Requests |-> req[x].slotAt]' = [[x \in Requests |-> req[x].slotAt] EXCEPT ![r] = p]
       /\ [x \in Requests |-> req[x].listening]' = [[x \in Requests |-> req[x].listening] EXCEPT ![r] = ~ Aborted(q)]
       /\ [x \in Requests |-> Aborted(req[x])]' = [x \in Requests |-> Aborted(req[x])]
  <2>1. \A x \in Requests : /\ SlotState(req'[x]) = IF x = r THEN "queued" ELSE SlotState(req[x])
                            /\ req'[x].slotAt = IF x = r THEN p ELSE req[x].slotAt
                            /\ req'[x].listening = IF x = r THEN ~ Aborted(q) ELSE req[x].listening
                            /\ Aborted(req'[x]) = Aborted(req[x])
    BY <1>4, <1>6, <1>7, <1>10
  <2> QED
    BY <2>1 DEF SlotState, Aborted
<1>12. Guard!AcquireQueued(r, p)
  BY <1>2, <1>3, <1>11 DEF Guard!AcquireQueued
<1>13. Guard!Acquire(r, p)
  BY <1>12 DEF Guard!Acquire
<1>14. Guard!Next
  BY <1>1, <1>13 DEF Guard!Next
<1> QED
  BY <1>2, <1>10, <1>14 DEF StepFits

\* acquire() with a full queue.
LEMMA RouteShedFits ==
    ASSUME ResilienceIInv, NEW r \in Requests, RouteShed(r)
    PROVE  StepFits
<1> DEFINE q == req[r]
           p == Target(q)
           c == [q EXCEPT !.slotAt = p, !.tried = TRUE]
           d == FailHop(c, "rate_limited")
<1>1. /\ q \in Execution /\ ExecSound(q) /\ p \in Providers /\ req \in [Requests -> Execution]
  BY Running
<1>2. /\ win' \in [Providers -> Window] /\ SlotState(q) = "idle" /\ q.pc = "routing"
  BY GateFacts DEF RouteShed
<1>3. /\ inFlight[p] >= MaxConcurrent /\ Len(queue[p]) >= QueueCap /\ UNCHANGED <<inFlight, queue>>
      /\ req' = [req EXCEPT ![r] = d]
  BY DEF RouteShed
<1> HIDE DEF p
<1>4. /\ c \in Execution /\ c.hop = q.hop /\ c.slotAt = p /\ c.out = q.out /\ c.result = q.result
      /\ c.listening = q.listening /\ c.client = q.client /\ c.fired = q.fired /\ c.tried
  BY <1>1 DEF Execution
<1> HIDE DEF c
<1>5. "rate_limited" \in ErrorCode /\ "rate_limited" \notin PolicySide
  BY DEF ErrorCode, PolicySide
<1>6. Chain[c.hop] \in Loaded /\ c.out = {} /\ c.result # "ok" /\ ~ q.listening /\ ~ c.listening
  BY <1>1, <1>2, <1>4 DEF ExecSound
<1>7. Legal(q, d) /\ Left(d, c)
  BY <1>4, <1>5, <1>6, FailHopFacts
<1> HIDE DEF d
<1>8. /\ req' \in [Requests -> Execution] /\ \A x \in Requests : Legal(req[x], req'[x])
      /\ req'[r] = d /\ \A x \in Requests \ {r} : req'[x] = req[x]
  BY <1>3, <1>7, Alone
<1>9. d.slotAt = p /\ SlotState(d) = "idle" /\ Aborted(d) = Aborted(q) /\ d.listening = q.listening
  <2>1. Aborted(c) = Aborted(q)
    BY <1>4 DEF Aborted
  <2>2. d.listening \in BOOLEAN /\ q.listening \in BOOLEAN /\ ~ d.listening /\ ~ q.listening
    BY <1>1, <1>6, <1>7 DEF Left, ExecSound, Execution
  <2> QED
    BY <1>4, <1>7, <2>1, <2>2 DEF Left, SlotState, Holding
<1>10. /\ [x \in Requests |-> SlotState(req[x])]' = [x \in Requests |-> SlotState(req[x])]
       /\ [x \in Requests |-> req[x].slotAt]' = [[x \in Requests |-> req[x].slotAt] EXCEPT ![r] = p]
       /\ [x \in Requests |-> req[x].listening]' = [x \in Requests |-> req[x].listening]
       /\ [x \in Requests |-> Aborted(req[x])]' = [x \in Requests |-> Aborted(req[x])]
  <2>1. \A x \in Requests : /\ SlotState(req'[x]) = SlotState(req[x])
                            /\ req'[x].slotAt = IF x = r THEN p ELSE req[x].slotAt
                            /\ req'[x].listening = req[x].listening /\ Aborted(req'[x]) = Aborted(req[x])
    BY <1>2, <1>8, <1>9
  <2> QED
    BY <2>1 DEF SlotState, Aborted
<1>11. Guard!AcquireShed(r, p)
  BY <1>2, <1>3, <1>10 DEF Guard!AcquireShed
<1>12. Guard!Acquire(r, p)
  BY <1>11 DEF Guard!Acquire
<1>13. Guard!Next
  BY <1>1, <1>12 DEF Guard!Next
<1> QED
  BY <1>2, <1>8, <1>13 DEF StepFits

-----------------------------------------------------------------------------
\* A hop that held a slot is over, with error e or with the result of the
\* whole request.
LEMMA HopReleased ==
    ASSUME ResilienceIInv, NEW r \in Requests, req[r].pc \in Holding, NEW c \in Execution, NEW e \in ErrorCode,
           c.hop = req[r].hop, c.slotAt = req[r].slotAt, c.out = {}, c.result = req[r].result,
           c.listening = req[r].listening, c.client = req[r].client, c.fired = req[r].fired,
           c.tried => e \notin PolicySide, req[r].tried => c.tried,
           ReleaseThen(r, FailHop(c, e)), win' \in [Providers -> Window]
    PROVE  StepFits
<1> DEFINE q == req[r]
           d == FailHop(c, e)
<1>1. q \in Execution /\ ExecSound(q)
  BY Running
<1>2. /\ Chain[c.hop] \in Loaded /\ c.result # "ok" /\ ~ c.listening
  BY <1>1 DEF ExecSound, Holding
<1>3. Legal(q, d) /\ Left(d, c)
  BY <1>2, FailHopFacts
<1> HIDE DEF d
<1>4. Left(d, q)
  <2>1. Aborted(c) = Aborted(q)
    BY DEF Aborted
  <2> QED
    BY <1>3, <2>1 DEF Left
<1> QED
  BY <1>3, <1>4, ReleaseStep DEF d

\* An execution that ends while it holds a slot gives it back: the finally of
\* executor.ts.
LEMMA DoneReleased ==
    ASSUME ResilienceIInv, NEW r \in Requests, req[r].pc \in Holding, NEW c \in Execution,
           NEW code \in ErrorCode \cup {"ok", "client_abort"},
           c.slotAt = req[r].slotAt, c.client = req[r].client, c.fired = req[r].fired,
           code \notin PolicySide, code = "ok" /\ req[r].hop > 1 => req[r].audited,
           ReleaseThen(r, Finished(c, code)), win' \in [Providers -> Window]
    PROVE  StepFits
<1> DEFINE q == req[r]
           d == Finished(c, code)
<1>1. /\ ExecSound(d) /\ d.pc = "done" /\ d.result = code
      /\ d.slotAt = c.slotAt /\ Aborted(d) = Aborted(c) /\ ~ d.listening
  BY FinishedFacts
<1> HIDE DEF d
<1>2. Left(d, q)
  <2>1. Aborted(c) = Aborted(q)
    BY DEF Aborted
  <2> QED
    BY <1>1, <2>1 DEF Left
<1>3. Legal(q, d)
  BY <1>1 DEF Legal
<1> QED
  BY <1>2, <1>3, ReleaseStep DEF d

\* Errors that end a call and are no business of the policy.
LEMMA Blameless ==
    /\ {"provider_unavailable", "rate_limited", "unknown", "invalid_response"} \subseteq ErrorCode \ PolicySide
    /\ \A e \in CallErrors : CodeOf(e) \in ErrorCode \ PolicySide
    /\ \A e \in CallErrors \ {"json_truncated"} : e \in ErrorCode \ PolicySide
<1>1. {"provider_unavailable", "rate_limited", "unknown", "invalid_response"} \subseteq ErrorCode \ PolicySide
  BY DEF ErrorCode, PolicySide
<1>2. \A e \in CallErrors : e \in ErrorCode \cup {"json_truncated"} /\ e \notin PolicySide
  BY HopsAssumption DEF CallError
<1> QED
  BY <1>1, <1>2 DEF CodeOf

\* The slot in hand, the call is made; a signal that fired before ends the hop
\* and gives the slot back.
LEMMA StartCallsFits ==
    ASSUME ResilienceIInv, NEW r \in Requests, StartCalls(r)
    PROVE  StepFits
<1> DEFINE q == req[r]
           b == q.audited \/ HasPrevious(q)
           s == [q EXCEPT !.audited = b]
           c == [s EXCEPT !.tried = TRUE]
           d == [s EXCEPT !.pc = "calling"]
<1>1. q \in Execution /\ ExecSound(q) /\ win \in [Providers -> Window]
  BY Running
<1>2. q.pc = "granted" /\ win' = win
  BY DEF StartCalls
<1>3. b \in BOOLEAN /\ (q.hop > 1 => b) /\ (q.audited => b)
  BY <1>1 DEF Execution, HasPrevious
<1>4. Started(q) = s
  BY DEF Started
<1>5. /\ Aborted(q) => ReleaseThen(r, FailHop(c, "unknown"))
      /\ ~ Aborted(q) => req' = [req EXCEPT ![r] = d] /\ UNCHANGED <<inFlight, queue>>
  BY <1>4 DEF StartCalls
<1> HIDE DEF b
<1>6. /\ s \in Execution /\ s.pc = q.pc /\ s.hop = q.hop /\ s.slotAt = q.slotAt /\ s.out = q.out
      /\ s.result = q.result /\ s.listening = q.listening /\ s.client = q.client /\ s.fired = q.fired
      /\ s.tried = q.tried /\ s.err = q.err /\ s.audited = b
  BY <1>1, <1>3 DEF Execution
<1>7. q.out = {}
  BY <1>1, <1>2 DEF ExecSound
<1> HIDE DEF s
<1>8. CASE Aborted(q)
  <2>1. /\ c \in Execution /\ c.hop = q.hop /\ c.slotAt = q.slotAt /\ c.out = {} /\ c.tried
        /\ c.result = q.result /\ c.listening = q.listening /\ c.client = q.client /\ c.fired = q.fired
    BY <1>6, <1>7 DEF Execution
  <2>2. "unknown" \in ErrorCode /\ "unknown" \notin PolicySide
    BY Blameless
  <2> HIDE DEF c
  <2> QED
    BY <1>1, <1>2, <1>5, <1>8, <2>1, <2>2, HopReleased DEF Holding
<1>9. CASE ~ Aborted(q)
  <2>1. /\ d \in Execution /\ d.pc = "calling" /\ d.hop = q.hop /\ d.slotAt = q.slotAt /\ d.out = {}
        /\ d.result = q.result /\ d.listening = q.listening /\ d.client = q.client /\ d.fired = q.fired
        /\ d.tried = q.tried /\ d.err = q.err /\ d.audited = b
    BY <1>6, <1>7 DEF Execution
  <2> HIDE DEF d
  <2>2. ExecSound(d)
    BY <1>1, <1>2, <1>3, <2>1 DEF ExecSound
  <2>3. Seen(d, q)
    BY <1>2, <2>1 DEF Seen, SlotState, Holding, Aborted
  <2>4. Legal(q, d)
    BY <1>1, <1>2, <1>9, <2>1, <2>2 DEF Legal, ExecSound
  <2> QED
    BY <1>1, <1>2, <1>5, <1>9, <2>3, <2>4, QuietStep
<1> QED
  BY <1>8, <1>9

\* An answer ends the execution and gives the slot back.
LEMMA CallSucceedsFits ==
    ASSUME ResilienceIInv, NEW r \in Requests, CallSucceeds(r)
    PROVE  StepFits
<1> DEFINE q == req[r]
<1>1. q \in Execution /\ ExecSound(q) /\ q.slotAt \in Providers
  BY Running
<1>2. q.pc = "calling" /\ Record(q.slotAt, TRUE) /\ ReleaseThen(r, Finished(q, "ok"))
  BY DEF CallSucceeds
<1>3. win' \in [Providers -> Window]
  BY <1>1, <1>2, RecordStep
<1>4. q.hop > 1 => q.audited
  BY <1>1, <1>2 DEF ExecSound
<1>5. "ok" \notin PolicySide /\ q.pc \in Holding
  BY <1>2 DEF PolicySide, Holding
<1> QED
  BY <1>1, <1>2, <1>3, <1>4, <1>5, DoneReleased

\* A failed call is retried with the slot kept, or ends the hop and gives it
\* back.
LEMMA CallFailsFits ==
    ASSUME ResilienceIInv, NEW r \in Requests, CallFails(r)
    PROVE  StepFits
<1> DEFINE q == req[r]
<1>1. q \in Execution /\ ExecSound(q) /\ q.slotAt \in Providers /\ win \in [Providers -> Window]
      /\ req \in [Requests -> Execution]
  BY Running
<1>2. PICK e \in CallErrors :
        IF WillRetry(q, e)
        THEN /\ req' = [req EXCEPT ![r].pc = "backoff", ![r].err = CodeOf(e), ![r].tried = TRUE]
             /\ UNCHANGED <<inFlight, queue>>
        ELSE ReleaseThen(r, FailHop([q EXCEPT !.tried = TRUE], CodeOf(e)))
  BY DEF CallFails
<1>3. q.pc = "calling" /\ q.pc \in Holding /\ win' \in [Providers -> Window]
  <2>1. q.pc = "calling" /\ (win' = win \/ Record(q.slotAt, FALSE))
    BY DEF CallFails
  <2>2. CASE Record(q.slotAt, FALSE)
    BY <1>1, <2>1, <2>2, RecordStep DEF Holding
  <2> QED
    BY <1>1, <2>1, <2>2 DEF Holding
<1>4. CodeOf(e) \in ErrorCode /\ CodeOf(e) \notin PolicySide /\ CodeOf(e) # "none"
  <2>1. CodeOf(e) \in ErrorCode \ PolicySide
    BY Blameless
  <2> QED
    BY <2>1 DEF ErrorCode
<1>5. q.out = {}
  BY <1>1, <1>3 DEF ExecSound
<1>6. CASE WillRetry(q, e)
  <2> DEFINE k == CodeOf(e)
             d == [q EXCEPT !.pc = "backoff", !.err = k, !.tried = TRUE]
  <2>1. req' = [req EXCEPT ![r] = d] /\ UNCHANGED <<inFlight, queue>>
    BY <1>1, <1>2, <1>6
  <2>2. k \in ErrorCode /\ k \notin PolicySide /\ k # "none"
    BY <1>4
  <2> HIDE DEF k
  <2>3. /\ d \in Execution /\ d.pc = "backoff" /\ d.hop = q.hop /\ d.slotAt = q.slotAt /\ d.out = {}
        /\ d.result = q.result /\ d.listening = q.listening /\ d.client = q.client /\ d.fired = q.fired
        /\ d.tried /\ d.err = k /\ d.audited = q.audited /\ d.attempt = q.attempt
    BY <1>1, <1>5, <2>2 DEF Execution
  <2> HIDE DEF d
  <2>4. q.attempt < MaxRetries
    BY <1>6 DEF WillRetry
  <2>5. ExecSound(d)
    BY <1>1, <1>3, <2>2, <2>3, <2>4 DEF ExecSound
  <2>6. Seen(d, q)
    BY <1>3, <2>3 DEF Seen, SlotState, Holding, Aborted
  <2>7. Legal(q, d)
    BY <1>1, <1>3, <2>3, <2>5 DEF Legal, ExecSound
  <2> QED
    BY <1>3, <2>1, <2>6, <2>7, QuietStep
<1>7. CASE ~ WillRetry(q, e)
  <2> DEFINE c == [q EXCEPT !.tried = TRUE]
  <2>1. ReleaseThen(r, FailHop(c, CodeOf(e)))
    BY <1>2, <1>7
  <2>2. /\ c \in Execution /\ c.hop = q.hop /\ c.slotAt = q.slotAt /\ c.out = {} /\ c.tried
        /\ c.result = q.result /\ c.listening = q.listening /\ c.client = q.client /\ c.fired = q.fired
    BY <1>1, <1>5 DEF Execution
  <2> HIDE DEF c
  <2> QED
    BY <1>3, <1>4, <2>1, <2>2, HopReleased
<1> QED
  BY <1>6, <1>7

\* The next attempt keeps the slot of the last one.
LEMMA BackoffEndsFits ==
    ASSUME ResilienceIInv, NEW r \in Requests, BackoffEnds(r)
    PROVE  StepFits
<1> DEFINE q == req[r]
           n == q.attempt + 1
           d == [q EXCEPT !.pc = "calling", !.attempt = n]
<1>1. q \in Execution /\ ExecSound(q) /\ win \in [Providers -> Window] /\ req \in [Requests -> Execution]
  BY Running
<1>2. /\ q.pc = "backoff" /\ ~ Aborted(q) /\ UNCHANGED <<win, inFlight, queue>>
      /\ req' = [req EXCEPT ![r].pc = "calling", ![r].attempt = @ + 1]
  BY DEF BackoffEnds
<1>3. n \in 0 .. MaxRetries
  <2>1. q.attempt \in 0 .. MaxRetries /\ q.attempt < MaxRetries /\ MaxRetries \in Nat
    BY <1>1, <1>2, HopsAssumption DEF Execution, ExecSound
  <2> QED
    BY <2>1
<1>4. req' = [req EXCEPT ![r] = d]
  BY <1>1, <1>2
<1> HIDE DEF n
<1>5. /\ d \in Execution /\ d.pc = "calling" /\ d.hop = q.hop /\ d.slotAt = q.slotAt /\ d.out = q.out
      /\ d.result = q.result /\ d.listening = q.listening /\ d.client = q.client /\ d.fired = q.fired
      /\ d.tried = q.tried /\ d.err = q.err /\ d.audited = q.audited
  BY <1>1, <1>3 DEF Execution
<1> HIDE DEF d
<1>6. ExecSound(d)
  BY <1>1, <1>2, <1>5 DEF ExecSound
<1>7. Seen(d, q)
  BY <1>2, <1>5 DEF Seen, SlotState, Holding, Aborted
<1>8. Legal(q, d)
  BY <1>1, <1>2, <1>5, <1>6 DEF Legal, ExecSound
<1> QED
  BY <1>1, <1>2, <1>4, <1>7, <1>8, QuietStep

\* A signal during sleep() ends the hop without another call.
LEMMA BackoffRejectedFits ==
    ASSUME ResilienceIInv, NEW r \in Requests, BackoffRejected(r)
    PROVE  StepFits
<1> DEFINE q == req[r]
<1>1. q \in Execution /\ ExecSound(q) /\ win \in [Providers -> Window]
  BY Running
<1>2. /\ q.pc = "backoff" /\ win' = win /\ ReleaseThen(r, FailHop(q, q.err))
  BY DEF BackoffRejected
<1>3. q.err \in ErrorCode /\ (q.tried => q.err \notin PolicySide) /\ q.out = {} /\ q.pc \in Holding
  BY <1>1, <1>2 DEF ExecSound, Execution, Holding
<1> QED
  BY <1>1, <1>2, <1>3, HopReleased

-----------------------------------------------------------------------------
\* The stream of a hop: a step that leaves it streaming, with what has gone out
\* so far.
LEMMA StreamsOn ==
    ASSUME ResilienceIInv, NEW r \in Requests, req[r].pc = "streaming", NEW d \in Execution,
           d.pc = "streaming", d.hop = req[r].hop, d.slotAt = req[r].slotAt, d.result = req[r].result,
           d.listening = req[r].listening, d.client = req[r].client, d.fired = req[r].fired,
           d.tried = req[r].tried, d.err = req[r].err, d.audited = req[r].audited,
           d.out # {} => d.content /\ d.out = {d.hop},
           req' = [req EXCEPT ![r] = d], UNCHANGED <<win, inFlight, queue>>
    PROVE  StepFits
<1> DEFINE q == req[r]
<1>1. q \in Execution /\ ExecSound(q) /\ win \in [Providers -> Window]
  BY Running
<1>2. ExecSound(d)
  BY <1>1 DEF ExecSound, Aborted
<1>3. Seen(d, q)
  BY DEF Seen, SlotState, Holding, Aborted
<1>4. Legal(q, d)
  BY <1>1, <1>2 DEF Legal, ExecSound
<1> QED
  BY <1>1, <1>3, <1>4, QuietStep

\* The slot in hand, the stream is opened; a signal that fired before is not
\* heard, and nothing has been yielded.
LEMMA StartStreamFits ==
    ASSUME ResilienceIInv, NEW r \in Requests, StartStream(r)
    PROVE  StepFits
<1> DEFINE q == req[r]
           b == q.audited \/ HasPrevious(q)
           d == [q EXCEPT !.pc = "streaming", !.audited = b, !.frames = FALSE,
                          !.content = FALSE, !.idle = FALSE, !.told = FALSE]
<1>1. q \in Execution /\ ExecSound(q) /\ win \in [Providers -> Window] /\ req \in [Requests -> Execution]
  BY Running
<1>2. /\ q.pc = "granted" /\ UNCHANGED <<win, inFlight, queue>> /\ req' = [req EXCEPT ![r] = d]
  BY DEF StartStream
<1>3. b \in BOOLEAN /\ (q.hop > 1 => b)
  BY <1>1 DEF Execution, HasPrevious
<1> HIDE DEF b
<1>4. /\ d \in Execution /\ d.pc = "streaming" /\ d.hop = q.hop /\ d.slotAt = q.slotAt /\ d.out = q.out
      /\ d.result = q.result /\ d.listening = q.listening /\ d.client = q.client /\ d.fired = q.fired
      /\ d.tried = q.tried /\ d.err = q.err /\ d.audited = b
  BY ZenonT(40), <1>1, <1>3 DEF Execution
<1> HIDE DEF d
<1>5. ExecSound(d)
  BY <1>1, <1>2, <1>3, <1>4 DEF ExecSound
<1>6. Seen(d, q)
  BY <1>2, <1>4 DEF Seen, SlotState, Holding, Aborted
<1>7. Legal(q, d)
  BY <1>1, <1>2, <1>4, <1>5 DEF Legal, ExecSound
<1> QED
  BY <1>1, <1>2, <1>6, <1>7, QuietStep

\* A frame without content is held back: the hop can still be left.
LEMMA FrameHeldFits ==
    ASSUME ResilienceIInv, NEW r \in Requests, FrameHeld(r)
    PROVE  StepFits
<1> DEFINE q == req[r]
           d == [q EXCEPT !.frames = TRUE]
<1>1. q \in Execution /\ ExecSound(q) /\ req \in [Requests -> Execution]
  BY Running
<1>2. /\ q.pc = "streaming" /\ UNCHANGED <<win, inFlight, queue>>
      /\ req' = [req EXCEPT ![r].frames = TRUE]
  BY DEF FrameHeld
<1>3. req' = [req EXCEPT ![r] = d]
  BY <1>1, <1>2
<1>4. /\ d \in Execution /\ d.pc = "streaming" /\ d.hop = q.hop /\ d.slotAt = q.slotAt /\ d.out = q.out
      /\ d.result = q.result /\ d.listening = q.listening /\ d.client = q.client /\ d.fired = q.fired
      /\ d.tried = q.tried /\ d.err = q.err /\ d.audited = q.audited /\ d.content = q.content
  BY <1>1, <1>2 DEF Execution
<1> HIDE DEF d
<1>5. d.out # {} => d.content /\ d.out = {d.hop}
  BY <1>1, <1>4 DEF ExecSound
<1> QED
  BY <1>2, <1>3, <1>4, <1>5, StreamsOn

\* The idle timer aborts the upstream call; the executor hears of it by its
\* error.
LEMMA IdleFiresFits ==
    ASSUME ResilienceIInv, NEW r \in Requests, IdleFires(r)
    PROVE  StepFits
<1> DEFINE q == req[r]
           d == [q EXCEPT !.idle = TRUE, !.told = TRUE]
<1>1. q \in Execution /\ ExecSound(q) /\ req \in [Requests -> Execution]
  BY Running
<1>2. /\ q.pc = "streaming" /\ UNCHANGED <<win, inFlight, queue>>
      /\ req' = [req EXCEPT ![r].idle = TRUE, ![r].told = TRUE]
  BY DEF IdleFires
<1>3. req' = [req EXCEPT ![r] = d]
  BY <1>1, <1>2
<1>4. /\ d \in Execution /\ d.pc = "streaming" /\ d.hop = q.hop /\ d.slotAt = q.slotAt /\ d.out = q.out
      /\ d.result = q.result /\ d.listening = q.listening /\ d.client = q.client /\ d.fired = q.fired
      /\ d.tried = q.tried /\ d.err = q.err /\ d.audited = q.audited /\ d.content = q.content
  BY <1>1, <1>2 DEF Execution
<1> HIDE DEF d
<1>5. d.out # {} => d.content /\ d.out = {d.hop}
  BY <1>1, <1>4 DEF ExecSound
<1> QED
  BY <1>2, <1>3, <1>4, <1>5, StreamsOn

\* Content goes out: from here on no other hop can follow.
LEMMA ChunkYieldedFits ==
    ASSUME ResilienceIInv, NEW r \in Requests, ChunkYielded(r)
    PROVE  StepFits
<1> DEFINE q == req[r]
           o == q.out \cup {q.hop}
           d == [q EXCEPT !.frames = TRUE, !.content = TRUE, !.out = o]
<1>1. q \in Execution /\ ExecSound(q) /\ win \in [Providers -> Window]
  BY Running
<1>2. d.pc = "streaming" /\ RelayTakes(r, d) /\ win' = win
  BY DEF ChunkYielded
<1>3. o \in SUBSET (1 .. Len(Chain)) /\ o = {q.hop}
  BY <1>1 DEF Execution, ExecSound
<1> HIDE DEF o
<1>4. /\ d \in Execution /\ d.pc = q.pc /\ d.hop = q.hop /\ d.slotAt = q.slotAt /\ d.out = o /\ d.content
      /\ d.result = q.result /\ d.listening = q.listening /\ d.client = q.client /\ d.fired = q.fired
      /\ d.tried = q.tried /\ d.err = q.err /\ d.audited = q.audited
  BY <1>1, <1>3 DEF Execution
<1> HIDE DEF d
<1>5. CASE d.client
  <2>1. ReleaseThen(r, Finished(d, "client_abort"))
    BY <1>2, <1>5 DEF RelayTakes
  <2>2. "client_abort" \notin PolicySide /\ "client_abort" # "ok" /\ q.pc \in Holding
    BY <1>2, <1>4 DEF PolicySide, Holding
  <2> QED
    BY <1>1, <1>2, <1>4, <2>1, <2>2, DoneReleased
<1>6. CASE ~ d.client
  <2>1. req' = [req EXCEPT ![r] = d] /\ UNCHANGED <<inFlight, queue>>
    BY <1>2, <1>6 DEF RelayTakes
  <2> QED
    BY <1>2, <1>3, <1>4, <2>1, StreamsOn
<1> QED
  BY <1>5, <1>6

\* A stream that ends well ends the execution.
LEMMA StreamEndsFits ==
    ASSUME ResilienceIInv, NEW r \in Requests, StreamEnds(r)
    PROVE  StepFits
<1> DEFINE q == req[r]
           code == IF q.client THEN "client_abort" ELSE "ok"
<1>1. q \in Execution /\ ExecSound(q) /\ q.slotAt \in Providers
  BY Running
<1>2. q.pc = "streaming" /\ Record(q.slotAt, TRUE) /\ ReleaseThen(r, Finished(q, code))
  BY DEF StreamEnds
<1>3. win' \in [Providers -> Window]
  BY <1>1, <1>2, RecordStep
<1>4. q.hop > 1 => q.audited
  BY <1>1, <1>2 DEF ExecSound
<1>5. code \in {"ok", "client_abort"} /\ code \notin PolicySide /\ q.pc \in Holding
  BY <1>2 DEF PolicySide, Holding
<1> HIDE DEF code
<1> QED
  BY <1>1, <1>2, <1>3, <1>4, <1>5, DoneReleased

\* The catch block.  Without content nothing has gone out, so the chain may go
\* on; with content the request ends here.
LEMMA StreamErrorFits ==
    ASSUME ResilienceIInv, NEW r \in Requests, req[r].pc = "streaming", NEW e \in ErrorCode \ PolicySide,
           StreamError(r, e)
    PROVE  StepFits
<1> DEFINE q == req[r]
           code == IF q.idle THEN "provider_unavailable" ELSE e
           c == [q EXCEPT !.tried = TRUE]
           stop == q.content \/ Aborted(q) \/ q.idle
<1>1. q \in Execution /\ ExecSound(q) /\ q.slotAt \in Providers /\ win \in [Providers -> Window]
  BY Running
<1>2. /\ win' = win \/ Record(q.slotAt, FALSE)
      /\ ReleaseThen(r, IF stop THEN Finished(c, code) ELSE FailHop(c, code))
  BY DEF StreamError
<1>3. win' \in [Providers -> Window]
  <2>1. CASE Record(q.slotAt, FALSE)
    BY <1>1, <2>1, RecordStep
  <2> QED
    BY <1>1, <1>2, <2>1
<1>4. code \in ErrorCode /\ code \notin PolicySide /\ code # "ok" /\ q.pc \in Holding
  BY Blameless DEF ErrorCode, Holding
<1> HIDE DEF code
<1>5. /\ c \in Execution /\ c.hop = q.hop /\ c.slotAt = q.slotAt /\ c.out = q.out /\ c.tried
      /\ c.result = q.result /\ c.listening = q.listening /\ c.client = q.client /\ c.fired = q.fired
  BY <1>1 DEF Execution
<1> HIDE DEF c
<1>6. CASE stop
  BY <1>2, <1>3, <1>4, <1>5, <1>6, DoneReleased
<1>7. CASE ~ stop
  <2>1. c.out = {}
    BY <1>1, <1>5, <1>7 DEF ExecSound
  <2> QED
    BY <1>2, <1>3, <1>4, <1>5, <1>7, <2>1, HopReleased
<1> QED
  BY <1>6, <1>7

\* A stream that fails falls back only if nothing was yielded yet.
LEMMA StreamThrowsFits ==
    ASSUME ResilienceIInv, NEW r \in Requests, StreamThrows(r) \/ StreamEndsEmpty(r)
    PROVE  StepFits
<1>1. CASE StreamThrows(r)
  <2>1. PICK e \in CallErrors \ {"json_truncated"} : req[r].pc = "streaming" /\ StreamError(r, e)
    BY <1>1 DEF StreamThrows
  <2>2. e \in ErrorCode \ PolicySide
    BY Blameless
  <2> QED
    BY <2>1, <2>2, StreamErrorFits
<1>2. CASE StreamEndsEmpty(r)
  <2>1. req[r].pc = "streaming" /\ StreamError(r, "invalid_response")
    BY <1>2 DEF StreamEndsEmpty
  <2>2. "invalid_response" \in ErrorCode \ PolicySide
    BY Blameless
  <2> QED
    BY <2>1, <2>2, StreamErrorFits
<1> QED
  BY <1>1, <1>2

-----------------------------------------------------------------------------
\* The composite signal fires, or fires again by its other cause: c is the
\* execution with the cause noted.
LEMMA SignalFits ==
    ASSUME ResilienceIInv, NEW r \in Requests, NEW c \in Execution, Interruptible(req[r]), Aborted(c),
           c.pc = req[r].pc, c.hop = req[r].hop, c.slotAt = req[r].slotAt, c.out = req[r].out,
           c.result = req[r].result, c.listening = req[r].listening, c.tried = req[r].tried,
           c.err = req[r].err, c.audited = req[r].audited, c.content = req[r].content,
           c.attempt = req[r].attempt, Signal(r, c)
    PROVE  StepFits
<1> DEFINE q == req[r]
           p == c.slotAt
           first == ~ Aborted(q)
<1>1. /\ q \in Execution /\ ExecSound(q) /\ q.slotAt \in Providers /\ req \in [Requests -> Execution]
      /\ win \in [Providers -> Window]
  BY Running
<1>2. first \in BOOLEAN /\ Aborted(c) = TRUE /\ c.listening \in BOOLEAN
  BY <1>1 DEF Execution, Aborted
<1>3. CASE c.pc = "queued" /\ c.listening /\ first
  <2> DEFINE b == [c EXCEPT !.tried = TRUE]
             d == FailHop(b, "rate_limited")
  <2>1. /\ \E i \in 1 .. Len(queue[p]) : queue[p][i] = r /\ queue' = [queue EXCEPT ![p] = Splice(@, i)]
        /\ req' = [req EXCEPT ![r] = d] /\ UNCHANGED <<win, inFlight>>
    BY <1>3 DEF Signal
  <2>2. /\ b \in Execution /\ b.hop = q.hop /\ b.slotAt = q.slotAt /\ b.out = q.out /\ b.tried
        /\ b.result = q.result /\ b.listening = c.listening /\ b.client = c.client /\ b.fired = c.fired
    BY DEF Execution
  <2>3. "rate_limited" \in ErrorCode /\ "rate_limited" \notin PolicySide
    BY Blameless
  <2> HIDE DEF b
  <2>4. Aborted(b)
    BY <2>2 DEF Aborted
  <2>5. Chain[b.hop] \in Loaded /\ b.out = {} /\ b.result # "ok"
    BY <1>1, <1>3, <2>2 DEF ExecSound
  <2>6. Legal(q, d) /\ Left(d, b)
    BY <2>2, <2>3, <2>4, <2>5, FailHopFacts
  <2> HIDE DEF d
  <2>7. /\ req' \in [Requests -> Execution] /\ \A x \in Requests : Legal(req[x], req'[x])
        /\ req'[r] = d /\ \A x \in Requests \ {r} : req'[x] = req[x]
    BY <2>1, <2>6, Alone
  <2>8. /\ d.slotAt = q.slotAt /\ SlotState(d) = "idle" /\ Aborted(d) = TRUE /\ d.listening = FALSE
    <3>1. d.listening \in BOOLEAN /\ ~ d.listening
      BY <2>6 DEF Left, ExecSound, Execution
    <3>2. Aborted(d) = Aborted(b) /\ Aborted(b) = TRUE
      BY <1>2, <2>2, <2>6 DEF Left, Aborted
    <3> QED
      BY <2>2, <2>6, <3>1, <3>2 DEF Left, SlotState, Holding
  <2>9. SlotState(q) = "queued" /\ q.listening
    BY <1>3 DEF SlotState, Holding
  <2>10. /\ [x \in Requests |-> SlotState(req[x])]' = [[x \in Requests |-> SlotState(req[x])] EXCEPT ![r] = "idle"]
         /\ [x \in Requests |-> req[x].slotAt]' = [x \in Requests |-> req[x].slotAt]
         /\ [x \in Requests |-> req[x].listening]' = [[x \in Requests |-> req[x].listening] EXCEPT ![r] = FALSE]
         /\ [x \in Requests |-> Aborted(req[x])]' = [[x \in Requests |-> Aborted(req[x])] EXCEPT ![r] = TRUE]
    <3>1. \A x \in Requests : /\ SlotState(req'[x]) = IF x = r THEN "idle" ELSE SlotState(req[x])
                              /\ req'[x].slotAt = req[x].slotAt
                              /\ req'[x].listening = IF x = r THEN FALSE ELSE req[x].listening
                              /\ Aborted(req'[x]) = IF x = r THEN TRUE ELSE Aborted(req[x])
      BY <2>7, <2>8
    <3> QED
      BY ZenonT(40), <3>1 DEF SlotState, Aborted
  <2>11. Guard!AbortQueued(r)
    <3>1. PICK i \in 1 .. Len(queue[p]) : queue[p][i] = r /\ queue' = [queue EXCEPT ![p] = Splice(queue[p], i)]
      BY <2>1
    <3>2. queue' = [queue EXCEPT ![p] = Guard!Splice(queue[p], i)]
      BY <3>1 DEF Guard!Splice, Splice
    <3>3. /\ [x \in Requests |-> req[x].slotAt][r] = p
          /\ ~ [x \in Requests |-> Aborted(req[x])][r]
          /\ [x \in Requests |-> SlotState(req[x])][r] = "queued"
          /\ [x \in Requests |-> req[x].listening][r]
      BY <1>3, <2>9
    <3>4. UNCHANGED inFlight
      BY <2>1
    <3> HIDE DEF p
    <3> DEFINE At == [x \in Requests |-> req[x].slotAt]
    <3>5. \E k \in 1 .. Len(queue[At[r]]) :
            queue[At[r]][k] = r /\ queue' = [queue EXCEPT ![At[r]] = Guard!Splice(queue[At[r]], k)]
      <4>1. At[r] = p
        BY <3>3
      <4> HIDE DEF At
      <4> QED
        BY <3>1, <3>2, <4>1
    <3> QED
      BY <2>10, <3>3, <3>4, <3>5 DEF Guard!AbortQueued
  <2>12. Guard!Next
    BY <2>11 DEF Guard!Next
  <2> QED
    BY <1>1, <2>1, <2>7, <2>12 DEF StepFits
<1>4. CASE c.pc = "streaming"
  <2> DEFINE b == c.told \/ first
             d == [c EXCEPT !.told = b]
  <2>1. /\ req' = [req EXCEPT ![r] = [c EXCEPT !.told = @ \/ first]] /\ UNCHANGED <<win, inFlight, queue>>
    BY <1>4 DEF Signal
  <2>2. b \in BOOLEAN
    BY <1>2 DEF Execution
  <2>3. req' = [req EXCEPT ![r] = d]
    BY <2>1
  <2> HIDE DEF b
  <2>4. /\ d \in Execution /\ d.pc = "streaming" /\ d.hop = q.hop /\ d.slotAt = q.slotAt /\ d.out = q.out
        /\ d.result = q.result /\ d.listening = q.listening /\ d.client = c.client /\ d.fired = c.fired
        /\ d.tried = q.tried /\ d.err = q.err /\ d.audited = q.audited /\ d.content = q.content
    BY <1>4, <2>2 DEF Execution
  <2> HIDE DEF d
  <2>5. Aborted(d)
    BY <2>4 DEF Aborted
  <2>6. ExecSound(d)
    BY <1>1, <1>4, <2>4 DEF ExecSound
  <2>7. Legal(q, d)
    BY <1>1, <1>4, <2>4, <2>6 DEF Legal, ExecSound
  <2>8. SlotState(d) = SlotState(q) /\ SlotState(q) # "queued"
    BY <1>4, <2>4 DEF SlotState, Holding
  <2> QED
    BY <1>1, <2>1, <2>3, <2>4, <2>5, <2>7, <2>8, SignalStep
<1>5. CASE c.pc # "streaming" /\ ~ (c.pc = "queued" /\ c.listening /\ first)
  <2>1. req' = [req EXCEPT ![r] = c] /\ UNCHANGED <<win, inFlight, queue>>
    BY <1>5 DEF Signal
  <2>2. q.pc \in {"routing", "queued", "calling", "backoff"} /\ (q.pc = "queued" => ~ first /\ ~ q.listening)
    BY <1>1, <1>5 DEF Interruptible, ExecSound
  <2>3. ExecSound(c)
    BY <1>1, <2>2 DEF ExecSound
  <2>4. Legal(q, c)
    BY <1>1, <2>2, <2>3 DEF Legal, ExecSound
  <2>5. SlotState(c) = SlotState(q)
    BY DEF SlotState
  <2>6. CASE q.pc = "queued"
    <3>1. Aborted(q) = TRUE
      BY <1>2, <2>2, <2>6
    <3>2. Seen(c, q)
      BY <1>2, <2>5, <3>1 DEF Seen
    <3> QED
      BY <1>1, <2>1, <2>4, <3>2, QuietStep
  <2>7. CASE q.pc # "queued"
    <3>1. SlotState(q) # "queued"
      BY <2>7 DEF SlotState, Holding
    <3> QED
      BY <1>1, <2>1, <2>4, <2>5, <3>1, SignalStep
  <2> QED
    BY <2>6, <2>7
<1> QED
  BY <1>3, <1>4, <1>5

\* The client aborts: queued callers leave the queue, others hear of it where
\* they listen.
LEMMA ClientAbortsFits ==
    ASSUME ResilienceIInv, NEW r \in Requests, ClientAborts(r)
    PROVE  StepFits
<1> DEFINE q == req[r]
           c == [q EXCEPT !.client = TRUE]
<1>1. q \in Execution
  BY Running
<1>2. Interruptible(q) /\ Signal(r, c)
  BY DEF ClientAborts
<1>3. /\ c \in Execution /\ c.client /\ c.pc = q.pc /\ c.hop = q.hop /\ c.slotAt = q.slotAt /\ c.out = q.out
      /\ c.result = q.result /\ c.listening = q.listening /\ c.tried = q.tried /\ c.err = q.err
      /\ c.audited = q.audited /\ c.content = q.content /\ c.attempt = q.attempt
  BY <1>1 DEF Execution
<1> HIDE DEF c
<1>4. Aborted(c)
  BY <1>3 DEF Aborted
<1> QED
  BY <1>2, <1>3, <1>4, SignalFits

\* The total timeout fires the same signal, unless content has stopped its
\* clock.
LEMMA TimesOutFits ==
    ASSUME ResilienceIInv, NEW r \in Requests, TimesOut(r)
    PROVE  StepFits
<1> DEFINE q == req[r]
           c == [q EXCEPT !.fired = TRUE]
<1>1. q \in Execution
  BY Running
<1>2. Interruptible(q) /\ Signal(r, c)
  BY DEF TimesOut
<1>3. /\ c \in Execution /\ c.fired /\ c.pc = q.pc /\ c.hop = q.hop /\ c.slotAt = q.slotAt /\ c.out = q.out
      /\ c.result = q.result /\ c.listening = q.listening /\ c.tried = q.tried /\ c.err = q.err
      /\ c.audited = q.audited /\ c.content = q.content /\ c.attempt = q.attempt
  BY <1>1 DEF Execution
<1> HIDE DEF c
<1>4. Aborted(c)
  BY <1>3 DEF Aborted
<1> QED
  BY <1>2, <1>3, <1>4, SignalFits

\* Time passes, or nothing happens here.
LEMMA NobodyMoves ==
    ASSUME ResilienceIInv, Tick \/ UNCHANGED vars
    PROVE  StepFits
<1>1. UNCHANGED <<inFlight, queue, req>>
  BY DEF Tick, vars
<1>2. win' \in [Providers -> Window]
  <2>1. win \in [Providers -> Window]
    BY DEF ResilienceIInv
  <2>2. CASE Tick
    BY <2>1, <2>2, TickWindow DEF Tick
  <2> QED
    BY <2>1, <2>2 DEF vars
<1>3. req \in [Requests -> Execution] /\ \A x \in Requests : Legal(req[x], req[x]) /\ Seen(req[x], req[x])
  BY Idling DEF ResilienceIInv
<1>4. \A x \in Requests : Seen(req'[x], req[x])
  BY <1>1, <1>3
<1>5. UNCHANGED Guard!vars
  BY <1>1, <1>4, Unnoticed
<1> QED
  BY <1>1, <1>2, <1>3, <1>5 DEF StepFits

-----------------------------------------------------------------------------
\* Every step of the layer.
LEMMA EveryStepFits == ResilienceIInv /\ [Next]_vars => StepFits
<1> SUFFICES ASSUME ResilienceIInv, [Next]_vars PROVE StepFits
  OBVIOUS
<1>1. ASSUME NEW r \in Requests, Arrive(r) PROVE StepFits
  BY <1>1, ArriveFits
<1>2. ASSUME NEW r \in Requests, Route(r) PROVE StepFits
  BY <1>2, RouteFailsFits, RouteRefusedFits, RouteSlotFits, RouteQueuedFits, RouteShedFits DEF Route
<1>3. ASSUME NEW r \in Requests, CallStep(r) PROVE StepFits
  BY <1>3, StartCallsFits, CallSucceedsFits, CallFailsFits, BackoffEndsFits, BackoffRejectedFits
     DEF CallStep, CallReturns
<1>4. ASSUME NEW r \in Requests, StreamStep(r) PROVE StepFits
  BY <1>4, StartStreamFits, FrameHeldFits, ChunkYieldedFits, StreamEndsFits, StreamThrowsFits, IdleFiresFits
     DEF StreamStep
<1>5. ASSUME NEW r \in Requests, ClientAborts(r) PROVE StepFits
  BY <1>5, ClientAbortsFits
<1>6. ASSUME NEW r \in Requests, TimesOut(r) PROVE StepFits
  BY <1>6, TimesOutFits
<1>7. CASE Tick \/ UNCHANGED vars
  BY <1>7, NobodyMoves
<1> QED
  BY <1>1, <1>2, <1>3, <1>4, <1>5, <1>6, <1>7 DEF Next, Step

\* Nobody has begun: the guard is empty.
LEMMA FirstState == Init => ResilienceIInv /\ Guard!Init
<1> SUFFICES ASSUME Init PROVE ResilienceIInv /\ Guard!Init
  OBVIOUS
<1> DEFINE n == NoExecution(ProviderOf[Chain[1]])
<1>1. ProviderOf[Chain[1]] \in Providers
  BY HopsAssumption
<1>2. /\ n \in Execution /\ n.pc = "idle" /\ n.hop = 1 /\ ~ n.client /\ ~ n.fired /\ n.listening = FALSE
      /\ n.out = {} /\ ~ n.tried /\ n.slotAt = ProviderOf[Chain[1]] /\ n.result = "none"
  BY <1>1, HopsAssumption DEF NoExecution, Execution
<1>3. /\ win = [p \in Providers |-> NewWindow] /\ inFlight = [p \in Providers |-> 0]
      /\ queue = [p \in Providers |-> <<>>] /\ req = [r \in Requests |-> n]
  BY DEF Init
<1> HIDE DEF n
<1>4. ExecSound(n)
  BY <1>2, HopsAssumption DEF ExecSound
<1>5. NewWindow \in Window
  BY BreakerAssumption DEF NewWindow, Window, BreakerState
<1>6. /\ [x \in Requests |-> SlotState(req[x])] = [x \in Requests |-> "idle"]
      /\ [x \in Requests |-> req[x].slotAt] \in [Requests -> Providers]
      /\ [x \in Requests |-> Aborted(req[x])] = [x \in Requests |-> FALSE]
      /\ [x \in Requests |-> req[x].listening] = [x \in Requests |-> FALSE]
  <2>1. SlotState(n) = "idle" /\ Aborted(n) = FALSE
    BY <1>2 DEF SlotState, Holding, Aborted, Execution
  <2> QED
    BY <1>1, <1>2, <1>3, <2>1
<1>7. Guard!Init
  BY <1>3, <1>6 DEF Guard!Init
<1>8. Guard!ShedSafe
  BY <1>7, GuardAssumption, Guard!InitSafe
<1> QED
  BY <1>2, <1>3, <1>4, <1>5, <1>7, <1>8 DEF ResilienceIInv

\* Every step of every execution keeps the invariant.
LEMMA InvariantKept == ResilienceIInv /\ [Next]_vars => ResilienceIInv'
<1> SUFFICES ASSUME ResilienceIInv, [Next]_vars PROVE ResilienceIInv'
  OBVIOUS
<1>1. StepFits
  BY EveryStepFits
<1>2. Guard!ShedSafe'
  BY <1>1, GuardStep DEF StepFits, ResilienceIInv
<1>3. \A r \in Requests : ExecSound(req'[r])
  BY <1>1 DEF StepFits, Legal
<1>4. (\A r \in Requests : ExecSound(req[r]))'
  BY <1>3 DEF ExecSound, Aborted
<1> QED
  BY <1>1, <1>2, <1>4 DEF StepFits, ResilienceIInv

-----------------------------------------------------------------------------
\* The invariant of executors, breaker windows and guard holds in every state
\* of every execution: in particular each waiter of executor.ts sits in the
\* queue of its provider and each holder is counted.
THEOREM ResilienceInductive == Spec => []ResilienceIInv
<1>1. Init => ResilienceIInv
  BY FirstState
<1>2. ResilienceIInv /\ [Next]_vars => ResilienceIInv'
  BY InvariantKept
<1> QED
  BY <1>1, <1>2, PTL DEF Spec

\* Whatever providers answer and clients do, the consumer of executor.ts gets
\* the content of one hop only, and every record keeps its type: the counters of
\* the guard stay within UPSTREAM_MAX_CONCURRENCY, the retries within MAX_RETRIES.
THEOREM NothingIsSpliced == Spec => []NoSplice
<1>1. ResilienceIInv => NoSplice
  <2> SUFFICES ASSUME ResilienceIInv PROVE NoSplice
    OBVIOUS
  <2>1. /\ inFlight \in [Providers -> Nat] /\ queue \in [Providers -> Seq(Requests)]
        /\ \A p \in Providers : inFlight[p] <= MaxConcurrent
    BY DEF ResilienceIInv, Guard!ShedSafe, Guard!TypeOK, Guard!WithinLimit
  <2>2. inFlight \in [Providers -> 0 .. MaxConcurrent]
    BY <2>1, HopsAssumption
  <2>3. ASSUME NEW r \in Requests PROVE Cardinality(req[r].out) <= 1
    <3>1. req[r].out = {} \/ req[r].out = {req[r].hop}
      BY DEF ResilienceIInv, ExecSound
    <3>2. Cardinality({}) = 0 /\ Cardinality({req[r].hop}) = 1
      BY FS_EmptySet, FS_Singleton
    <3> QED
      BY <3>1, <3>2
  <2> QED
    BY <2>1, <2>2, <2>3 DEF NoSplice, TypeOK, ResilienceIInv
<1> QED
  BY <1>1, ResilienceInductive, PTL

\* Steps of the layer are steps of the guard's specification, or none.
LEMMA GuardSimulated == Spec => Guard!Spec
<1>1. Init => Guard!Init
  BY FirstState
<1>2. ResilienceIInv /\ [Next]_vars => [Guard!Next]_Guard!vars
  BY EveryStepFits DEF StepFits
<1> QED
  BY <1>1, <1>2, ResilienceInductive, PTL DEF Spec, Guard!Spec

\* Both executors, with every exit they have, use acquire() and release() as
\* shed.ts allows: no path of executor.ts leaks a slot, gives one back twice or
\* leaves an entry in the queue.
THEOREM ExecutorsUseTheGuard == Spec => ImplementsLoadShed
<1>1. Guard!Init => Shed!Init
  BY DEF Guard!Init, Shed!Init
<1>2. [Guard!Next]_Guard!vars => [Shed!Next]_Shed!vars
  BY DEF Guard!Next, Guard!vars, Guard!Acquire, Guard!AcquireSlot, Guard!AcquireQueued, Guard!AcquireShed,
         Guard!Release, Guard!ReleaseFree, Guard!ReleaseHandoff, Guard!AbortQueued, Guard!Splice,
         Guard!AbortElsewhere, Guard!NewRequest,
         Shed!Next, Shed!vars, Shed!Acquire, Shed!AcquireSlot, Shed!AcquireQueued, Shed!AcquireShed,
         Shed!Release, Shed!ReleaseFree, Shed!ReleaseHandoff, Shed!AbortQueued, Shed!Splice,
         Shed!AbortElsewhere, Shed!NewRequest
<1>3. Guard!Spec => Shed!Spec
  BY <1>1, <1>2, PTL DEF Guard!Spec, Shed!Spec
<1> QED
  BY <1>3, GuardSimulated DEF ImplementsLoadShed

\* What the guard promises holds of it in use, under all retries, fallbacks,
\* aborts and timeouts of executor.ts: exact counters, no provider above
\* UPSTREAM_MAX_CONCURRENCY, no slot idle while a request waits for it.
THEOREM GuardHoldsInUse == Spec => []Guard!ShedSafe
<1>1. ResilienceIInv => Guard!ShedSafe
  BY DEF ResilienceIInv
<1> QED
  BY <1>1, ResilienceInductive, PTL

\* A hop that was skipped for policy reasons never hides the failure of one
\* that was tried (preferError() of executor.ts).
THEOREM SkipsNeverMask == Spec => PolicySkipNeverMasks
<1> DEFINE A == \A r \in Requests :
                    req[r].tried /\ req'[r].pc = "done" => req'[r].result \notin PolicySide
<1>1. ResilienceIInv /\ [Next]_vars => [A]_vars
  BY EveryStepFits DEF StepFits, Legal
<1> HIDE DEF A
<1>2. Spec => [][A]_vars
  BY <1>1, ResilienceInductive, PTL DEF Spec
<1> QED
  BY <1>2, PTL DEF PolicySkipNeverMasks, A

\* No adapter call of executor.ts starts once its composite signal has fired.
THEOREM AbortsStopCalls == Spec => NoCallAfterAbort
<1> DEFINE A == \A r \in Requests :
                    req[r].pc # "calling" /\ req'[r].pc = "calling" => ~ Aborted(req[r])
<1>1. ResilienceIInv /\ [Next]_vars => [A]_vars
  BY EveryStepFits DEF StepFits, Legal
<1> HIDE DEF A
<1>2. Spec => [][A]_vars
  BY <1>1, ResilienceInductive, PTL DEF Spec
<1> QED
  BY <1>2, PTL DEF NoCallAfterAbort, A

\* An answer that a fallback gave has left its fallback_hop row, which
\* auditHop() wrote before that hop's first call.
THEOREM FallbacksAreAudited == Spec => FallbackAudited
<1> DEFINE A == \A r \in Requests :
                    req[r].hop > 1 /\ req[r].pc # "done" /\ req'[r].result = "ok" => req[r].audited
<1>1. ResilienceIInv /\ [Next]_vars => [A]_vars
  BY EveryStepFits DEF StepFits, Legal
<1> HIDE DEF A
<1>2. Spec => [][A]_vars
  BY <1>1, ResilienceInductive, PTL DEF Spec
<1> QED
  BY <1>2, PTL DEF FallbackAudited, A

\* Callers of executor.ts that wait for a provider's slot get it in the order
\* they came, whatever the other callers do meanwhile.
THEOREM WaitersKeepTheirTurn == Spec => Guard!NoOvertaking
BY GuardSimulated, GuardAssumption, Guard!FirstComeFirstServed

\* Seen from outside, executor.ts with shed.ts is a pool of
\* UPSTREAM_MAX_CONCURRENCY slots per provider that executions take, give back
\* and hand on: the refinement of the guard's theorem, carried over to its use.
THEOREM SlotsArePooled == Spec => Guard!ImplementsSlotPool
BY GuardSimulated, GuardAssumption, Guard!Refinement

=============================================================================

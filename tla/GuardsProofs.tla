---------------------------- MODULE GuardsProofs ----------------------------
(***************************************************************************)
(* Proofs about the parts of the router that guard it with a state of      *)
(* their own: circuit breakers, rate limits, the response cache, console   *)
(* sessions, policy administration with the engine's cache, and the life   *)
(* of the process.                                                         *)
(***************************************************************************)
EXTENDS BreakerCalls, RateLimiter, ResponseCache, Sessions, PolicyAdmin, Server, ArrayProofs

-----------------------------------------------------------------------------
(* The circuit breaker of one provider, for any set of callers, any window  *)
(* length, sample minimum, threshold and open duration.                    *)

\* The outcomes of a window, oldest first.
Aged(s) == \A i, j \in 1 .. Len(s) : i < j => s[i].age >= s[j].age

\* outcomes.filter(o => o.ok) keeps outcomes, and their order.
LEMMA FilterAged ==
    ASSUME NEW s \in Seq(Outcome), Aged(s), NEW T
    PROVE  Filter(s, T) \in Seq(Outcome) /\ Aged(Filter(s, T))
<1> DEFINE t == Filter(s, T)
<1>1. /\ t \in Seq(Outcome)
      /\ \E f \in [1 .. Len(t) -> 1 .. Len(s)] :
            /\ \A k \in 1 .. Len(t) : t[k] = s[f[k]]
            /\ \A k, l \in 1 .. Len(t) : k < l => f[k] < f[l]
  BY FilterKeeps
<1> HIDE DEF t
<1>2. PICK f \in [1 .. Len(t) -> 1 .. Len(s)] :
            /\ \A k \in 1 .. Len(t) : t[k] = s[f[k]]
            /\ \A k, l \in 1 .. Len(t) : k < l => f[k] < f[l]
  BY <1>1
<1>3. \A k \in 1 .. Len(t) : f[k] \in 1 .. Len(s)
  BY <1>2
<1>4. Aged(t)
  BY <1>2, <1>3 DEF Aged
<1> QED
  BY <1>1, <1>4 DEF t

\* prune() keeps outcomes and their order, leaves none that has expired, and
\* keeps the one record() has just pushed.
LEMMA PruneAged ==
    ASSUME NEW s \in Seq(Outcome), Aged(s)
    PROVE  /\ Prune(s) \in Seq(Outcome)
           /\ Aged(Prune(s))
           /\ \A i \in 1 .. Len(Prune(s)) : Prune(s)[i].age <= WindowMs
           /\ Len(s) > 0 /\ s[Len(s)].age = 0 =>
                Len(Prune(s)) > 0 /\ Prune(s)[Len(Prune(s))] = s[Len(s)]
<1> DEFINE live == {i \in 1 .. Len(s) : s[i].age <= WindowMs}
           first == IF live = {} THEN Len(s) + 1
                    ELSE CHOOSE i \in live : \A j \in live : i <= j
<1>1. Len(s) \in Nat /\ live \subseteq 1 .. Len(s) /\ live \subseteq Nat
  OBVIOUS
<1>2. /\ first \in 1 .. (Len(s) + 1)
      /\ first <= Len(s) => first \in live
      /\ \A j \in live : first <= j
  <2>1. CASE live = {}
    BY <2>1, <1>1
  <2>2. CASE live # {}
    <3> HIDE DEF live
    <3>1. \E i \in live : \A j \in live : i <= j
      BY <1>1, <2>2, LeastNatural
    <3>2. first \in live /\ \A j \in live : first <= j
      BY <3>1, <2>2
    <3> HIDE DEF first
    <3> QED
      BY <3>2, <1>1
  <2> QED
    BY <2>1, <2>2
<1>3. Prune(s) = SubSeq(s, first, Len(s))
  BY DEF Prune
<1> HIDE DEF first
<1>4. /\ Prune(s) \in Seq(Outcome)
      /\ Len(Prune(s)) = Len(s) - first + 1
      /\ \A i \in 1 .. (Len(s) - first + 1) : Prune(s)[i] = s[first + i - 1]
  BY <1>1, <1>2, <1>3
<1>5. \A i \in 1 .. Len(s) : s[i] \in Outcome /\ s[i].age \in Int
  <2>1. \A i \in 1 .. Len(s) : s[i] \in Outcome
    OBVIOUS
  <2>2. \A o \in Outcome : o.age \in Int
    BY BreakerAssumption DEF Outcome
  <2> QED
    BY <2>1, <2>2
<1>6. Aged(Prune(s))
  <2> SUFFICES ASSUME NEW i \in 1 .. Len(Prune(s)), NEW j \in 1 .. Len(Prune(s)), i < j
               PROVE  Prune(s)[i].age >= Prune(s)[j].age
    BY DEF Aged
  <2>1. /\ first + i - 1 \in 1 .. Len(s) /\ first + j - 1 \in 1 .. Len(s)
        /\ first + i - 1 < first + j - 1
        /\ Prune(s)[i] = s[first + i - 1] /\ Prune(s)[j] = s[first + j - 1]
    BY <1>1, <1>2, <1>4
  <2> QED
    BY <2>1 DEF Aged
<1>7. \A i \in 1 .. Len(Prune(s)) : Prune(s)[i].age <= WindowMs
  <2> SUFFICES ASSUME NEW i \in 1 .. Len(Prune(s)) PROVE Prune(s)[i].age <= WindowMs
    OBVIOUS
  <2>1. /\ first \in 1 .. Len(s) /\ s[first].age <= WindowMs
        /\ first + i - 1 \in 1 .. Len(s) /\ Prune(s)[i] = s[first + i - 1]
        /\ first <= first + i - 1
    BY <1>1, <1>2, <1>4
  <2>2. s[first].age >= s[first + i - 1].age
    BY <2>1, <1>5 DEF Aged
  <2> QED
    BY SMTT(30), <2>1, <2>2, <1>5, BreakerAssumption
<1>8. ASSUME Len(s) > 0, s[Len(s)].age = 0
      PROVE  Len(Prune(s)) > 0 /\ Prune(s)[Len(Prune(s))] = s[Len(s)]
  <2>1. Len(s) \in live
    BY <1>8, <1>1, BreakerAssumption
  <2>2. first <= Len(s)
    BY <2>1, <1>2
  <2>3. Len(s) - first + 1 \in 1 .. (Len(s) - first + 1) /\ first + (Len(s) - first + 1) - 1 = Len(s)
    BY <2>2, <1>1, <1>2
  <2> QED
    BY <2>3, <1>4
<1> QED
  BY <1>4, <1>6, <1>7, <1>8

-----------------------------------------------------------------------------
\* Every window is a record of the four fields of breaker.ts.
LEMMA WindowFields ==
    ASSUME NEW w \in Window
    PROVE  /\ w.outcomes \in Seq(Outcome) /\ w.state \in BreakerState
           /\ w.openedAge \in 0 .. OpenDurationMs /\ w.probe \in BOOLEAN
  BY DEF Window

\* record() up to its state machine: the outcome is pushed and the expired
\* ones leave, nothing else changes.
LEMMA PushFacts ==
    ASSUME NEW w \in Window, Aged(w.outcomes), NEW ok \in BOOLEAN
    PROVE  /\ Push(w, ok) \in Window
           /\ Push(w, ok).state = w.state /\ Push(w, ok).probe = w.probe
           /\ Push(w, ok).openedAge = w.openedAge
           /\ Aged(Push(w, ok).outcomes)
           /\ \A i \in 1 .. Len(Push(w, ok).outcomes) : Push(w, ok).outcomes[i].age <= WindowMs
           /\ Len(Push(w, ok).outcomes) > 0
           /\ Push(w, ok).outcomes[Len(Push(w, ok).outcomes)] = [ok |-> ok, age |-> 0]
<1> DEFINE o == [ok |-> ok, age |-> 0]
           s == w.outcomes
           t == Append(s, o)
<1>1. s \in Seq(Outcome) /\ Len(s) \in Nat
  BY WindowFields
<1>2. o \in Outcome /\ o.age = 0
  BY BreakerAssumption DEF Outcome
<1>3. \A i \in 1 .. Len(s) : s[i] \in Outcome /\ s[i].age \in Nat
  <2>1. \A x \in Outcome : x.age \in Nat
    BY BreakerAssumption DEF Outcome
  <2>2. \A i \in 1 .. Len(s) : s[i] \in Outcome
    BY <1>1
  <2> QED
    BY <2>1, <2>2
<1> HIDE DEF o, s
<1>4. /\ t \in Seq(Outcome) /\ Len(t) = Len(s) + 1 /\ t[Len(t)] = o
      /\ \A i \in 1 .. Len(s) : t[i] = s[i]
  BY <1>1, <1>2
<1>5. Aged(s)
  BY DEF s
<1> HIDE DEF t
<1>6. Aged(t)
  <2> SUFFICES ASSUME NEW i \in 1 .. Len(t), NEW j \in 1 .. Len(t), i < j
               PROVE  t[i].age >= t[j].age
    BY DEF Aged
  <2>1. CASE j = Len(t)
    BY <2>1, <1>1, <1>2, <1>3, <1>4
  <2>2. CASE j # Len(t)
    BY <2>2, <1>1, <1>4, <1>5 DEF Aged
  <2> QED
    BY <2>1, <2>2
<1>7. /\ Prune(t) \in Seq(Outcome) /\ Aged(Prune(t))
      /\ \A i \in 1 .. Len(Prune(t)) : Prune(t)[i].age <= WindowMs
      /\ Len(Prune(t)) > 0 /\ Prune(t)[Len(Prune(t))] = o
  BY <1>1, <1>2, <1>4, <1>6, PruneAged
<1>8. Push(w, ok) = [w EXCEPT !.outcomes = Prune(t)]
  BY DEF Push, s, t, o
<1>9. /\ Push(w, ok) \in Window /\ Push(w, ok).outcomes = Prune(t)
      /\ Push(w, ok).state = w.state /\ Push(w, ok).probe = w.probe
      /\ Push(w, ok).openedAge = w.openedAge
  BY <1>7, <1>8 DEF Window
<1> QED
  BY <1>7, <1>9 DEF o

\* What a window of breaker.ts always satisfies.
WindowSound(w) ==
    w \in Window /\ (w.state = "half_open" <=> w.probe) /\ Aged(w.outcomes)

\* record() ends a half-open period, and opens the circuit only on a failure
\* it has just pushed, from now on; otherwise openedAt stays.
LEMMA RecordFacts ==
    ASSUME NEW w, WindowSound(w), NEW ok \in BOOLEAN
    PROVE  LET v == AfterRecord(w, ok) IN
           /\ WindowSound(v)
           /\ v.state # "half_open"
           /\ IF w.state # "open" /\ v.state = "open"
              THEN /\ v.openedAge = 0
                   /\ Len(v.outcomes) > 0
                   /\ v.outcomes[Len(v.outcomes)] = [ok |-> FALSE, age |-> 0]
                   /\ w.state = "closed" =>
                        /\ Len(v.outcomes) >= MinSamples
                        /\ \A i \in 1 .. Len(v.outcomes) : v.outcomes[i].age <= WindowMs
              ELSE v.openedAge = w.openedAge
<1> DEFINE p == Push(w, ok)
           v == AfterRecord(w, ok)
<1>1. /\ w \in Window /\ Aged(w.outcomes) /\ (w.state = "half_open" <=> w.probe)
      /\ w.state \in BreakerState /\ w.probe \in BOOLEAN
  BY WindowFields DEF WindowSound
<1>2. /\ p \in Window /\ Aged(p.outcomes)
      /\ p.state = w.state /\ p.probe = w.probe /\ p.openedAge = w.openedAge
      /\ \A i \in 1 .. Len(p.outcomes) : p.outcomes[i].age <= WindowMs
      /\ Len(p.outcomes) > 0 /\ p.outcomes[Len(p.outcomes)] = [ok |-> ok, age |-> 0]
  BY <1>1, PushFacts
<1>3. p.outcomes \in Seq(Outcome)
  BY <1>2, WindowFields
<1>4. v = CASE w.state = "half_open" -> RecordHalfOpen(p, ok)
            [] w.state = "closed"    -> RecordClosed(p, ok)
            [] w.state = "open"      -> p
  BY DEF AfterRecord
<1> HIDE DEF p, v
<1> SUFFICES /\ WindowSound(v)
             /\ v.state # "half_open"
             /\ IF w.state # "open" /\ v.state = "open"
                THEN /\ v.openedAge = 0
                     /\ Len(v.outcomes) > 0
                     /\ v.outcomes[Len(v.outcomes)] = [ok |-> FALSE, age |-> 0]
                     /\ w.state = "closed" =>
                          /\ Len(v.outcomes) >= MinSamples
                          /\ \A i \in 1 .. Len(v.outcomes) : v.outcomes[i].age <= WindowMs
                ELSE v.openedAge = w.openedAge
  BY DEF v
<1>4a. 0 \in 0 .. OpenDurationMs
  BY BreakerAssumption
<1>5. CASE w.state = "half_open"
  <2>1. v = RecordHalfOpen(p, ok)
    BY <1>4, <1>5
  <2>2. CASE ok
    <3>1. v = [p EXCEPT !.probe = FALSE, !.outcomes = Filter(p.outcomes, Successes), !.state = "closed"]
      BY <2>1, <2>2 DEF RecordHalfOpen
    <3>2. Filter(p.outcomes, Successes) \in Seq(Outcome) /\ Aged(Filter(p.outcomes, Successes))
      BY <1>2, <1>3, FilterAged
    <3>3. /\ v \in Window /\ v.outcomes = Filter(p.outcomes, Successes) /\ v.state = "closed"
          /\ v.probe = FALSE /\ v.openedAge = p.openedAge
      BY <3>1, <3>2, <1>2 DEF Window, BreakerState
    <3> QED
      BY <3>2, <3>3, <1>2 DEF WindowSound
  <2>3. CASE ~ ok
    <3>1. v = [p EXCEPT !.probe = FALSE, !.openedAge = 0, !.state = "open"]
      BY <2>1, <2>3 DEF RecordHalfOpen
    <3>2. /\ v \in Window /\ v.outcomes = p.outcomes /\ v.state = "open"
          /\ v.probe = FALSE /\ v.openedAge = 0
      BY <3>1, <1>2, <1>4a DEF Window, BreakerState
    <3>3. ok = FALSE
      BY <2>3
    <3> QED
      BY <3>2, <3>3, <1>2, <1>5 DEF WindowSound
  <2> QED
    BY <2>2, <2>3
<1>6. CASE w.state = "closed"
  <2>1. v = RecordClosed(p, ok)
    BY <1>4, <1>6
  <2>2. CASE ~ ok /\ Len(p.outcomes) >= MinSamples /\ TooManyErrors(p.outcomes)
    <3>1. v = [p EXCEPT !.openedAge = 0, !.state = "open"]
      BY <2>1, <2>2 DEF RecordClosed
    <3>2. /\ v \in Window /\ v.outcomes = p.outcomes /\ v.state = "open"
          /\ v.probe = p.probe /\ v.openedAge = 0
      BY <3>1, <1>2, <1>4a DEF Window, BreakerState
    <3>3. ok = FALSE
      BY <2>2
    <3> QED
      BY <3>2, <3>3, <2>2, <1>1, <1>2, <1>6 DEF WindowSound
  <2>3. CASE ~ (~ ok /\ Len(p.outcomes) >= MinSamples /\ TooManyErrors(p.outcomes))
    <3>1. v = p
      BY <2>1, <2>3 DEF RecordClosed
    <3> QED
      BY <3>1, <1>1, <1>2, <1>6 DEF WindowSound
  <2> QED
    BY <2>2, <2>3
<1>7. CASE w.state = "open"
  <2>1. v = p
    BY <1>4, <1>7
  <2> QED
    BY <2>1, <1>1, <1>2, <1>7 DEF WindowSound
<1> QED
  BY <1>1, <1>5, <1>6, <1>7 DEF BreakerState

\* Time ages every outcome alike, so they stay in order.
LEMMA TickFacts ==
    ASSUME NEW w, WindowSound(w)
    PROVE  /\ WindowSound(AfterTick(w))
           /\ AfterTick(w).state = w.state
           /\ AfterTick(w).openedAge = Older(w.openedAge, OpenDurationMs)
<1> DEFINE s == w.outcomes
           t == [i \in 1 .. Len(s) |-> [s[i] EXCEPT !.age = Older(s[i].age, WindowMs + 1)]]
           v == AfterTick(w)
<1>1. w \in Window /\ Aged(s) /\ s \in Seq(Outcome) /\ w.openedAge \in 0 .. OpenDurationMs
  BY WindowFields DEF WindowSound
<1>2. /\ DOMAIN s = 1 .. Len(s) /\ Len(s) \in Nat
      /\ \A i \in 1 .. Len(s) : s[i] \in Outcome
  BY <1>1
<1>3. \A x \in Outcome :
        /\ [x EXCEPT !.age = Older(x.age, WindowMs + 1)] \in Outcome
        /\ [x EXCEPT !.age = Older(x.age, WindowMs + 1)].age = Older(x.age, WindowMs + 1)
        /\ x.age \in 0 .. (WindowMs + 1)
  BY BreakerAssumption DEF Outcome, Older
<1>4. v = [w EXCEPT !.outcomes = t, !.openedAge = Older(w.openedAge, OpenDurationMs)]
  BY DEF AfterTick
<1> HIDE DEF s, v
<1>5. /\ t \in Seq(Outcome) /\ Len(t) = Len(s)
      /\ \A i \in 1 .. Len(s) : t[i].age = Older(s[i].age, WindowMs + 1)
  <2> DEFINE e(i) == [s[i] EXCEPT !.age = Older(s[i].age, WindowMs + 1)]
  <2>1. \A i \in 1 .. Len(s) : e(i) \in Outcome /\ e(i).age = Older(s[i].age, WindowMs + 1)
    BY <1>2, <1>3
  <2>2. t = [i \in 1 .. Len(s) |-> e(i)]
    OBVIOUS
  <2> HIDE DEF e, t
  <2> QED
    BY <1>2, <2>1, <2>2
<1> HIDE DEF t
<1>6. Aged(t)
  <2> SUFFICES ASSUME NEW i \in 1 .. Len(s), NEW j \in 1 .. Len(s), i < j
               PROVE  t[i].age >= t[j].age
    BY <1>5 DEF Aged
  <2>1. /\ s[i].age \in 0 .. (WindowMs + 1) /\ s[j].age \in 0 .. (WindowMs + 1)
        /\ s[i].age >= s[j].age
    BY <1>1, <1>2, <1>3 DEF Aged
  <2> QED
    BY <2>1, <1>5, BreakerAssumption DEF Older
<1>7. Older(w.openedAge, OpenDurationMs) \in 0 .. OpenDurationMs
  BY <1>1, BreakerAssumption DEF Older
<1>8. /\ v \in Window /\ v.outcomes = t /\ v.state = w.state /\ v.probe = w.probe
      /\ v.openedAge = Older(w.openedAge, OpenDurationMs)
  BY <1>1, <1>4, <1>5, <1>7 DEF Window
<1> QED
  BY <1>6, <1>8 DEF WindowSound, v

-----------------------------------------------------------------------------
\* The inductive invariant: what BreakerSafe says of the window, of the callers
\* and of the two together, and that the history variable agrees with the
\* window's own record of its last opening.
BreakerIInv ==
    /\ WindowSound(win)
    /\ call \in [Callers -> {"idle", "admitted", "probing"}]
    /\ sinceOpen \in 0 .. OpenDurationMs
    /\ win.openedAge = sinceOpen
    /\ \A c, d \in Callers : call[c] = "probing" /\ call[d] = "probing" => c = d
    /\ \A c \in Callers : call[c] = "probing" => win.state = "half_open"

\* In a sound window prune() leaves no expired outcome.
LEMMA BreakerIInvSafe == BreakerIInv => BreakerSafe
<1>1. WindowSound(win) =>
        \A i \in 1 .. Len(Prune(win.outcomes)) : Prune(win.outcomes)[i].age <= WindowMs
  BY WindowFields, PruneAged DEF WindowSound
<1> QED
  BY <1>1 DEF BreakerIInv, BreakerSafe, BreakerTypeOK, WindowSound, Aged

\* A provider's first window, before any call.
LEMMA BreakerInitSafe == BreakerInit => BreakerIInv
<1> SUFFICES ASSUME BreakerInit PROVE BreakerIInv
  OBVIOUS
<1>1. /\ win.outcomes = <<>> /\ win.state = "closed" /\ win.probe = FALSE
      /\ win.openedAge = OpenDurationMs
  BY DEF BreakerInit, NewWindow
<1>2. win \in Window
  BY BreakerAssumption DEF BreakerInit, NewWindow, Window, BreakerState
<1>3. Aged(win.outcomes)
  BY <1>1 DEF Aged
<1>4. /\ call \in [Callers -> {"idle", "admitted", "probing"}]
      /\ sinceOpen \in 0 .. OpenDurationMs /\ sinceOpen = OpenDurationMs
      /\ \A c \in Callers : call[c] # "probing"
  BY BreakerAssumption DEF BreakerInit
<1> QED
  BY <1>1, <1>2, <1>3, <1>4 DEF WindowSound, BreakerIInv

\* allow() lets a caller through as a probe only from the open state, when no
\* other caller is one.
LEMMA AllowSafe ==
    ASSUME BreakerIInv, NEW c \in Callers, Allow(c)
    PROVE  BreakerIInv'
<1>1. /\ WindowSound(win) /\ win \in Window /\ win.state \in BreakerState
      /\ win.probe \in BOOLEAN /\ win.state = "half_open" <=> win.probe
      /\ Aged(win.outcomes)
      /\ call \in [Callers -> {"idle", "admitted", "probing"}]
      /\ sinceOpen \in 0 .. OpenDurationMs /\ win.openedAge = sinceOpen
      /\ \A x, y \in Callers : call[x] = "probing" /\ call[y] = "probing" => x = y
      /\ \A x \in Callers : call[x] = "probing" => win.state = "half_open"
  BY WindowFields DEF BreakerIInv, WindowSound
<1>2. sinceOpen' = sinceOpen
  BY DEF Allow
<1>3. CASE win.state = "closed"
  <2>1. win' = win /\ call' = [call EXCEPT ![c] = "admitted"]
    BY <1>3 DEF Allow, AfterAllow
  <2> QED
    BY <1>1, <1>2, <1>3, <2>1 DEF BreakerIInv
<1>4. CASE win.state = "open"
  <2>1. /\ win' = [win EXCEPT !.state = "half_open", !.probe = TRUE]
        /\ call' = [call EXCEPT ![c] = "probing"]
    BY <1>4 DEF Allow, AfterAllow
  <2>2. /\ win' \in Window /\ win'.outcomes = win.outcomes /\ win'.state = "half_open"
        /\ win'.probe = TRUE /\ win'.openedAge = win.openedAge
    BY <1>1, <2>1 DEF Window, BreakerState
  <2>3. WindowSound(win)'
    BY <1>1, <2>2 DEF WindowSound
  <2>4. \A x \in Callers : call[x] # "probing"
    BY <1>1, <1>4
  <2>5. /\ call' \in [Callers -> {"idle", "admitted", "probing"}]
        /\ \A x \in Callers : call'[x] = "probing" => x = c
    BY <1>1, <2>1, <2>4
  <2> QED
    BY <1>1, <1>2, <2>2, <2>3, <2>5 DEF BreakerIInv
<1>5. CASE win.state = "half_open"
  <2>1. win.probe
    BY <1>5, Zenon DEF BreakerIInv, WindowSound
  <2>2. ~ win.probe
    BY <1>5, Zenon DEF Allow, Allowed
  <2> QED
    BY <2>1, <2>2
<1> QED
  BY <1>1, <1>3, <1>4, <1>5 DEF BreakerState

\* record() by any admitted caller leaves no probe behind.
LEMMA RecordSafe ==
    ASSUME BreakerIInv, NEW c \in Callers, NEW ok \in BOOLEAN,
           NEW s \in {"idle", "admitted"}, Record(c, ok, s)
    PROVE  BreakerIInv'
<1>1. /\ WindowSound(win)
      /\ call \in [Callers -> {"idle", "admitted", "probing"}]
      /\ sinceOpen \in 0 .. OpenDurationMs /\ win.openedAge = sinceOpen
      /\ \A x \in Callers : call[x] = "probing" => win.state = "half_open"
  BY DEF BreakerIInv
<1>2. win' = AfterRecord(win, ok)
  BY DEF Record
<1>3. /\ WindowSound(win)'
      /\ win'.openedAge = IF win.state # "open" /\ win'.state = "open" THEN 0 ELSE win.openedAge
  BY <1>1, <1>2, RecordFacts DEF WindowSound
<1>4. sinceOpen' = win'.openedAge
  BY <1>1, <1>3 DEF Record
<1>5. win'.openedAge \in 0 .. OpenDurationMs
  BY <1>3, WindowFields DEF WindowSound
<1>6. /\ call' \in [Callers -> {"idle", "admitted", "probing"}]
      /\ \A x \in Callers : call'[x] # "probing"
  BY <1>1 DEF Record
<1> QED
  BY <1>3, <1>4, <1>5, <1>6 DEF BreakerIInv

\* Every step of the callers and the clock keeps the invariant.
LEMMA BreakerStepSafe ==
    ASSUME BreakerIInv, [BreakerNext]_breakerVars
    PROVE  BreakerIInv'
<1>1. ASSUME NEW c \in Callers, Allow(c) PROVE BreakerIInv'
  BY <1>1, AllowSafe
<1>2. ASSUME NEW c \in Callers, Finish(c) PROVE BreakerIInv'
  BY <1>2, RecordSafe DEF Finish
<1>3. ASSUME NEW c \in Callers, Retry(c) PROVE BreakerIInv'
  BY <1>3, RecordSafe DEF Retry
<1>4. ASSUME NEW c \in Callers, Abandon(c) PROVE BreakerIInv'
  BY <1>4 DEF Abandon, BreakerIInv, WindowSound
<1>5. CASE Tick
  <2>1. /\ WindowSound(win) /\ sinceOpen \in 0 .. OpenDurationMs /\ win.openedAge = sinceOpen
    BY DEF BreakerIInv
  <2>2. /\ WindowSound(win)' /\ win'.state = win.state
        /\ win'.openedAge = Older(win.openedAge, OpenDurationMs)
    BY <1>5, <2>1, TickFacts DEF Tick, WindowSound
  <2>3. sinceOpen' = win'.openedAge /\ call' = call
    BY <1>5, <2>1, <2>2 DEF Tick
  <2>4. win'.openedAge \in 0 .. OpenDurationMs
    BY <2>2, WindowFields DEF WindowSound
  <2> QED
    BY <2>2, <2>3, <2>4 DEF BreakerIInv
<1>6. CASE UNCHANGED breakerVars
  BY <1>6 DEF breakerVars, BreakerIInv, WindowSound
<1> QED
  BY <1>1, <1>2, <1>3, <1>4, <1>5, <1>6 DEF BreakerNext

\* For any callers and any breaker settings: one probe at a time, only in the
\* half-open state and exactly while halfOpenProbeInFlight is set, and a
\* window that is oldest first and free of expired outcomes once pruned.
THEOREM BreakerIsSafe == BreakerSpec => []BreakerSafe
<1>1. BreakerInit => BreakerIInv
  BY BreakerInitSafe
<1>2. BreakerIInv /\ [BreakerNext]_breakerVars => BreakerIInv'
  BY BreakerStepSafe
<1>3. BreakerIInv => BreakerSafe
  BY BreakerIInvSafe
<1> QED
  BY <1>1, <1>2, <1>3, PTL DEF BreakerSpec

\* The history variable of the model is the breaker's own openedAt: what
\* OpensAndRests says of time is about the code's clock.
THEOREM OpenedAgeIsExact == BreakerSpec => [](win.openedAge = sinceOpen)
<1>1. BreakerInit => BreakerIInv
  BY BreakerInitSafe
<1>2. BreakerIInv /\ [BreakerNext]_breakerVars => BreakerIInv'
  BY BreakerStepSafe
<1>3. BreakerIInv => win.openedAge = sinceOpen
  BY DEF BreakerIInv
<1> QED
  BY <1>1, <1>2, <1>3, PTL DEF BreakerSpec

\* The circuit opens only on a fresh failure that its samples support, and
\* nobody gets through an open circuit before BREAKER_OPEN_MS has passed since
\* its latest opening.
THEOREM BreakerOpensAndRests == BreakerSpec => OpensAndRests
<1> DEFINE Evidence ==
             win.state # "open" /\ win'.state = "open" =>
                LET s == win'.outcomes IN
                /\ Len(s) > 0 /\ s[Len(s)] = [ok |-> FALSE, age |-> 0]
                /\ win.state = "closed" =>
                    Len(s) >= MinSamples /\ \A i \in 1 .. Len(s) : s[i].age <= WindowMs
           Rest ==
             win.state # "closed" /\ (\E c \in Callers : call[c] = "idle" /\ call'[c] = "probing") =>
                sinceOpen = OpenDurationMs
<1>1. BreakerInit => BreakerIInv
  BY BreakerInitSafe
<1>2. BreakerIInv /\ [BreakerNext]_breakerVars => BreakerIInv'
  BY BreakerStepSafe
<1>3. ASSUME BreakerIInv, [BreakerNext]_breakerVars
      PROVE  [Evidence /\ Rest]_breakerVars
  <2>1. ASSUME NEW c \in Callers, Allow(c) PROVE Evidence /\ Rest
    <3>1. Evidence
      <4>1. win'.state = win.state \/ win'.state = "half_open"
        <5>1. win' = win \/ win' = [win EXCEPT !.state = "half_open", !.probe = TRUE]
          BY <2>1 DEF Allow, AfterAllow
        <5> QED
          BY <1>3, <5>1 DEF BreakerIInv, WindowSound, Window
      <4> QED
        BY <4>1
    <3>2. CASE win.state = "open"
      <4>1. win.openedAge >= OpenDurationMs
        BY <2>1, <3>2 DEF Allow, Allowed
      <4>2. sinceOpen = OpenDurationMs
        BY <1>3, <4>1, BreakerAssumption DEF BreakerIInv
      <4> QED
        BY <4>2, <3>1
    <3>3. CASE win.state = "half_open"
      <4>1. win.probe
        BY <1>3, <3>3, Zenon DEF BreakerIInv, WindowSound
      <4>2. ~ win.probe
        BY <2>1, <3>3, Zenon DEF Allow, Allowed
      <4> QED
        BY <4>1, <4>2
    <3>4. CASE win.state = "closed"
      BY <3>4, <3>1
    <3>5. win.state \in BreakerState
      BY <1>3, WindowFields DEF BreakerIInv, WindowSound
    <3> QED
      BY <3>2, <3>3, <3>4, <3>5 DEF BreakerState
  <2>2. ASSUME NEW c \in Callers, NEW ok \in BOOLEAN, NEW s \in {"idle", "admitted"},
               Record(c, ok, s)
        PROVE  Evidence /\ Rest
    <3>1. WindowSound(win) /\ win' = AfterRecord(win, ok)
      BY <1>3, <2>2 DEF BreakerIInv, Record
    <3>2. Evidence
      BY <3>1, RecordFacts
    <3>3. \A x \in Callers : call'[x] = "probing" => call[x] = "probing"
      BY <2>2 DEF Record, BreakerIInv
    <3> QED
      BY <3>2, <3>3
  <2>3. ASSUME NEW c \in Callers, Finish(c) PROVE Evidence /\ Rest
    BY <2>3, <2>2 DEF Finish
  <2>4. ASSUME NEW c \in Callers, Retry(c) PROVE Evidence /\ Rest
    BY <2>4, <2>2 DEF Retry
  <2>5. ASSUME NEW c \in Callers, Abandon(c) PROVE Evidence /\ Rest
    BY <2>5 DEF Abandon, BreakerIInv
  <2>6. CASE Tick
    <3>1. win'.state = win.state
      BY <1>3, <2>6, TickFacts DEF Tick, BreakerIInv
    <3> QED
      BY <2>6, <3>1 DEF Tick
  <2> HIDE DEF Evidence, Rest
  <2> QED
    BY <1>3, <2>1, <2>3, <2>4, <2>5, <2>6 DEF BreakerNext
<1>4. BreakerSpec => [][Evidence /\ Rest]_breakerVars
  <2> HIDE DEF Evidence, Rest
  <2> QED
    BY <1>1, <1>2, <1>3, PTL DEF BreakerSpec
<1> QED
  BY <1>4, PTL DEF OpensAndRests

-----------------------------------------------------------------------------
(* The rate limiter.                                                       *)

\* A bucket that exists has been looked at; one that has been refused has
\* what it lacks by the time it was told.
LimiterIInv ==
    /\ RateLimiterTypeOK
    /\ \A k \in BucketKeys : bucket[k].idle = -1 => bucket[k] = NoBucket
    /\ \A k \in BucketKeys : Refilled(bucket[k]) = level[k]
    /\ advised \in [BucketKeys -> Int]
    /\ \A k \in BucketKeys :
        advised[k] >= -1 /\ (advised[k] >= 0 => level[k] + advised[k] * Rate >= Unit)

\* More ticks refill more.
LEMMA MoreIsMore ==
    ASSUME NEW a \in Nat, NEW b \in Nat, a <= b
    PROVE  a * Rate <= b * Rate /\ a * Rate \in Nat
BY RateLimiterAssumption, SMT

\* Retry-After is rounded up: it is positive, and enough.
LEMMA WaitSuffices ==
    ASSUME NEW units \in Nat
    PROVE  /\ Wait(units) \in Nat
           /\ units + Wait(units) * Rate >= Unit
           /\ units < Unit => Wait(units) > 0
<1> USE RateLimiterAssumption
<1>1. CASE units >= Unit
  BY <1>1 DEF Wait
<1>2. CASE units < Unit
  <2> DEFINE n == Unit - units + Rate - 1
             w == n \div Rate
  <2>1. n \in Nat /\ n >= Rate /\ Rate \in Nat \ {0}
    BY <1>2
  <2>2. w \in Nat /\ w * Rate <= n /\ n < (w + 1) * Rate
    <3> HIDE DEF n
    <3> QED
      BY <2>1
  <2>3. w > 0
    BY <2>1, <2>2
  <2>4. (w + 1) * Rate = w * Rate + Rate /\ w * Rate \in Nat
    BY <2>2
  <2>5. units + w * Rate >= Unit
    <3> HIDE DEF w
    <3> QED
      BY <2>2, <2>4
  <2>6. Wait(units) = w
    BY <1>2 DEF Wait
  <2> QED
    BY <2>2, <2>3, <2>5, <2>6
<1> QED
  BY <1>1, <1>2

\* What one refilled bucket is worth.
LEMMA RefilledFits ==
    ASSUME NEW b \in [units : 0..Burst, idle : -1..(MaxIdle + 1)], b.idle = -1 => b = NoBucket
    PROVE  /\ Refilled(b) \in 0..Burst
           /\ b.idle >= MaxIdle => Refilled(b) = Burst
           /\ b # NoBucket => b.idle >= 0 /\ b.idle * Rate \in Nat
<1> USE RateLimiterAssumption
<1>1. b = NoBucket \/ b.idle \in Nat
  OBVIOUS
<1>2. CASE b = NoBucket
  BY <1>2 DEF Refilled, NoBucket
<1>3. CASE b # NoBucket
  <2>1. b.idle \in Nat /\ b.idle * Rate \in Nat /\ b.units \in 0..Burst
    BY <1>1, <1>3, MoreIsMore
  <2>2. b.idle >= MaxIdle => b.idle * Rate >= Burst
    BY <2>1, MoreIsMore
  <2>3. Refilled(b) = Smaller(Burst, b.units + b.idle * Rate)
    BY <1>3 DEF Refilled
  <2> QED
    BY <2>1, <2>2, <2>3 DEF Smaller
<1> QED
  BY <1>2, <1>3

\* take() refills, then spends a unit or says how long to wait.
LEMMA TakeKeeps ==
    ASSUME LimiterIInv, NEW keys, StageAuthLimits(keys)
    PROVE  LimiterIInv'
<1> USE RateLimiterAssumption
<1>1. ASSUME NEW k \in BucketKeys
      PROVE  /\ bucket'[k] \in [units : 0..Burst, idle : -1..(MaxIdle + 1)]
             /\ level'[k] \in 0..Burst /\ advised'[k] \in Int
             /\ bucket'[k].idle = -1 => bucket'[k] = NoBucket
             /\ Refilled(bucket'[k]) = level'[k]
             /\ advised'[k] >= -1 /\ (advised'[k] >= 0 => level'[k] + advised'[k] * Rate >= Unit)
  <2> DEFINE u == Refilled(bucket[k])
             b == [units |-> AfterTake(u), idle |-> 0]
  <2>1. u \in 0..Burst /\ u = level[k] /\ level[k] \in 0..Burst
    BY RefilledFits DEF LimiterIInv, RateLimiterTypeOK
  <2>2. CASE k \notin keys
    <3>1. bucket'[k] = bucket[k] /\ level'[k] = level[k] /\ advised'[k] = advised[k]
      BY <2>2 DEF StageAuthLimits
    <3> QED
      BY <3>1 DEF LimiterIInv, RateLimiterTypeOK
  <2>3. CASE k \in keys
    <3>1. /\ bucket'[k] = b /\ level'[k] = AfterTake(u)
          /\ advised'[k] = IF u >= Unit THEN -1 ELSE Wait(u)
      BY <2>1, <2>3 DEF StageAuthLimits
    <3> HIDE DEF u
    <3>2. AfterTake(u) \in 0..Burst
      BY <2>1 DEF AfterTake
    <3>3. Refilled(b) = AfterTake(u)
      <4>1. b # NoBucket /\ b.idle = 0 /\ b.units = AfterTake(u)
        BY DEF NoBucket
      <4>2. 0 * Rate = 0
        OBVIOUS
      <4> HIDE DEF b
      <4> QED
        BY <3>2, <4>1, <4>2 DEF Refilled, Smaller
    <3>4. b \in [units : 0..Burst, idle : -1..(MaxIdle + 1)] /\ b.idle # -1
      BY <3>2
    <3>5. u < Unit => AfterTake(u) = u
      BY <2>1 DEF AfterTake
    <3> HIDE DEF b
    <3> QED
      BY <2>1, <3>1, <3>2, <3>3, <3>4, <3>5, WaitSuffices
  <2> QED
    BY <2>2, <2>3
<1>2. /\ bucket' = [k \in BucketKeys |-> bucket'[k]] /\ level' = [k \in BucketKeys |-> level'[k]]
      /\ advised' = [k \in BucketKeys |-> advised'[k]]
  BY DEF StageAuthLimits
<1>3. /\ bucket' \in [BucketKeys -> [units : 0..Burst, idle : -1..(MaxIdle + 1)]]
      /\ level' \in [BucketKeys -> 0..Burst] /\ advised' \in [BucketKeys -> Int]
  BY <1>1, <1>2
<1> QED
  BY <1>1, <1>3 DEF LimiterIInv, RateLimiterTypeOK

\* prune() drops only buckets idle for so long that they are full again, as a
\* new one would be.
LEMMA PruneKeeps ==
    ASSUME LimiterIInv, PruneBuckets
    PROVE  LimiterIInv'
<1> USE RateLimiterAssumption
<1>1. NoBucket \in [units : 0..Burst, idle : -1..(MaxIdle + 1)] /\ Refilled(NoBucket) = Burst
  BY DEF NoBucket, Refilled
<1>2. ASSUME NEW k \in BucketKeys
      PROVE  /\ bucket'[k] \in [units : 0..Burst, idle : -1..(MaxIdle + 1)]
             /\ bucket'[k].idle = -1 => bucket'[k] = NoBucket
             /\ Refilled(bucket'[k]) = level[k]
  <2>1. bucket'[k] = IF bucket[k].idle > MaxIdle THEN NoBucket ELSE bucket[k]
    BY DEF PruneBuckets, Pruned
  <2>2. bucket[k].idle > MaxIdle => Refilled(bucket[k]) = Burst
    BY RefilledFits DEF LimiterIInv, RateLimiterTypeOK
  <2> QED
    BY <1>1, <2>1, <2>2 DEF LimiterIInv, RateLimiterTypeOK
<1>3. bucket' = [k \in BucketKeys |-> bucket'[k]] /\ UNCHANGED <<level, advised>>
  BY DEF PruneBuckets, Pruned
<1>4. bucket' \in [BucketKeys -> [units : 0..Burst, idle : -1..(MaxIdle + 1)]]
  BY <1>2, <1>3
<1> QED
  BY <1>2, <1>3, <1>4 DEF LimiterIInv, RateLimiterTypeOK

\* A tick is a refill that the next look accounts for.
LEMMA LimiterTickKeeps ==
    ASSUME LimiterIInv, LimiterTick
    PROVE  LimiterIInv'
<1> USE RateLimiterAssumption
<1>1. ASSUME NEW k \in BucketKeys
      PROVE  /\ bucket'[k] \in [units : 0..Burst, idle : -1..(MaxIdle + 1)]
             /\ level'[k] \in 0..Burst /\ advised'[k] \in Int
             /\ bucket'[k].idle = -1 => bucket'[k] = NoBucket
             /\ Refilled(bucket'[k]) = level'[k]
             /\ advised'[k] >= -1 /\ (advised'[k] >= 0 => level'[k] + advised'[k] * Rate >= Unit)
  <2> DEFINE i == Smaller(MaxIdle + 1, bucket[k].idle + 1)
             b == [bucket[k] EXCEPT !.idle = i]
             u == bucket[k].units
  <2>1. /\ bucket[k] \in [units : 0..Burst, idle : -1..(MaxIdle + 1)]
        /\ bucket[k].idle = -1 => bucket[k] = NoBucket
        /\ Refilled(bucket[k]) = level[k] /\ level[k] \in 0..Burst
        /\ advised[k] \in Int /\ advised[k] >= -1
        /\ advised[k] >= 0 => level[k] + advised[k] * Rate >= Unit
    BY DEF LimiterIInv, RateLimiterTypeOK
  <2>2. /\ bucket'[k] = IF bucket[k] = NoBucket THEN NoBucket ELSE b
        /\ level'[k] = Smaller(Burst, level[k] + Rate)
        /\ advised'[k] = IF advised[k] > 0 THEN advised[k] - 1 ELSE advised[k]
    BY DEF LimiterTick
  <2>3. level'[k] \in 0..Burst /\ level'[k] >= level[k] /\ (level'[k] = Burst \/ level'[k] = level[k] + Rate)
    BY <2>1, <2>2 DEF Smaller
  <2>4. advised'[k] \in Int /\ advised'[k] >= -1 /\ (advised'[k] >= 0 => level'[k] + advised'[k] * Rate >= Unit)
    <3>1. CASE advised[k] > 0
      <4> DEFINE n == advised[k] - 1
      <4>1. n \in Nat /\ advised'[k] = n /\ n * Rate \in Nat /\ (n + 1) * Rate = n * Rate + Rate
        BY <2>1, <2>2, <3>1, MoreIsMore
      <4>2. level[k] + (n + 1) * Rate >= Unit
        BY <2>1, <3>1
      <4> HIDE DEF n
      <4> QED
        BY <2>1, <2>3, <4>1, <4>2
    <3>2. CASE ~ (advised[k] > 0)
      <4>1. advised[k] = 0 \/ advised[k] = -1
        BY <2>1, <3>2
      <4>2. 0 * Rate = 0
        OBVIOUS
      <4> QED
        BY <2>1, <2>2, <2>3, <3>2, <4>1, <4>2
    <3> QED
      BY <3>1, <3>2
  <2>5. CASE bucket[k] = NoBucket
    <3>1. level[k] = Burst /\ level'[k] = Burst /\ bucket'[k] = bucket[k]
      BY <2>1, <2>2, <2>5 DEF Refilled, Smaller
    <3> QED
      BY <2>1, <2>3, <2>4, <3>1
  <2>6. CASE bucket[k] # NoBucket
    <3>1. bucket[k].idle \in 0..(MaxIdle + 1) /\ u \in 0..Burst /\ i \in 0..(MaxIdle + 1)
      BY <2>1, <2>6 DEF Smaller
    <3>2. b \in [units : 0..Burst, idle : -1..(MaxIdle + 1)] /\ b.idle = i /\ b.units = u
      BY <2>1, <3>1
    <3>3. b # NoBucket
      BY <3>1, <3>2 DEF NoBucket
    <3>4. /\ level[k] = Smaller(Burst, u + bucket[k].idle * Rate)
          /\ Refilled(b) = Smaller(Burst, u + i * Rate)
      <4> HIDE DEF b, i
      <4> QED
        BY <2>1, <2>6, <3>2, <3>3 DEF Refilled
    <3>5. CASE i = bucket[k].idle + 1
      <4>1. i * Rate = bucket[k].idle * Rate + Rate /\ bucket[k].idle * Rate \in Nat
        <5> DEFINE x == bucket[k].idle
        <5>1. x \in Nat /\ i = x + 1 /\ Rate \in Nat
          BY <2>1, <2>6, <3>1, <3>5, RateLimiterAssumption
        <5> HIDE DEF x, i
        <5>2. i * Rate = x * Rate + Rate /\ x * Rate \in Nat
          BY <5>1
        <5> QED
          BY <5>2 DEF x
      <4>2. Refilled(b) = Smaller(Burst, level[k] + Rate)
        <5> DEFINE x == bucket[k].idle * Rate
        <5>1. x \in Nat /\ level[k] = Smaller(Burst, u + x) /\ Refilled(b) = Smaller(Burst, u + (x + Rate))
          BY <3>4, <4>1
        <5> HIDE DEF b, i, u, x
        <5>2. (level[k] = Burst /\ u + x >= Burst) \/ level[k] = u + x
          BY <3>1, <5>1 DEF Smaller
        <5> QED
          BY <2>1, <3>1, <5>1, <5>2 DEF Smaller
      <4> HIDE DEF b, i, u
      <4> QED
        BY <2>2, <2>3, <2>4, <2>6, <3>1, <3>2, <4>2
    <3>6. CASE i # bucket[k].idle + 1
      <4>1. i = MaxIdle + 1 /\ bucket[k].idle >= MaxIdle
        BY <3>1, <3>6 DEF Smaller
      <4>2. Refilled(b) = Burst /\ Refilled(bucket[k]) = Burst
        <5> HIDE DEF b, i, u
        <5> QED
          BY <2>1, <3>1, <3>2, <4>1, RefilledFits
      <4> HIDE DEF b, i, u
      <4> QED
        BY <2>1, <2>2, <2>3, <2>4, <2>6, <3>1, <3>2, <4>2
    <3> QED
      BY <3>5, <3>6
  <2> QED
    BY <2>5, <2>6
<1>2. /\ bucket' = [k \in BucketKeys |-> bucket'[k]] /\ level' = [k \in BucketKeys |-> level'[k]]
      /\ advised' = [k \in BucketKeys |-> advised'[k]]
  BY DEF LimiterTick
<1>3. /\ bucket' \in [BucketKeys -> [units : 0..Burst, idle : -1..(MaxIdle + 1)]]
      /\ level' \in [BucketKeys -> 0..Burst] /\ advised' \in [BucketKeys -> Int]
  BY <1>1, <1>2
<1> QED
  BY <1>1, <1>3 DEF LimiterIInv, RateLimiterTypeOK

\* The lazily refilled and pruned buckets of limiter.ts are token buckets, and
\* Retry-After tells the truth, for every rate, cost, burst and idle limit
\* within which a bucket is refilled.
THEOREM BucketsAreTokenBuckets == RateLimiterSpec => []TokenBuckets
<1> USE RateLimiterAssumption
<1>1. RateLimiterInit => LimiterIInv
  <2> SUFFICES ASSUME RateLimiterInit PROVE LimiterIInv
    OBVIOUS
  <2>1. NoBucket \in [units : 0..Burst, idle : -1..(MaxIdle + 1)] /\ Refilled(NoBucket) = Burst
    BY DEF NoBucket, Refilled
  <2> QED
    BY <2>1 DEF RateLimiterInit, LimiterIInv, RateLimiterTypeOK
<1>2. LimiterIInv /\ [RateLimiterNext]_limiterVars => LimiterIInv'
  <2> SUFFICES ASSUME LimiterIInv, [RateLimiterNext]_limiterVars PROVE LimiterIInv'
    OBVIOUS
  <2>1. CASE UNCHANGED limiterVars
    BY <2>1 DEF limiterVars, LimiterIInv, RateLimiterTypeOK
  <2> QED
    BY <2>1, TakeKeeps, PruneKeeps, LimiterTickKeeps DEF RateLimiterNext
<1>3. LimiterIInv => TokenBuckets
  <2>1. 0 * Rate = 0
    OBVIOUS
  <2> QED
    BY <2>1 DEF LimiterIInv, TokenBuckets, RateLimiterTypeOK
<1> QED
  BY <1>1, <1>2, <1>3, PTL DEF RateLimiterSpec

-----------------------------------------------------------------------------
(* The console's sessions.                                                 *)

SessionRows == [user : Users, left : -2..TtlTicks, password : 0..MaxPasswords, straddled : BOOLEAN]
FormRows ==
    [pc : {"idle", "login", "change", "drop"}, user : Users, password : 0..MaxPasswords, straddled : BOOLEAN]

\* Session s of a user is excused for a password that is not the present one:
\* the login overlapped a change, a change is about to drop it, or the
\* installer changed the password.
Excused(s, w, F, R) ==
    s.password # w[s.user] =>
        \/ \E f \in Forms : F[f].pc = "drop" /\ F[f].user = s.user
        \/ s.straddled
        \/ s.user \in R

\* A login under way knows of the changes that have overtaken it.
Overtaken(g, w) == g.pc = "login" /\ g.password # w[g.user] => g.straddled

SessionsIInv ==
    /\ password \in [Users -> 0..MaxPasswords]
    /\ sessions \in [SessionIds -> SessionRows]
    /\ form \in [Forms -> FormRows]
    /\ \A i \in Stored : sessions[i].left >= -1
    /\ Cardinality(Stored) <= MaxSessions
    /\ \A i \in Stored : Excused(sessions[i], password, form, reapplied)
    /\ \A f \in Forms : Overtaken(form[f], password)

\* Empty slots are rows too.
LEMMA Blank ==
    /\ NoSession \in SessionRows /\ NoForm \in FormRows
    /\ NoForm.pc = "idle" /\ NoSession.left = -2
<1>1. AnyUser \in Users
  BY SessionsAssumption DEF AnyUser
<1> QED
  BY <1>1, SessionsAssumption DEF NoSession, NoForm, SessionRows, FormRows

\* The session store is finite, so its size is a number.
LEMMA StoreIsFinite ==
    ASSUME NEW T, T \subseteq SessionIds
    PROVE  IsFiniteSet(T) /\ Cardinality(T) \in Nat
BY SessionsAssumption, FS_Subset, FS_CardinalityType

\* The store shrinks: some sessions are dropped, the others keep who they are
\* of, with which password; and a change that was to drop one still is.
LEMMA Shrinks ==
    ASSUME SessionsIInv, sessions' \in [SessionIds -> SessionRows],
           form' \in [Forms -> FormRows],
           UNCHANGED password, reapplied \subseteq reapplied',
           \A i \in SessionIds : sessions'[i] # NoSession =>
               /\ i \in Stored /\ sessions'[i].left >= -1
               /\ sessions'[i].user = sessions[i].user /\ sessions'[i].password = sessions[i].password
               /\ sessions'[i].straddled = sessions[i].straddled
               /\ \A f \in Forms : form[f].pc = "drop" /\ form[f].user = sessions[i].user => form'[f] = form[f],
           \A f \in Forms : Overtaken(form'[f], password)
    PROVE  SessionsIInv'
<1>1. Stored' \subseteq Stored /\ Stored \subseteq SessionIds
  BY DEF Stored
<1>2. Cardinality(Stored') <= MaxSessions
  <2>1. Cardinality(Stored') <= Cardinality(Stored)
    BY <1>1, StoreIsFinite, FS_Subset
  <2> QED
    BY <1>1, <2>1, StoreIsFinite, SessionsAssumption DEF SessionsIInv
<1>3. \A i \in Stored' : Excused(sessions'[i], password, form', reapplied')
  <2> SUFFICES ASSUME NEW i \in Stored' PROVE Excused(sessions'[i], password, form', reapplied')
    OBVIOUS
  <2>1. /\ i \in Stored /\ sessions'[i].user = sessions[i].user /\ sessions'[i].password = sessions[i].password
        /\ sessions'[i].straddled = sessions[i].straddled
        /\ \A f \in Forms : form[f].pc = "drop" /\ form[f].user = sessions[i].user => form'[f] = form[f]
    BY DEF Stored
  <2>2. Excused(sessions[i], password, form, reapplied)
    BY <2>1 DEF SessionsIInv
  <2> QED
    BY <2>1, <2>2 DEF Excused
<1>4. \A i \in Stored' : sessions'[i].left >= -1
  BY DEF Stored
<1> QED
  BY <1>2, <1>3, <1>4 DEF SessionsIInv

\* get() slides the expiry, or removes what is past it.
LEMMA GetKeeps ==
    ASSUME SessionsIInv, NEW i \in SessionIds, Get(i)
    PROVE  SessionsIInv'
<1> DEFINE s == [sessions[i] EXCEPT !.left = TtlTicks]
<1>1. s \in SessionRows /\ s.user = sessions[i].user /\ s.password = sessions[i].password
      /\ s.straddled = sessions[i].straddled /\ s.left = TtlTicks /\ TtlTicks \in Nat
  BY SessionsAssumption DEF SessionsIInv, SessionRows
<1>2. /\ i \in Stored /\ UNCHANGED <<password, form, reapplied>>
      /\ \E d \in {NoSession, s} : sessions' = [sessions EXCEPT ![i] = d]
  BY DEF Get
<1> HIDE DEF s
<1>3. PICK d \in {NoSession, s} : sessions' = [sessions EXCEPT ![i] = d]
  BY <1>2
<1>4. d \in SessionRows
  BY <1>1, Blank
<1>5. sessions' \in [SessionIds -> SessionRows]
  BY <1>3, <1>4 DEF SessionsIInv
<1>6. sessions'[i] = d /\ \A j \in SessionIds \ {i} : sessions'[j] = sessions[j]
  BY <1>3 DEF SessionsIInv
<1>7. \A j \in SessionIds : sessions'[j] # NoSession =>
               /\ j \in Stored /\ sessions'[j].left >= -1
               /\ sessions'[j].user = sessions[j].user /\ sessions'[j].password = sessions[j].password
               /\ sessions'[j].straddled = sessions[j].straddled
               /\ \A f \in Forms : form[f].pc = "drop" /\ form[f].user = sessions[j].user => form'[f] = form[f]
  BY <1>1, <1>2, <1>6 DEF Stored, SessionsIInv
<1> QED
  BY <1>2, <1>5, <1>7, Shrinks DEF SessionsIInv

\* Logging out removes one session.
LEMMA DestroyKeeps ==
    ASSUME SessionsIInv, NEW i \in SessionIds, Destroy(i)
    PROVE  SessionsIInv'
<1>1. UNCHANGED <<password, form, reapplied>> /\ sessions' = [sessions EXCEPT ![i] = NoSession]
  BY DEF Destroy
<1>2. sessions' \in [SessionIds -> SessionRows]
  BY <1>1, Blank DEF SessionsIInv
<1>3. sessions'[i] = NoSession /\ \A j \in SessionIds \ {i} : sessions'[j] = sessions[j]
  BY <1>1 DEF SessionsIInv
<1>4. \A j \in SessionIds : sessions'[j] # NoSession =>
               /\ j \in Stored /\ sessions'[j].left >= -1
               /\ sessions'[j].user = sessions[j].user /\ sessions'[j].password = sessions[j].password
               /\ sessions'[j].straddled = sessions[j].straddled
               /\ \A f \in Forms : form[f].pc = "drop" /\ form[f].user = sessions[j].user => form'[f] = form[f]
  BY <1>1, <1>3 DEF Stored, SessionsIInv
<1> QED
  BY <1>1, <1>2, <1>4, Shrinks DEF SessionsIInv

\* A login reads the user's row before it verifies the password.
LEMMA LoginReadsKeeps ==
    ASSUME SessionsIInv, NEW f \in Forms, NEW u \in Users, LoginReads(f, u)
    PROVE  SessionsIInv'
<1> DEFINE d == [pc |-> "login", user |-> u, password |-> password[u], straddled |-> FALSE]
<1>1. form[f].pc = "idle" /\ form' = [form EXCEPT ![f] = d] /\ UNCHANGED <<password, sessions, reapplied>>
  BY DEF LoginReads
<1>2. d \in FormRows
  BY DEF SessionsIInv, FormRows
<1>3. d.password = password[d.user]
  OBVIOUS
<1> HIDE DEF d
<1>4. form' \in [Forms -> FormRows]
  BY <1>1, <1>2 DEF SessionsIInv
<1>5. form'[f] = d /\ \A g \in Forms \ {f} : form'[g] = form[g]
  BY <1>1 DEF SessionsIInv
<1>6. \A g \in Forms : Overtaken(form'[g], password)
  BY <1>3, <1>5 DEF SessionsIInv, Overtaken
<1>7. \A j \in SessionIds : sessions'[j] # NoSession =>
               /\ j \in Stored /\ sessions'[j].left >= -1
               /\ sessions'[j].user = sessions[j].user /\ sessions'[j].password = sessions[j].password
               /\ sessions'[j].straddled = sessions[j].straddled
               /\ \A g \in Forms : form[g].pc = "drop" /\ form[g].user = sessions[j].user => form'[g] = form[g]
  BY <1>1, <1>5 DEF Stored, SessionsIInv
<1>8. sessions' \in [SessionIds -> SessionRows]
  BY <1>1 DEF SessionsIInv
<1> QED
  BY <1>1, <1>4, <1>6, <1>7, <1>8, Shrinks

\* The form is over, and was not about to drop anybody's sessions.
LEMMA FormEnds ==
    ASSUME SessionsIInv, NEW f \in Forms, form' = [form EXCEPT ![f] = NoForm]
    PROVE  /\ form' \in [Forms -> FormRows]
           /\ form'[f] = NoForm /\ \A g \in Forms \ {f} : form'[g] = form[g]
           /\ \A g \in Forms : Overtaken(form'[g], password)
<1>1. form' \in [Forms -> FormRows]
  BY Blank DEF SessionsIInv
<1>2. form'[f] = NoForm /\ \A g \in Forms \ {f} : form'[g] = form[g]
  BY DEF SessionsIInv
<1> QED
  BY <1>1, <1>2, Blank DEF SessionsIInv, Overtaken

\* create() keeps the store within its cap: at the cap one session goes.
LEMMA EvictMakesRoom ==
    ASSUME SessionsIInv, NEW live, live \subseteq Stored, NEW kept \in Evict(live)
    PROVE  kept \subseteq live /\ Cardinality(kept) < MaxSessions
<1>1. Stored \subseteq SessionIds
  BY DEF Stored
<1>2. IsFiniteSet(live) /\ Cardinality(live) \in Nat /\ Cardinality(live) <= MaxSessions
  <2>1. Cardinality(live) <= Cardinality(Stored)
    BY <1>1, StoreIsFinite, FS_Subset
  <2> QED
    BY <1>1, <2>1, StoreIsFinite, SessionsAssumption DEF SessionsIInv
<1>3. CASE Cardinality(live) >= MaxSessions
  <2>1. PICK i \in live : kept = live \ {i}
    BY <1>3 DEF Evict
  <2>2. Cardinality(kept) = Cardinality(live) - 1
    BY <1>2, <2>1, FS_RemoveElement
  <2> QED
    BY <1>2, <2>1, <2>2, SessionsAssumption
<1>4. CASE ~ (Cardinality(live) >= MaxSessions)
  BY <1>2, <1>4, SessionsAssumption DEF Evict
<1> QED
  BY <1>3, <1>4

\* A login creates its session after verifying: if the row was written in
\* between, it is one of those that straddled the change.
LEMMA LoginCreatesKeeps ==
    ASSUME SessionsIInv, NEW f \in Forms, LoginCreates(f)
    PROVE  SessionsIInv'
<1> DEFINE s == [user |-> form[f].user, left |-> TtlTicks, password |-> form[f].password,
                 straddled |-> form[f].straddled]
           live == {i \in Stored : ~ Expired(i)}
           new == CHOOSE i \in SessionIds : i \notin Stored
<1>1. /\ form[f].pc = "login" /\ Create(s) /\ form' = [form EXCEPT ![f] = NoForm]
      /\ UNCHANGED <<password, reapplied>>
  BY DEF LoginCreates
<1>2. PICK kept \in Evict(live) : sessions' = [i \in SessionIds |->
                            IF i = new THEN s ELSE IF i \in kept THEN sessions[i] ELSE NoSession]
  BY <1>1 DEF Create
<1>3. kept \subseteq Stored /\ Cardinality(kept) < MaxSessions
  BY EvictMakesRoom
<1>4. new \in SessionIds /\ new \notin Stored
  <2>1. Stored \subseteq SessionIds
    BY DEF Stored
  <2>2. Stored # SessionIds
    BY SessionsAssumption, FS_CardinalityType DEF SessionsIInv
  <2> QED
    BY <2>1, <2>2
<1>5. form[f] \in FormRows
  BY DEF SessionsIInv
<1>6. /\ s \in SessionRows /\ s.left >= -1
      /\ s.user = form[f].user /\ s.password = form[f].password /\ s.straddled = form[f].straddled
  BY <1>5, SessionsAssumption DEF SessionRows, FormRows
<1> HIDE DEF s, new, live
<1>7. sessions' \in [SessionIds -> SessionRows]
  <2>1. \A i \in SessionIds : sessions'[i] \in SessionRows
    BY <1>2, <1>6, Blank DEF SessionsIInv
  <2> QED
    BY <1>2, <2>1
<1>8. /\ sessions'[new] = s
      /\ \A i \in SessionIds \ {new} : sessions'[i] = IF i \in kept THEN sessions[i] ELSE NoSession
  BY <1>2, <1>4
<1>9. Stored' \subseteq kept \cup {new}
  BY <1>8 DEF Stored
<1>10. Cardinality(Stored') <= MaxSessions
  <2>1. kept \cup {new} \subseteq SessionIds /\ new \notin kept
    BY <1>3, <1>4 DEF Stored
  <2>2. Cardinality(kept \cup {new}) = Cardinality(kept) + 1
    BY <2>1, StoreIsFinite, FS_AddElement
  <2>3. Cardinality(Stored') <= Cardinality(kept \cup {new})
    BY <1>9, <2>1, StoreIsFinite, FS_Subset
  <2>4. Cardinality(Stored') \in Nat /\ Cardinality(kept) \in Nat
    BY <1>9, <2>1, StoreIsFinite
  <2> QED
    BY <1>3, <2>2, <2>3, <2>4, SessionsAssumption
<1>11. \A g \in Forms : form[g].pc = "drop" => form'[g] = form[g]
  BY <1>1, FormEnds
<1>12. Excused(s, password, form, reapplied)
  <2>1. Overtaken(form[f], password)
    BY DEF SessionsIInv
  <2> QED
    BY <1>1, <1>6, <2>1 DEF Excused, Overtaken
<1>13. \A i \in Stored' : sessions'[i].left >= -1 /\ Excused(sessions'[i], password, form, reapplied)
  <2> SUFFICES ASSUME NEW i \in Stored'
               PROVE  sessions'[i].left >= -1 /\ Excused(sessions'[i], password, form, reapplied)
    OBVIOUS
  <2>1. CASE i = new
    BY <1>6, <1>8, <1>12, <2>1
  <2>2. CASE i # new
    <3>1. sessions'[i] = sessions[i] /\ i \in Stored
      BY <1>3, <1>8, <1>9, <2>2 DEF Stored
    <3> QED
      BY <3>1 DEF SessionsIInv
  <2> QED
    BY <2>1, <2>2
<1>14. \A i \in Stored' : Excused(sessions'[i], password, form', reapplied)
  BY <1>11, <1>13 DEF Excused
<1> QED
  BY <1>1, <1>7, <1>10, <1>13, <1>14, FormEnds DEF SessionsIInv

\* A credential change needs a live session.
LEMMA ChangeReadsKeeps ==
    ASSUME SessionsIInv, NEW f \in Forms, NEW i \in SessionIds, ChangeReads(f, i)
    PROVE  SessionsIInv'
<1> DEFINE d == [pc |-> "change", user |-> sessions[i].user, password |-> 0, straddled |-> FALSE]
           s == [sessions[i] EXCEPT !.left = TtlTicks]
<1>1. /\ form[f].pc = "idle" /\ form' = [form EXCEPT ![f] = d] /\ UNCHANGED <<password, reapplied>>
      /\ i \in Stored /\ sessions' = [sessions EXCEPT ![i] = s]
  BY DEF ChangeReads
<1>2. s \in SessionRows /\ s.user = sessions[i].user /\ s.password = sessions[i].password
      /\ s.straddled = sessions[i].straddled /\ s.left = TtlTicks /\ TtlTicks \in Nat
  BY SessionsAssumption DEF SessionsIInv, SessionRows
<1>3. d \in FormRows /\ d.pc = "change"
  BY SessionsAssumption DEF SessionsIInv, FormRows, SessionRows
<1> HIDE DEF d, s
<1>4. form' \in [Forms -> FormRows] /\ sessions' \in [SessionIds -> SessionRows]
  BY <1>1, <1>2, <1>3 DEF SessionsIInv
<1>5. /\ form'[f] = d /\ \A g \in Forms \ {f} : form'[g] = form[g]
      /\ sessions'[i] = s /\ \A j \in SessionIds \ {i} : sessions'[j] = sessions[j]
  BY <1>1 DEF SessionsIInv
<1>6. \A g \in Forms : Overtaken(form'[g], password)
  BY <1>3, <1>5 DEF SessionsIInv, Overtaken
<1>7. \A j \in SessionIds : sessions'[j] # NoSession =>
               /\ j \in Stored /\ sessions'[j].left >= -1
               /\ sessions'[j].user = sessions[j].user /\ sessions'[j].password = sessions[j].password
               /\ sessions'[j].straddled = sessions[j].straddled
               /\ \A g \in Forms : form[g].pc = "drop" /\ form[g].user = sessions[j].user => form'[g] = form[g]
  BY <1>1, <1>2, <1>5 DEF Stored, SessionsIInv
<1> QED
  BY <1>1, <1>4, <1>6, <1>7, Shrinks

\* Writing a user's hash makes the logins under way straddle it.
LEMMA WrittenFits ==
    ASSUME NEW u, NEW g \in FormRows
    PROVE  /\ Written(u, g) \in FormRows /\ Written(u, g).pc = g.pc /\ Written(u, g).user = g.user
           /\ Written(u, g).password = g.password
           /\ g.straddled => Written(u, g).straddled
           /\ g.pc = "login" /\ g.user = u => Written(u, g).straddled
BY DEF Written, FormRows

\* The row of a user is written: whoever has read it learns of it.
LEMMA WriteOvertakes ==
    ASSUME SessionsIInv, NEW u \in Users, NEW g \in FormRows, Overtaken(g, password),
           \A v \in Users \ {u} : password'[v] = password[v]
    PROVE  Overtaken(Written(u, g), password')
<1>1. g.user \in Users
  BY DEF FormRows
<1>2. CASE g.user = u
  BY <1>2, WrittenFits DEF Overtaken
<1>3. CASE g.user # u
  BY <1>1, <1>3, WrittenFits DEF Overtaken
<1> QED
  BY <1>2, <1>3

\* A credential change writes the row before it drops the sessions.
LEMMA ChangeWritesKeeps ==
    ASSUME SessionsIInv, NEW f \in Forms, ChangeWrites(f)
    PROVE  SessionsIInv'
<1> DEFINE u == form[f].user
           d == [form[f] EXCEPT !.pc = "drop"]
<1>1. /\ form[f].pc = "change" /\ UNCHANGED <<sessions, reapplied>>
      /\ form' = [g \in Forms |-> IF g = f THEN d ELSE Written(u, form[g])]
      /\ \/ password[u] < MaxPasswords /\ password' = [password EXCEPT ![u] = password[u] + 1]
         \/ UNCHANGED password
  BY DEF ChangeWrites
<1>2. form[f] \in FormRows /\ u \in Users
  BY DEF SessionsIInv, FormRows
<1>3. d \in FormRows /\ d.pc = "drop" /\ d.user = u
  BY <1>2 DEF FormRows
<1> HIDE DEF u, d
<1>4. password' \in [Users -> 0..MaxPasswords] /\ \A v \in Users \ {u} : password'[v] = password[v]
  BY <1>1, <1>2, SessionsAssumption DEF SessionsIInv
<1>5. form'[f] = d /\ \A g \in Forms \ {f} : form'[g] = Written(u, form[g]) /\ form[g] \in FormRows
  BY <1>1 DEF SessionsIInv
<1>6. form' \in [Forms -> FormRows]
  <2>1. \A g \in Forms : form'[g] \in FormRows
    BY <1>3, <1>5, WrittenFits
  <2> QED
    BY <1>1, <2>1
<1>7. \A g \in Forms : Overtaken(form'[g], password')
  BY <1>2, <1>3, <1>4, <1>5, WriteOvertakes DEF SessionsIInv, Overtaken
<1>8. \A g \in Forms : form[g].pc = "drop" => form'[g].pc = "drop" /\ form'[g].user = form[g].user
  BY <1>1, <1>5, WrittenFits
<1>9. Stored' = Stored
  BY <1>1 DEF Stored
<1>10. \A i \in Stored : Excused(sessions[i], password', form', reapplied)
  <2> SUFFICES ASSUME NEW i \in Stored PROVE Excused(sessions[i], password', form', reapplied)
    OBVIOUS
  <2>1. Excused(sessions[i], password, form, reapplied) /\ sessions[i].user \in Users
    BY DEF SessionsIInv, Stored, SessionRows
  <2>2. CASE sessions[i].user = u
    BY <1>3, <1>5, <2>2 DEF Excused
  <2>3. CASE sessions[i].user # u
    BY <1>4, <1>8, <2>1, <2>3 DEF Excused
  <2> QED
    BY <2>2, <2>3
<1> QED
  BY <1>1, <1>4, <1>6, <1>7, <1>9, <1>10 DEF SessionsIInv

\* A credential change drops all sessions of its user last.
LEMMA ChangeDropsKeeps ==
    ASSUME SessionsIInv, NEW f \in Forms, ChangeDrops(f)
    PROVE  SessionsIInv'
<1>1. /\ form' = [form EXCEPT ![f] = NoForm] /\ UNCHANGED <<password, reapplied>>
      /\ sessions' = [i \in SessionIds |-> IF sessions[i].user = form[f].user THEN NoSession ELSE sessions[i]]
  BY DEF ChangeDrops, DestroyByUser
<1>2. sessions' \in [SessionIds -> SessionRows]
  <2>1. \A i \in SessionIds : sessions'[i] \in SessionRows
    BY <1>1, Blank DEF SessionsIInv
  <2> QED
    BY <1>1, <2>1
<1>3. \A j \in SessionIds : sessions'[j] # NoSession =>
               /\ j \in Stored /\ sessions'[j].left >= -1
               /\ sessions'[j].user = sessions[j].user /\ sessions'[j].password = sessions[j].password
               /\ sessions'[j].straddled = sessions[j].straddled
               /\ \A g \in Forms : form[g].pc = "drop" /\ form[g].user = sessions[j].user => form'[g] = form[g]
  <2> SUFFICES ASSUME NEW j \in SessionIds, sessions'[j] # NoSession
               PROVE  /\ j \in Stored /\ sessions'[j].left >= -1 /\ sessions'[j] = sessions[j]
                      /\ \A g \in Forms : form[g].pc = "drop" /\ form[g].user = sessions[j].user => form'[g] = form[g]
    OBVIOUS
  <2>1. sessions'[j] = sessions[j] /\ sessions[j].user # form[f].user
    BY <1>1
  <2> QED
    BY <1>1, <2>1, FormEnds DEF Stored, SessionsIInv
<1> QED
  BY <1>1, <1>2, <1>3, FormEnds, Shrinks

\* A refused form changes nothing but itself.
LEMMA FormRefusedKeeps ==
    ASSUME SessionsIInv, NEW f \in Forms, FormRefused(f)
    PROVE  SessionsIInv'
<1>1. /\ form[f].pc # "drop" /\ form' = [form EXCEPT ![f] = NoForm]
      /\ UNCHANGED <<password, sessions, reapplied>>
  BY DEF FormRefused
<1>2. sessions' \in [SessionIds -> SessionRows]
  BY <1>1 DEF SessionsIInv
<1>3. \A j \in SessionIds : sessions'[j] # NoSession =>
               /\ j \in Stored /\ sessions'[j].left >= -1
               /\ sessions'[j].user = sessions[j].user /\ sessions'[j].password = sessions[j].password
               /\ sessions'[j].straddled = sessions[j].straddled
               /\ \A g \in Forms : form[g].pc = "drop" /\ form[g].user = sessions[j].user => form'[g] = form[g]
  BY <1>1, FormEnds DEF Stored, SessionsIInv
<1> QED
  BY <1>1, <1>2, <1>3, FormEnds, Shrinks

\* The installer's bootstrapFirm() writes the password and reaches no session.
LEMMA ReappliesKeeps ==
    ASSUME SessionsIInv, NEW u \in Users, ReappliesPassword(u)
    PROVE  SessionsIInv'
<1>1. /\ password[u] < MaxPasswords /\ password' = [password EXCEPT ![u] = password[u] + 1]
      /\ form' = [g \in Forms |-> Written(u, form[g])]
      /\ reapplied' = reapplied \cup {u} /\ UNCHANGED sessions
  BY DEF ReappliesPassword
<1>2. password' \in [Users -> 0..MaxPasswords] /\ \A v \in Users \ {u} : password'[v] = password[v]
  BY <1>1, SessionsAssumption DEF SessionsIInv
<1>3. \A g \in Forms : form'[g] = Written(u, form[g]) /\ form[g] \in FormRows
  BY <1>1 DEF SessionsIInv
<1>4. form' \in [Forms -> FormRows]
  <2>1. \A g \in Forms : form'[g] \in FormRows
    BY <1>3, WrittenFits
  <2> QED
    BY <1>1, <2>1
<1>5. \A g \in Forms : Overtaken(form'[g], password')
  BY <1>2, <1>3, WriteOvertakes DEF SessionsIInv
<1>6. \A g \in Forms : form[g].pc = "drop" => form'[g].pc = "drop" /\ form'[g].user = form[g].user
  BY <1>3, WrittenFits
<1>7. Stored' = Stored
  BY <1>1 DEF Stored
<1>8. \A i \in Stored : Excused(sessions[i], password', form', reapplied')
  <2> SUFFICES ASSUME NEW i \in Stored PROVE Excused(sessions[i], password', form', reapplied')
    OBVIOUS
  <2>1. Excused(sessions[i], password, form, reapplied) /\ sessions[i].user \in Users
    BY DEF SessionsIInv, Stored, SessionRows
  <2> QED
    BY <1>1, <1>2, <1>6, <2>1 DEF Excused
<1> QED
  BY <1>1, <1>2, <1>4, <1>5, <1>7, <1>8 DEF SessionsIInv

\* A restart empties the store: sessions live in memory.
LEMMA RestartKeeps == ASSUME SessionsIInv, ConsoleRestarts PROVE SessionsIInv'
<1>1. /\ sessions' = [i \in SessionIds |-> NoSession] /\ form' = [f \in Forms |-> NoForm]
      /\ UNCHANGED password
  BY DEF ConsoleRestarts
<1>2. Stored' = {}
  BY <1>1 DEF Stored
<1>3. Cardinality(Stored') <= MaxSessions
  BY <1>2, FS_EmptySet, SessionsAssumption
<1>4. sessions' \in [SessionIds -> SessionRows] /\ form' \in [Forms -> FormRows]
  BY <1>1, Blank
<1> QED
  BY <1>1, <1>2, <1>3, <1>4, Blank DEF SessionsIInv, Overtaken

\* Time brings sessions nearer to their end.
LEMMA SessionTickKeeps == ASSUME SessionsIInv, SessionTick PROVE SessionsIInv'
<1>1. /\ UNCHANGED <<password, form, reapplied>>
      /\ sessions' = [i \in SessionIds |->
                        IF i \in Stored /\ ~ Expired(i) THEN [sessions[i] EXCEPT !.left = sessions[i].left - 1]
                        ELSE sessions[i]]
  BY DEF SessionTick
<1>2. ASSUME NEW i \in SessionIds
      PROVE  /\ sessions'[i] \in SessionRows
             /\ sessions'[i] # NoSession => i \in Stored /\ sessions'[i].left >= -1
             /\ sessions'[i].user = sessions[i].user /\ sessions'[i].password = sessions[i].password
             /\ sessions'[i].straddled = sessions[i].straddled
  <2>1. CASE i \in Stored /\ ~ Expired(i)
    <3>1. sessions'[i] = [sessions[i] EXCEPT !.left = sessions[i].left - 1]
      BY <1>1, <2>1
    <3>2. sessions[i] \in SessionRows /\ sessions[i].left >= 0
      BY <2>1 DEF SessionsIInv, Expired, SessionRows
    <3> QED
      BY <2>1, <3>1, <3>2, SessionsAssumption DEF SessionRows
  <2>2. CASE ~ (i \in Stored /\ ~ Expired(i))
    BY <1>1, <2>2 DEF SessionsIInv, Stored
  <2> QED
    BY <2>1, <2>2
<1>3. sessions' \in [SessionIds -> SessionRows]
  BY <1>1, <1>2
<1>4. form' \in [Forms -> FormRows] /\ \A g \in Forms : Overtaken(form'[g], password)
  BY <1>1 DEF SessionsIInv
<1>5. reapplied \subseteq reapplied' /\ UNCHANGED password
  BY <1>1
<1>6. \A j \in SessionIds : sessions'[j] # NoSession =>
               /\ j \in Stored /\ sessions'[j].left >= -1
               /\ sessions'[j].user = sessions[j].user /\ sessions'[j].password = sessions[j].password
               /\ sessions'[j].straddled = sessions[j].straddled
               /\ \A g \in Forms : form[g].pc = "drop" /\ form[g].user = sessions[j].user => form'[g] = form[g]
  BY <1>1, <1>2
<1> QED
  BY <1>3, <1>4, <1>5, <1>6, Shrinks

\* No login outlives a credential change but by the overlaps named there, and
\* the store stays within its cap, for any number of users and requests.
THEOREM CredentialChangesHold == SessionsSpec => []OldLoginsDie
<1>1. SessionsInit => SessionsIInv
  <2> SUFFICES ASSUME SessionsInit PROVE SessionsIInv
    OBVIOUS
  <2>1. Stored = {}
    BY DEF SessionsInit, Stored
  <2>2. Cardinality(Stored) <= MaxSessions
    BY <2>1, FS_EmptySet, SessionsAssumption
  <2>3. password \in [Users -> 0..MaxPasswords]
    BY SessionsAssumption DEF SessionsInit
  <2>4. sessions \in [SessionIds -> SessionRows] /\ form \in [Forms -> FormRows]
    BY Blank DEF SessionsInit
  <2> QED
    BY <2>1, <2>2, <2>3, <2>4, Blank DEF SessionsInit, SessionsIInv, Overtaken
<1>2. SessionsIInv /\ [SessionsNext]_sessionVars => SessionsIInv'
  <2> SUFFICES ASSUME SessionsIInv, [SessionsNext]_sessionVars PROVE SessionsIInv'
    OBVIOUS
  <2>1. CASE UNCHANGED sessionVars
    BY <2>1 DEF sessionVars, SessionsIInv, Stored
  <2>2. CASE \E i \in SessionIds : Get(i) \/ Destroy(i)
    BY <2>2, GetKeeps, DestroyKeeps
  <2>3. CASE \E f \in Forms :
                \/ \E u \in Users : LoginReads(f, u)
                \/ \E i \in SessionIds : ChangeReads(f, i)
                \/ LoginCreates(f) \/ ChangeWrites(f) \/ ChangeDrops(f) \/ FormRefused(f)
    BY <2>3, LoginReadsKeeps, ChangeReadsKeeps, LoginCreatesKeeps, ChangeWritesKeeps, ChangeDropsKeeps,
       FormRefusedKeeps
  <2> QED
    BY <2>1, <2>2, <2>3, ReappliesKeeps, RestartKeeps, SessionTickKeeps DEF SessionsNext
<1>3. SessionsIInv => OldLoginsDie
  BY SessionsAssumption DEF SessionsIInv, OldLoginsDie, SessionsTypeOK, Excused, Stored, SessionRows, FormRows
<1> QED
  BY <1>1, <1>2, <1>3, PTL DEF SessionsSpec

-----------------------------------------------------------------------------
(* The life of the process.                                                *)

\* What an exchange's client has seen fits what its handler has done.
HandlersFit ==
    \A x \in Exchanges :
        /\ (client[x] = "none") <=> (handler[x] = "none")
        /\ client[x] = "none" => audit[x] # "insert"
        /\ client[x] = "open" => handler[x] \notin {"none", "over"} /\ audit[x] # "insert"
        /\ client[x] = "answered" => handler[x] = "over"
        /\ handler[x] = "settled" => ledgerRow[x] \in {"complete", "failed", "cut"}
        /\ handler[x] = "over" => ledgerRow[x] \in {"complete", "failed", "cut", "not due"} /\ audit[x] # "none"

\* The database is closed to those only that have hung up.
CutsFit == \A x \in Exchanges : client[x] # "hung up" => ledgerRow[x] # "cut" /\ audit[x] # "cut"

\* How far the shutdown has come.
ShutdownFits ==
    /\ phase \in {"flushing", "ending", "exit 0"} =>
        /\ \A x \in Exchanges : client[x] # "open"
        /\ (\A x \in Exchanges : client[x] # "hung up") => awaited = persists
    /\ phase \in {"ending", "exit 0"} => awaited = 0
    /\ phase = "exit 0" => \A x \in Exchanges : audit[x] # "insert"

ServerIInv == ServerTypeOK /\ HandlersFit /\ CutsFit /\ ShutdownFits

\* A process that has not booted has no handler and no job.
LEMMA ServerStarts == ServerInit => ServerIInv
BY ServerAssumption DEF ServerInit, ServerIInv, ServerTypeOK, HandlersFit, CutsFit, ShutdownFits, Roles, Draining, Over

\* A request is accepted only while the listener is open.
LEMMA AcceptKeeps ==
    ASSUME ServerIInv, NEW x \in Exchanges, Accept(x)
    PROVE  ServerIInv'
<1> USE ServerAssumption DEF ServerIInv, Accept, Up, DbOpen, Answered, Served, Background
<1>1. ServerTypeOK'
  BY DEF ServerTypeOK, Over, Draining
<1>2. HandlersFit'
  BY DEF ServerTypeOK, HandlersFit
<1>3. CutsFit'
  BY DEF ServerTypeOK, HandlersFit, CutsFit, ShutdownFits
<1>4. ShutdownFits'
  BY DEF ServerTypeOK, HandlersFit, ShutdownFits, Over
<1> QED
  BY <1>1, <1>2, <1>3, <1>4

\* A client that hangs up leaves its handler running.
LEMMA HangsUpKeeps ==
    ASSUME ServerIInv, NEW x \in Exchanges, HangsUp(x)
    PROVE  ServerIInv'
<1> USE ServerAssumption DEF ServerIInv, HangsUp, Up, DbOpen, Answered, Served, Background
<1>1. ServerTypeOK'
  BY DEF ServerTypeOK, Over, Draining
<1>2. HandlersFit'
  BY DEF ServerTypeOK, HandlersFit
<1>3. CutsFit'
  BY DEF ServerTypeOK, HandlersFit, CutsFit, ShutdownFits
<1>4. ShutdownFits'
  BY DEF ServerTypeOK, HandlersFit, ShutdownFits, Over
<1> QED
  BY <1>1, <1>2, <1>3, <1>4

\* A request that cannot be attributed to a firm owes no row.
LEMMA RefusedUnattributedKeeps ==
    ASSUME ServerIInv, NEW x \in Exchanges, RefusedUnattributed(x)
    PROVE  ServerIInv'
<1> USE ServerAssumption DEF ServerIInv, RefusedUnattributed, Up, DbOpen, Answered, Served, Background
<1>1. ServerTypeOK'
  BY DEF ServerTypeOK, Over, Draining
<1>2. HandlersFit'
  BY ZenonT(40) DEF ServerTypeOK, HandlersFit
<1>3. CutsFit'
  BY DEF ServerTypeOK, HandlersFit, CutsFit, ShutdownFits
<1>4. ShutdownFits'
  BY DEF ServerTypeOK, HandlersFit, ShutdownFits, Over
<1> QED
  BY <1>1, <1>2, <1>3, <1>4

\* An answered call is recorded with the health monitor.
LEMMA RecordHealthKeeps ==
    ASSUME ServerIInv, NEW x \in Exchanges, RecordHealth(x)
    PROVE  ServerIInv'
<1> USE ServerAssumption DEF ServerIInv, RecordHealth, Up, DbOpen, Answered, Served, Background
<1>1. ServerTypeOK'
  <2>0. MaxPersists \in Nat /\ persists \in 0 .. MaxPersists /\ awaited \in 0 .. persists
    BY DEF ServerTypeOK
  <2>1. persists' \in 0 .. MaxPersists /\ awaited' \in 0 .. persists'
    BY <2>0
  <2> QED
    BY <2>1 DEF ServerTypeOK, Over, Draining
<1>2. HandlersFit'
  BY DEF ServerTypeOK, HandlersFit
<1>3. CutsFit'
  BY DEF ServerTypeOK, HandlersFit, CutsFit, ShutdownFits
<1>4. ShutdownFits'
  BY DEF ServerTypeOK, HandlersFit, ShutdownFits, Over
<1> QED
  BY <1>1, <1>2, <1>3, <1>4

\* The ledger stage begins to write once the model has answered.
LEMMA LedgerBeginsKeeps ==
    ASSUME ServerIInv, NEW x \in Exchanges, LedgerBegins(x)
    PROVE  ServerIInv'
<1> USE ServerAssumption DEF ServerIInv, LedgerBegins, Up, DbOpen, Answered, Served, Background
<1>1. ServerTypeOK'
  BY DEF ServerTypeOK, Over, Draining
<1>2. HandlersFit'
  BY DEF ServerTypeOK, HandlersFit
<1>3. CutsFit'
  BY DEF ServerTypeOK, HandlersFit, CutsFit, ShutdownFits
<1>4. ShutdownFits'
  BY DEF ServerTypeOK, HandlersFit, ShutdownFits, Over
<1> QED
  BY <1>1, <1>2, <1>3, <1>4

\* The ledger's row is in the database.
LEMMA RowInsertedKeeps ==
    ASSUME ServerIInv, NEW x \in Exchanges, RowInserted(x)
    PROVE  ServerIInv'
<1> USE ServerAssumption DEF ServerIInv, RowInserted, Up, DbOpen, Answered, Served, Background
<1>1. ServerTypeOK'
  BY DEF ServerTypeOK, Over, Draining
<1>2. HandlersFit'
  <2>1. /\ \A y \in Exchanges \ {x} : handler'[y] = handler[y] /\ ledgerRow'[y] = ledgerRow[y]
        /\ handler'[x] \in {"insert", "spend", "settled"}
        /\ handler'[x] = "settled" => ledgerRow'[x] \in {"complete", "failed", "cut"}
        /\ handler[x] \in {"insert", "spend"} /\ UNCHANGED <<client, audit>>
    BY DEF ServerTypeOK
  <2> HIDE DEF RowInserted, Up, DbOpen
  <2> SUFFICES ASSUME NEW y \in Exchanges
               PROVE  /\ (client[y] = "none") <=> (handler'[y] = "none")
                      /\ client[y] = "none" => audit[y] # "insert"
                      /\ client[y] = "open" => handler'[y] \notin {"none", "over"} /\ audit[y] # "insert"
                      /\ client[y] = "answered" => handler'[y] = "over"
                      /\ handler'[y] = "settled" => ledgerRow'[y] \in {"complete", "failed", "cut"}
                      /\ handler'[y] = "over" =>
                            ledgerRow'[y] \in {"complete", "failed", "cut", "not due"} /\ audit[y] # "none"
    BY <2>1 DEF HandlersFit
  <2>2. CASE y = x
    BY <2>1, <2>2 DEF HandlersFit
  <2>3. CASE y # x
    BY <2>1, <2>3 DEF HandlersFit
  <2> QED
    BY <2>2, <2>3
<1>3. CutsFit'
  BY ZenonT(40) DEF ServerTypeOK, HandlersFit, CutsFit, ShutdownFits
<1>4. ShutdownFits'
  BY DEF ServerTypeOK, HandlersFit, ShutdownFits, Over
<1> QED
  BY <1>1, <1>2, <1>3, <1>4

\* The ledger's counters are charged.
LEMMA SpendRecordedKeeps ==
    ASSUME ServerIInv, NEW x \in Exchanges, SpendRecorded(x)
    PROVE  ServerIInv'
<1> USE ServerAssumption DEF ServerIInv, SpendRecorded, Up, DbOpen, Answered, Served, Background
<1>1. ServerTypeOK'
  BY DEF ServerTypeOK, Over, Draining
<1>2. HandlersFit'
  BY DEF ServerTypeOK, HandlersFit
<1>3. CutsFit'
  BY DEF ServerTypeOK, HandlersFit, CutsFit, ShutdownFits
<1>4. ShutdownFits'
  BY DEF ServerTypeOK, HandlersFit, ShutdownFits, Over
<1> QED
  BY <1>1, <1>2, <1>3, <1>4

\* A ledger statement is rejected: one more attempt, or a logged failure.
LEMMA LedgerFailsKeeps ==
    ASSUME ServerIInv, NEW x \in Exchanges, LedgerFails(x)
    PROVE  ServerIInv'
<1> USE ServerAssumption DEF ServerIInv, LedgerFails, Up, DbOpen, Answered, Served, Background
<1>1. ServerTypeOK'
  BY DEF ServerTypeOK, Over, Draining
<1>2. HandlersFit'
  <2>1. /\ \A y \in Exchanges \ {x} : handler'[y] = handler[y] /\ ledgerRow'[y] = ledgerRow[y]
        /\ handler'[x] \in {"insert", "spend", "settled"}
        /\ handler'[x] = "settled" => ledgerRow'[x] \in {"complete", "failed", "cut"}
        /\ handler[x] \in {"insert", "spend"} /\ UNCHANGED <<client, audit>>
    BY DEF ServerTypeOK
  <2> HIDE DEF LedgerFails, Up, DbOpen
  <2> SUFFICES ASSUME NEW y \in Exchanges
               PROVE  /\ (client[y] = "none") <=> (handler'[y] = "none")
                      /\ client[y] = "none" => audit[y] # "insert"
                      /\ client[y] = "open" => handler'[y] \notin {"none", "over"} /\ audit[y] # "insert"
                      /\ client[y] = "answered" => handler'[y] = "over"
                      /\ handler'[y] = "settled" => ledgerRow'[y] \in {"complete", "failed", "cut"}
                      /\ handler'[y] = "over" =>
                            ledgerRow'[y] \in {"complete", "failed", "cut", "not due"} /\ audit[y] # "none"
    BY <2>1 DEF HandlersFit
  <2>2. CASE y = x
    BY <2>1, <2>2 DEF HandlersFit
  <2>3. CASE y # x
    BY <2>1, <2>3 DEF HandlersFit
  <2> QED
    BY <2>2, <2>3
<1>3. CutsFit'
  BY ZenonT(40) DEF ServerTypeOK, HandlersFit, CutsFit, ShutdownFits
<1>4. ShutdownFits'
  BY DEF ServerTypeOK, HandlersFit, ShutdownFits, Over
<1> QED
  BY <1>1, <1>2, <1>3, <1>4

\* The terminal audit row is sent without being awaited, as the answer goes out.
LEMMA EmitTerminalAuditKeeps ==
    ASSUME ServerIInv, NEW x \in Exchanges, EmitTerminalAudit(x)
    PROVE  ServerIInv'
<1> USE ServerAssumption DEF ServerIInv, EmitTerminalAudit, Up, DbOpen, Answered, Served, Background
<1>1. ServerTypeOK'
  BY DEF ServerTypeOK, Over, Draining
<1>2. HandlersFit'
  BY ZenonT(40) DEF ServerTypeOK, HandlersFit
<1>3. CutsFit'
  BY ZenonT(40) DEF ServerTypeOK, HandlersFit, CutsFit, ShutdownFits
<1>4. ShutdownFits'
  BY DEF ServerTypeOK, HandlersFit, ShutdownFits, Over
<1> QED
  BY <1>1, <1>2, <1>3, <1>4

\* The audit write settles.
LEMMA AuditAnsweredKeeps ==
    ASSUME ServerIInv, NEW x \in Exchanges, AuditAnswered(x)
    PROVE  ServerIInv'
<1> USE ServerAssumption DEF ServerIInv, AuditAnswered, Up, DbOpen, Answered, Served, Background
<1>1. ServerTypeOK'
  BY DEF ServerTypeOK, Over, Draining
<1>2. HandlersFit'
  BY DEF ServerTypeOK, HandlersFit
<1>3. CutsFit'
  BY DEF ServerTypeOK, HandlersFit, CutsFit, ShutdownFits
<1>4. ShutdownFits'
  BY DEF ServerTypeOK, HandlersFit, ShutdownFits, Over
<1> QED
  BY <1>1, <1>2, <1>3, <1>4

\* The process boots, or exits with 1, or is killed.
LEMMA BootKeeps ==
    ASSUME ServerIInv, Boot
    PROVE  ServerIInv'
<1> USE ServerAssumption DEF ServerIInv, Boot, Up, DbOpen, Served, Background
<1>1. ServerTypeOK'
  BY DEF ServerTypeOK, Over, Draining
<1>2. HandlersFit' /\ CutsFit'
  BY DEF HandlersFit, CutsFit
<1>3. ShutdownFits'
  BY DEF ServerTypeOK, HandlersFit, ShutdownFits, Over, Draining, Connected, StatementInFlight
<1> QED
  BY <1>1, <1>2, <1>3

\* The oldest waiting health transition is persisted, or its failure logged.
LEMMA PersistEndsKeeps ==
    ASSUME ServerIInv, PersistEnds
    PROVE  ServerIInv'
<1> USE ServerAssumption DEF ServerIInv, PersistEnds, Up, DbOpen, Served, Background
<1>1. ServerTypeOK'
  <2>0. MaxPersists \in Nat /\ persists \in 0 .. MaxPersists /\ awaited \in 0 .. persists
    BY DEF ServerTypeOK
  <2>1. persists' \in 0 .. MaxPersists /\ awaited' \in 0 .. persists'
    BY <2>0
  <2> QED
    BY <2>1 DEF ServerTypeOK, Over, Draining
<1>2. HandlersFit' /\ CutsFit'
  BY DEF HandlersFit, CutsFit
<1>3. ShutdownFits'
  <2>0. MaxPersists \in Nat /\ persists \in 0 .. MaxPersists /\ awaited \in 0 .. persists
    BY DEF ServerTypeOK
  <2>1. awaited \in Nat /\ persists \in Nat \ {0}
    BY <2>0
  <2>2. /\ persists' = persists - 1 /\ awaited' = IF awaited > 0 THEN awaited - 1 ELSE 0
        /\ UNCHANGED <<phase, client, audit>>
    OBVIOUS
  <2>3. awaited = persists => awaited' = persists'
    BY <2>1, <2>2
  <2>4. awaited = 0 => awaited' = 0
    BY <2>1, <2>2
  <2> HIDE DEF PersistEnds
  <2> QED
    BY <2>2, <2>3, <2>4 DEF ShutdownFits
<1> QED
  BY <1>1, <1>2, <1>3

\* A job sends a statement while the pool is open.
LEMMA JobRunsKeeps ==
    ASSUME ServerIInv, JobRuns
    PROVE  ServerIInv'
<1> USE ServerAssumption DEF ServerIInv, JobRuns, Up, DbOpen, Served, Background
<1>1. ServerTypeOK'
  BY DEF ServerTypeOK, Over, Draining
<1>2. HandlersFit' /\ CutsFit'
  BY DEF HandlersFit, CutsFit
<1>3. ShutdownFits'
  BY DEF ServerTypeOK, HandlersFit, ShutdownFits, Over, Draining, Connected, StatementInFlight
<1> QED
  BY <1>1, <1>2, <1>3

\* A job's statement is answered.
LEMMA JobAnsweredKeeps ==
    ASSUME ServerIInv, JobAnswered
    PROVE  ServerIInv'
<1> USE ServerAssumption DEF ServerIInv, JobAnswered, Up, DbOpen, Served, Background
<1>1. ServerTypeOK'
  BY DEF ServerTypeOK, Over, Draining
<1>2. HandlersFit' /\ CutsFit'
  BY DEF HandlersFit, CutsFit
<1>3. ShutdownFits'
  BY DEF ServerTypeOK, HandlersFit, ShutdownFits, Over, Draining, Connected, StatementInFlight
<1> QED
  BY <1>1, <1>2, <1>3

\* A first signal arms the deadline and closes the listener; later ones
\* change nothing.
LEMMA SignalKeeps ==
    ASSUME ServerIInv, Signal
    PROVE  ServerIInv'
<1> USE ServerAssumption DEF ServerIInv, Signal, Up, DbOpen, Served, Background
<1>1. ServerTypeOK'
  BY DEF ServerTypeOK, Over, Draining
<1>2. HandlersFit' /\ CutsFit'
  BY DEF HandlersFit, CutsFit
<1>3. ShutdownFits'
  BY DEF ServerTypeOK, HandlersFit, ShutdownFits, Over, Draining, Connected, StatementInFlight
<1> QED
  BY <1>1, <1>2, <1>3

\* app.close() returns when no client is connected any more, and flush()
\* starts with the transitions of that moment.
LEMMA AppClosedKeeps ==
    ASSUME ServerIInv, AppClosed
    PROVE  ServerIInv'
<1> USE ServerAssumption DEF ServerIInv, AppClosed, Up, DbOpen, Served, Background
<1>1. ServerTypeOK'
  <2>0. MaxPersists \in Nat /\ persists \in 0 .. MaxPersists /\ awaited \in 0 .. persists
    BY DEF ServerTypeOK
  <2>1. persists' \in 0 .. MaxPersists /\ awaited' \in 0 .. persists'
    BY <2>0
  <2> QED
    BY <2>1 DEF ServerTypeOK, Over, Draining
<1>2. HandlersFit' /\ CutsFit'
  BY DEF HandlersFit, CutsFit
<1>3. ShutdownFits'
  BY DEF ServerTypeOK, HandlersFit, ShutdownFits, Over, Draining, Connected, StatementInFlight
<1> QED
  BY <1>1, <1>2, <1>3

\* The health monitor is flushed before the pool is closed.
LEMMA HealthFlushedKeeps ==
    ASSUME ServerIInv, HealthFlushed
    PROVE  ServerIInv'
<1> USE ServerAssumption DEF ServerIInv, HealthFlushed, Up, DbOpen, Served, Background
<1>1. ServerTypeOK'
  BY DEF ServerTypeOK, Over, Draining
<1>2. HandlersFit' /\ CutsFit'
  BY DEF HandlersFit, CutsFit
<1>3. ShutdownFits'
  BY DEF ServerTypeOK, HandlersFit, ShutdownFits, Over, Draining, Connected, StatementInFlight
<1> QED
  BY <1>1, <1>2, <1>3

\* sql.end() waits for the statements in flight; then the process exits with 0.
LEMMA DbClosedKeeps ==
    ASSUME ServerIInv, DbClosed
    PROVE  ServerIInv'
<1> USE ServerAssumption DEF ServerIInv, DbClosed, Up, DbOpen, Served, Background
<1>1. ServerTypeOK'
  BY DEF ServerTypeOK, Over, Draining
<1>2. HandlersFit' /\ CutsFit'
  BY DEF HandlersFit, CutsFit
<1>3. ShutdownFits'
  BY DEF ServerTypeOK, HandlersFit, ShutdownFits, Over, Draining, Connected, StatementInFlight
<1> QED
  BY <1>1, <1>2, <1>3

\* The deadline exits with 1, whatever is left.
LEMMA ForceExitKeeps ==
    ASSUME ServerIInv, ForceExit
    PROVE  ServerIInv'
<1> USE ServerAssumption DEF ServerIInv, ForceExit, Up, DbOpen, Served, Background
<1>1. ServerTypeOK'
  BY DEF ServerTypeOK, Over, Draining
<1>2. HandlersFit' /\ CutsFit'
  BY DEF HandlersFit, CutsFit
<1>3. ShutdownFits'
  BY DEF ServerTypeOK, HandlersFit, ShutdownFits, Over, Draining, Connected, StatementInFlight
<1> QED
  BY <1>1, <1>2, <1>3

\* A clean exit cuts nothing off that a client waited for, for any number of
\* requests and of pending transitions (index.ts).
THEOREM ExitsAreClean == ServerSpec => []CleanExit
<1>1. ServerIInv /\ [ServerNext]_serverVars => ServerIInv'
  <2> SUFFICES ASSUME ServerIInv, [ServerNext]_serverVars PROVE ServerIInv'
    OBVIOUS
  <2>1. CASE UNCHANGED serverVars
    BY <2>1 DEF serverVars, ServerIInv, ServerTypeOK, HandlersFit, CutsFit, ShutdownFits
  <2>2. CASE \E x \in Exchanges :
                \/ Accept(x) \/ HangsUp(x) \/ RefusedUnattributed(x) \/ RecordHealth(x)
                \/ LedgerBegins(x) \/ RowInserted(x) \/ SpendRecorded(x) \/ LedgerFails(x)
                \/ EmitTerminalAudit(x) \/ AuditAnswered(x)
    BY <2>2, AcceptKeeps, HangsUpKeeps, RefusedUnattributedKeeps, RecordHealthKeeps, LedgerBeginsKeeps,
       RowInsertedKeeps, SpendRecordedKeeps, LedgerFailsKeeps, EmitTerminalAuditKeeps, AuditAnsweredKeeps
  <2> QED
    BY <2>1, <2>2, BootKeeps, SignalKeeps, AppClosedKeeps, HealthFlushedKeeps, DbClosedKeeps, ForceExitKeeps,
       JobRunsKeeps, JobAnsweredKeeps, PersistEndsKeeps DEF ServerNext
<1>2. ServerIInv => CleanExit
  <2> SUFFICES ASSUME ServerIInv PROVE CleanExit
    OBVIOUS
  <2>1. phase = "exit 0" => client \in [Exchanges -> {"none", "answered", "hung up"}]
    BY DEF ServerIInv, ServerTypeOK, ShutdownFits
  <2> QED
    BY <2>1 DEF ServerIInv, ServerTypeOK, HandlersFit, CutsFit, ShutdownFits, CleanExit
<1> QED
  BY <1>1, <1>2, ServerStarts, PTL DEF ServerSpec

-----------------------------------------------------------------------------
(* Policy administration and the engine's cache.                           *)

ClassRows == [sens : Levels \cup {Absent}, needs : BOOLEAN]
PolicyRows == [bound : SUBSET Bindable, ack : SUBSET ThirdParty, seen : SUBSET ThirdParty]
Importing == {"import class", "import write", "import policy", "import save", "import invalidate"}
JobRows ==
    [pc : {"idle", "save", "invalidate"} \cup Importing, class : Classes, row : ClassRows, pol : PolicyRows,
     file : Files \cup {NoFile}, i : Nat]
FillRows == [at : {"none", "class", "policy"}, class : Classes, row : ClassRows, pol : PolicyRows]

\* A policy p for class c has the models that were flagged when it was made
\* acknowledged, by A.
Acknowledged(c, p, A) ==
    /\ p.bound \cap p.seen \subseteq p.ack
    /\ \A m \in p.ack : <<c, m>> \in A

\* What a writer will write is acknowledged; an import speaks for its file.
JobFits(j, A) ==
    /\ j.pc \in {"save", "import save"} => Acknowledged(j.class, j.pol, A)
    /\ j.pc \in Importing =>
        /\ j.file \in Files /\ j.i >= 1
        /\ \A n \in 1..Len(j.file.policies) : \A m \in j.file.policies[n].ack : <<j.file.policies[n].class, m>> \in A
    /\ j.pc = "import write" => j.i <= Len(j.file.classes)

EntriesFit ==
    /\ DOMAIN entry \subseteq Classes
    /\ \A c \in DOMAIN entry : entry[c].row.sens \in Levels /\ entry[c].pol # NoPolicy
    /\ fill \in FillRows
    /\ fill.at # "none" => fill.row.sens \in Levels
    /\ fill.at = "policy" => fill.pol # NoPolicy

PolicyIInv ==
    /\ class \in [Classes -> ClassRows]
    /\ policy \in [Classes -> PolicyRows]
    /\ flagged \subseteq ThirdParty
    /\ job \in [Writers -> JobRows]
    /\ writes \in 0..MaxWrites
    /\ EntriesFit
    /\ \A c \in Classes : Acknowledged(c, policy[c], acked)
    /\ \A h \in Writers : JobFits(job[h], acked)

\* Idle writers and empty fills are rows too.
LEMMA BlankJob ==
    /\ Idle \in JobRows /\ Idle.pc = "idle" /\ Idle.class \in Classes /\ Idle.row \in ClassRows
    /\ Idle.pol \in PolicyRows /\ Idle.file = NoFile /\ Idle.i = 0
    /\ NoFill \in FillRows /\ NoFill.at = "none"
    /\ NoPolicy \in PolicyRows /\ NoRow \in ClassRows
<1>1. AnyClass \in Classes
  BY PolicyAdminAssumption DEF AnyClass
<1>2. NoPolicy \in PolicyRows /\ NoRow \in ClassRows
  BY DEF NoPolicy, NoRow, PolicyRows, ClassRows
<1> QED
  BY <1>1, <1>2 DEF Idle, NoFill, JobRows, FillRows

\* What was acknowledged stays so.
LEMMA MoreAcknowledged ==
    ASSUME NEW A, NEW B, A \subseteq B
    PROVE  /\ \A c, p : Acknowledged(c, p, A) => Acknowledged(c, p, B)
           /\ \A j : JobFits(j, A) => JobFits(j, B)
<1>1. \A c, p : Acknowledged(c, p, A) => Acknowledged(c, p, B)
  BY DEF Acknowledged
<1> QED
  BY <1>1 DEF JobFits

\* What savePolicy() is about to write, when its gate has let it.
LEMMA GatedValues ==
    ASSUME PolicyIInv, NEW c \in Classes, NEW bound \in SUBSET Bindable, NEW ack \in SUBSET ThirdParty,
           Gate(c, bound, ack), NEW A, acked \subseteq A, \A m \in ack : <<c, m>> \in A
    PROVE  Values(c, bound, ack) \in PolicyRows /\ Acknowledged(c, Values(c, bound, ack), A)
<1>1. \A m \in policy[c].ack : <<c, m>> \in A
  BY DEF PolicyIInv, Acknowledged
<1>2. /\ Values(c, bound, ack).bound = bound
      /\ Values(c, bound, ack).ack = bound \cap flagged \cap (ack \cup policy[c].ack)
      /\ Values(c, bound, ack).seen = flagged
      /\ Values(c, bound, ack) \in PolicyRows
  BY DEF Values, PolicyRows, PolicyIInv
<1>3. \A m \in bound \cap flagged : m \in ack \cup policy[c].ack
  BY DEF Gate
<1> QED
  BY <1>1, <1>2, <1>3 DEF Acknowledged

\* A handler goes on as d, which fits, and the tables stay as they are.
LEMMA JobKeeps ==
    ASSUME PolicyIInv, NEW h \in Writers, NEW d \in JobRows, job' = [job EXCEPT ![h] = d],
           acked \subseteq acked', JobFits(d, acked'), UNCHANGED <<class, policy, flagged, writes, entry, fill>>
    PROVE  PolicyIInv'
<1>1. job' \in [Writers -> JobRows] /\ job'[h] = d /\ \A g \in Writers \ {h} : job'[g] = job[g]
  BY DEF PolicyIInv
<1>2. \A g \in Writers : JobFits(job'[g], acked')
  BY <1>1, MoreAcknowledged DEF PolicyIInv
<1>3. \A c \in Classes : Acknowledged(c, policy[c], acked')
  BY MoreAcknowledged DEF PolicyIInv
<1>4. EntriesFit'
  BY DEF PolicyIInv, EntriesFit
<1> QED
  BY <1>1, <1>2, <1>3, <1>4 DEF PolicyIInv

\* A handler that is idle, or has only to invalidate, is bound to nothing.
LEMMA RestFits ==
    ASSUME NEW A, NEW d, d.pc \in {"idle", "invalidate"}
    PROVE  JobFits(d, A)
BY DEF JobFits, Importing

\* A writer that is done has the invalidation left.
LEMMA RestingJobs ==
    /\ [Idle EXCEPT !.pc = "invalidate"] \in JobRows
    /\ [Idle EXCEPT !.pc = "invalidate"].pc = "invalidate"
BY BlankJob DEF JobRows

\* A job with its columns.
IsJob(d, pc, c, r, v, f, n) ==
    d \in JobRows /\ d.pc = pc /\ d.class = c /\ d.row = r /\ d.pol = v /\ d.file = f /\ d.i = n

\* A writer after an edit of one of its fields ...
LEMMA JobEdits ==
    ASSUME NEW j \in JobRows
    PROVE  /\ \A pc \in {"idle", "save", "invalidate"} \cup Importing :
                IsJob([j EXCEPT !.pc = pc], pc, j.class, j.row, j.pol, j.file, j.i)
           /\ \A c \in Classes : IsJob([j EXCEPT !.class = c], j.pc, c, j.row, j.pol, j.file, j.i)
           /\ \A r \in ClassRows : IsJob([j EXCEPT !.row = r], j.pc, j.class, r, j.pol, j.file, j.i)
           /\ \A v \in PolicyRows : IsJob([j EXCEPT !.pol = v], j.pc, j.class, j.row, v, j.file, j.i)
           /\ \A f \in Files : IsJob([j EXCEPT !.file = f], j.pc, j.class, j.row, j.pol, f, j.i)
           /\ \A n \in Nat : IsJob([j EXCEPT !.i = n], j.pc, j.class, j.row, j.pol, j.file, n)
BY DEF IsJob, JobRows

\* Several columns at once.
LEMMA JobEditsTwo ==
    ASSUME NEW j \in JobRows, NEW pc \in {"idle", "save", "invalidate"} \cup Importing, NEW n \in Nat
    PROVE  IsJob([j EXCEPT !.pc = pc, !.i = n], pc, j.class, j.row, j.pol, j.file, n)
<1> DEFINE a == [j EXCEPT !.pc = pc]
<1>1. [j EXCEPT !.pc = pc, !.i = n] = [a EXCEPT !.i = n]
  OBVIOUS
<1>2. IsJob(a, pc, j.class, j.row, j.pol, j.file, j.i)
  BY JobEdits
<1> HIDE DEF a
<1>3. IsJob([a EXCEPT !.i = n], a.pc, a.class, a.row, a.pol, a.file, n)
  BY <1>2, JobEdits DEF IsJob
<1> QED
  BY <1>1, <1>2, <1>3 DEF IsJob

\* ... of the policy it has read ...
LEMMA JobEditsPolicy ==
    ASSUME NEW j \in JobRows, NEW pc \in {"idle", "save", "invalidate"} \cup Importing,
           NEW c \in Classes, NEW v \in PolicyRows
    PROVE  IsJob([j EXCEPT !.pc = pc, !.class = c, !.pol = v], pc, c, j.row, v, j.file, j.i)
<1> DEFINE a == [j EXCEPT !.pc = pc]
           b == [a EXCEPT !.class = c]
<1>1. [j EXCEPT !.pc = pc, !.class = c, !.pol = v] = [b EXCEPT !.pol = v]
  OBVIOUS
<1>2. IsJob(a, pc, j.class, j.row, j.pol, j.file, j.i)
  BY JobEdits
<1>3. IsJob(b, a.pc, c, a.row, a.pol, a.file, a.i)
  <2> HIDE DEF a
  <2>1. a \in JobRows
    BY <1>2 DEF IsJob
  <2> QED
    BY <2>1, JobEdits
<1> HIDE DEF a, b
<1>4. b \in JobRows
  BY <1>3 DEF IsJob
<1>5. IsJob([b EXCEPT !.pol = v], b.pc, b.class, b.row, v, b.file, b.i)
  BY <1>4, JobEdits
<1> QED
  BY <1>1, <1>2, <1>3, <1>5 DEF IsJob

\* ... of the class it has read ...
LEMMA JobEditsClass ==
    ASSUME NEW j \in JobRows, NEW pc \in {"idle", "save", "invalidate"} \cup Importing,
           NEW c \in Classes, NEW r \in ClassRows
    PROVE  IsJob([j EXCEPT !.pc = pc, !.class = c, !.row = r], pc, c, r, j.pol, j.file, j.i)
<1> DEFINE a == [j EXCEPT !.pc = pc]
           b == [a EXCEPT !.class = c]
<1>1. [j EXCEPT !.pc = pc, !.class = c, !.row = r] = [b EXCEPT !.row = r]
  OBVIOUS
<1>2. IsJob(a, pc, j.class, j.row, j.pol, j.file, j.i)
  BY JobEdits
<1>3. IsJob(b, a.pc, c, a.row, a.pol, a.file, a.i)
  <2> HIDE DEF a
  <2>1. a \in JobRows
    BY <1>2 DEF IsJob
  <2> QED
    BY <2>1, JobEdits
<1> HIDE DEF a, b
<1>4. b \in JobRows
  BY <1>3 DEF IsJob
<1>5. IsJob([b EXCEPT !.row = r], b.pc, b.class, r, b.pol, b.file, b.i)
  BY <1>4, JobEdits
<1> QED
  BY <1>1, <1>2, <1>3, <1>5 DEF IsJob

\* ... or of its place in the file.
LEMMA JobEditsFile ==
    ASSUME NEW j \in JobRows, NEW pc \in {"idle", "save", "invalidate"} \cup Importing,
           NEW f \in Files, NEW n \in Nat
    PROVE  IsJob([j EXCEPT !.pc = pc, !.file = f, !.i = n], pc, j.class, j.row, j.pol, f, n)
<1> DEFINE a == [j EXCEPT !.pc = pc]
           b == [a EXCEPT !.file = f]
<1>1. [j EXCEPT !.pc = pc, !.file = f, !.i = n] = [b EXCEPT !.i = n]
  OBVIOUS
<1>2. IsJob(a, pc, j.class, j.row, j.pol, j.file, j.i)
  BY JobEdits
<1>3. IsJob(b, a.pc, a.class, a.row, a.pol, f, a.i)
  <2> HIDE DEF a
  <2>1. a \in JobRows
    BY <1>2 DEF IsJob
  <2> QED
    BY <2>1, JobEdits
<1> HIDE DEF a, b
<1>4. b \in JobRows
  BY <1>3 DEF IsJob
<1>5. IsJob([b EXCEPT !.i = n], b.pc, b.class, b.row, b.pol, b.file, n)
  BY <1>4, JobEdits
<1> QED
  BY <1>1, <1>2, <1>3, <1>5 DEF IsJob

\* invalidate() forgets every class.
LEMMA NothingListed == DOMAIN <<>> = {}
<1>1. <<>> \in Seq({}) /\ Len(<<>>) = 0
  OBVIOUS
<1>2. DOMAIN <<>> = 1..Len(<<>>)
  BY <1>1
<1> QED
  BY <1>1, <1>2

\* What a file lists.
LEMMA Listed ==
    ASSUME NEW S, NEW s \in Seq(S), NEW n \in Nat, n >= 1
    PROVE  /\ n <= Len(s) => n \in 1..Len(s) /\ s[n] \in S
           /\ n <= Len(s) \/ n > Len(s)
OBVIOUS

\* Saving a policy passes its gate before the write.
LEMMA SaveReadKeeps ==
    ASSUME PolicyIInv, NEW h \in Writers, NEW c \in Classes, NEW bound \in SUBSET Bindable,
           NEW ack \in SUBSET ThirdParty, SaveRead(h, c, bound, ack)
    PROVE  PolicyIInv'
<1> DEFINE v == Values(c, bound, ack)
           d == [Idle EXCEPT !.pc = "save", !.class = c, !.pol = v]
<1>1. /\ Gate(c, bound, ack) /\ job' = [job EXCEPT ![h] = d]
      /\ acked' = acked \cup {<<c, m>> : m \in ack}
      /\ UNCHANGED <<class, policy, flagged, writes, entry, fill>>
  BY DEF SaveRead, SetJob, EngineUnchanged
<1>2. v \in PolicyRows /\ Acknowledged(c, v, acked')
  BY <1>1, GatedValues
<1> HIDE DEF v
<1>3. IsJob(d, "save", c, Idle.row, v, Idle.file, Idle.i)
  BY <1>2, BlankJob, JobEditsPolicy
<1> HIDE DEF d
<1>4. JobFits(d, acked') /\ d \in JobRows
  BY <1>2, <1>3 DEF JobFits, Importing, IsJob
<1> QED
  BY <1>1, <1>4, JobKeeps

\* An import begins at the first entry of its file.
LEMMA ImportBeginKeeps ==
    ASSUME PolicyIInv, NEW h \in Writers, NEW f \in Files, ImportBegin(h, f)
    PROVE  PolicyIInv'
<1> DEFINE d == [Idle EXCEPT !.pc = "import class", !.file = f, !.i = 1]
<1>1. /\ job' = [job EXCEPT ![h] = d]
      /\ acked' = acked \cup UNION {{<<p.class, m>> : m \in p.ack} : p \in Range(f.policies)}
      /\ UNCHANGED <<class, policy, flagged, writes, entry, fill>>
  BY DEF ImportBegin, SetJob, EngineUnchanged
<1>2. IsJob(d, "import class", Idle.class, Idle.row, Idle.pol, f, 1)
  BY BlankJob, JobEditsFile DEF Importing
<1>3. \A n \in 1..Len(f.policies) : \A m \in f.policies[n].ack : <<f.policies[n].class, m>> \in acked'
  <2> SUFFICES ASSUME NEW n \in 1..Len(f.policies), NEW m \in f.policies[n].ack
               PROVE  <<f.policies[n].class, m>> \in acked'
    OBVIOUS
  <2>1. f.policies \in Seq([class : Classes, bound : SUBSET Bindable, ack : SUBSET ThirdParty])
    BY PolicyAdminAssumption
  <2>2. f.policies[n] \in Range(f.policies)
    BY <2>1 DEF Range
  <2>3. <<f.policies[n].class, m>> \in {<<f.policies[n].class, x>> : x \in f.policies[n].ack}
    OBVIOUS
  <2> QED
    BY <1>1, <2>2, <2>3
<1> HIDE DEF d
<1>4. JobFits(d, acked') /\ d \in JobRows
  <2>1. d \in JobRows /\ d.pc = "import class" /\ d.file = f /\ d.i = 1
    BY <1>2 DEF IsJob
  <2> HIDE DEF d
  <2>2. d.pc \notin {"save", "import save"} /\ d.pc # "import write"
    BY <2>1
  <2>3. d.i \in Nat /\ d.i >= 1
    <3>1. d.i = 1
      BY <2>1, Zenon
    <3> QED
      BY <3>1
  <2> QED
    BY <1>3, <2>1, <2>2, <2>3 DEF JobFits
<1> QED
  BY <1>1, <1>4, JobKeeps

\* An import reads the class of its entry.
LEMMA ImportReadClassKeeps ==
    ASSUME PolicyIInv, NEW h \in Writers, ImportReadClass(h)
    PROVE  PolicyIInv'
<1> DEFINE j == job[h]
           k == j.file.classes[j.i]
           d == [j EXCEPT !.pc = "import write", !.class = k.class, !.row = class[k.class]]
           e == [j EXCEPT !.pc = "import policy", !.i = 1]
<1>1. /\ j.pc = "import class" /\ UNCHANGED <<class, policy, flagged, acked, writes, entry, fill>>
      /\ job' = [job EXCEPT ![h] = IF j.i <= Len(j.file.classes) THEN d ELSE e]
  BY DEF ImportReadClass, SetJob, EngineUnchanged
<1>2. j \in JobRows /\ JobFits(j, acked) /\ j.i \in Nat
  BY DEF PolicyIInv, JobRows
<1>3. j.file \in Files /\ j.i >= 1
  BY <1>1, <1>2 DEF JobFits, Importing
<1>4. CASE j.i <= Len(j.file.classes)
  <2>1. k \in [class : Classes, sens : Levels, needs : BOOLEAN]
    <3>1. j.file.classes \in Seq([class : Classes, sens : Levels, needs : BOOLEAN])
      BY <1>3, PolicyAdminAssumption
    <3> QED
      BY <1>2, <1>3, <1>4, <3>1, Listed
  <2>2. class[k.class] \in ClassRows /\ k.class \in Classes
    BY <2>1 DEF PolicyIInv
  <2> HIDE DEF k, j
  <2>3. IsJob(d, "import write", k.class, class[k.class], j.pol, j.file, j.i)
    BY <1>2, <2>2, JobEditsClass DEF Importing
  <2> HIDE DEF d
  <2>4. JobFits(d, acked') /\ d \in JobRows
    BY <1>1, <1>2, <1>3, <1>4, <2>3 DEF JobFits, Importing, IsJob
  <2> QED
    BY <1>1, <1>4, <2>4, JobKeeps
<1>5. CASE ~ (j.i <= Len(j.file.classes))
  <2> HIDE DEF j
  <2>1. IsJob(e, "import policy", j.class, j.row, j.pol, j.file, 1)
    BY <1>2, JobEditsTwo DEF Importing
  <2> HIDE DEF e
  <2>2. JobFits(e, acked') /\ e \in JobRows
    <3>1. e \in JobRows /\ e.pc = "import policy" /\ e.file = j.file /\ e.i = 1
      BY <2>1 DEF IsJob
    <3> HIDE DEF e
    <3>2. e.pc \notin {"save", "import save"} /\ e.pc # "import write"
      BY <3>1
    <3>4. e.i \in Nat /\ e.i >= 1
      <4>1. e.i = 1
        BY <3>1, Zenon
      <4> QED
        BY <4>1
    <3>3. \A n \in 1..Len(j.file.policies) : \A m \in j.file.policies[n].ack : <<j.file.policies[n].class, m>> \in acked
      BY <1>1, <1>2 DEF JobFits, Importing
    <3> QED
      BY <1>1, <1>3, <3>1, <3>2, <3>3, <3>4 DEF JobFits
  <2> QED
    BY <1>1, <1>5, <2>2, JobKeeps
<1> QED
  BY <1>4, <1>5

\* An import passes savePolicy()'s gate for each policy, or ends there.
LEMMA ImportReadPolicyKeeps ==
    ASSUME PolicyIInv, NEW h \in Writers, ImportReadPolicy(h)
    PROVE  PolicyIInv'
<1> DEFINE j == job[h]
           p == j.file.policies[j.i]
           v == Values(p.class, p.bound, p.ack)
           d == [j EXCEPT !.pc = "import save", !.class = p.class, !.pol = v]
           e == [j EXCEPT !.pc = "invalidate"]
<1>1. /\ j.pc = "import policy" /\ UNCHANGED <<class, policy, flagged, acked, writes, entry, fill>>
      /\ job' = [job EXCEPT ![h] =
                    IF j.i > Len(j.file.policies) THEN e
                    ELSE IF ~ Exists(p.class) \/ ~ Gate(p.class, p.bound, p.ack) THEN Idle ELSE d]
  BY DEF ImportReadPolicy, SetJob, EngineUnchanged
<1>2. j \in JobRows /\ JobFits(j, acked) /\ j.i \in Nat
  BY DEF PolicyIInv, JobRows
<1>3. /\ j.file \in Files /\ j.i >= 1
      /\ \A n \in 1..Len(j.file.policies) : \A m \in j.file.policies[n].ack : <<j.file.policies[n].class, m>> \in acked
  BY <1>1, <1>2 DEF JobFits, Importing
<1>4. CASE job' = [job EXCEPT ![h] = e]
  <2>1. IsJob(e, "invalidate", j.class, j.row, j.pol, j.file, j.i)
    BY <1>2, JobEdits
  <2> HIDE DEF e
  <2>2. JobFits(e, acked') /\ e \in JobRows
    BY <2>1, RestFits DEF IsJob
  <2> QED
    BY <1>1, <1>4, <2>2, JobKeeps
<1>5. CASE job' = [job EXCEPT ![h] = Idle]
  <2>1. JobFits(Idle, acked') /\ Idle \in JobRows
    BY BlankJob, RestFits
  <2> QED
    BY <1>1, <1>5, <2>1, JobKeeps
<1>6. CASE j.i <= Len(j.file.policies) /\ Gate(p.class, p.bound, p.ack) /\ job' = [job EXCEPT ![h] = d]
  <2>1. p \in [class : Classes, bound : SUBSET Bindable, ack : SUBSET ThirdParty]
    <3>1. j.file.policies \in Seq([class : Classes, bound : SUBSET Bindable, ack : SUBSET ThirdParty])
      BY <1>3, PolicyAdminAssumption
    <3> QED
      BY <1>2, <1>3, <1>6, <3>1, Listed
  <2>2. \A m \in p.ack : <<p.class, m>> \in acked
    <3>1. j.i \in 1..Len(j.file.policies)
      <4>1. j.file.policies \in Seq([class : Classes, bound : SUBSET Bindable, ack : SUBSET ThirdParty])
        BY <1>3, PolicyAdminAssumption
      <4> QED
        BY <1>2, <1>3, <1>6, <4>1, Listed
    <3> QED
      BY <1>3, <3>1
  <2> HIDE DEF p
  <2>3. v \in PolicyRows /\ Acknowledged(p.class, v, acked)
    BY <1>6, <2>1, <2>2, GatedValues
  <2> HIDE DEF v
  <2>4. IsJob(d, "import save", p.class, j.row, v, j.file, j.i)
    BY <1>2, <2>1, <2>3, JobEditsPolicy DEF Importing
  <2> HIDE DEF d, j
  <2>5. JobFits(d, acked') /\ d \in JobRows
    BY <1>1, <1>3, <2>3, <2>4 DEF JobFits, Importing, IsJob
  <2> QED
    BY <1>1, <1>6, <2>5, JobKeeps
<1>7. j.i > Len(j.file.policies) \/ j.i <= Len(j.file.policies)
  <2>1. j.file.policies \in Seq([class : Classes, bound : SUBSET Bindable, ack : SUBSET ThirdParty])
    BY <1>3, PolicyAdminAssumption
  <2> QED
    BY <1>2, <1>3, <2>1, Listed
<1> QED
  BY <1>1, <1>4, <1>5, <1>6, <1>7

\* A statement that fails ends the handler where it is; what it wrote stays.
LEMMA GivesUpKeeps ==
    ASSUME PolicyIInv, NEW h \in Writers, GivesUp(h)
    PROVE  PolicyIInv'
<1>1. job' = [job EXCEPT ![h] = Idle] /\ UNCHANGED <<class, policy, flagged, acked, writes, entry, fill>>
  BY DEF GivesUp, SetJob, EngineUnchanged
<1>2. JobFits(Idle, acked') /\ Idle \in JobRows
  BY BlankJob, RestFits
<1> QED
  BY <1>1, <1>2, JobKeeps

\* A writer that has been told to write rows of a class, and rests.
LEMMA SaveWriteKeeps ==
    ASSUME PolicyIInv, NEW h \in Writers, SaveWrite(h)
    PROVE  PolicyIInv'
<1> DEFINE j == job[h]
           pc == IF j.pc = "save" THEN "invalidate" ELSE "import invalidate"
           d == [j EXCEPT !.pc = pc]
<1>1. /\ j.pc \in {"save", "import save"} /\ policy' = [policy EXCEPT ![j.class] = j.pol]
      /\ writes < MaxWrites /\ writes' = writes + 1
      /\ job' = [job EXCEPT ![h] = d] /\ UNCHANGED <<class, flagged, acked, entry, fill>>
  BY DEF SaveWrite, SetJob, Counted, EngineUnchanged
<1>2. j \in JobRows /\ JobFits(j, acked) /\ j.class \in Classes /\ j.pol \in PolicyRows
  BY DEF PolicyIInv, JobRows
<1>3. Acknowledged(j.class, j.pol, acked)
  BY <1>1, <1>2 DEF JobFits
<1>4. /\ policy' \in [Classes -> PolicyRows]
      /\ policy'[j.class] = j.pol /\ \A c \in Classes \ {j.class} : policy'[c] = policy[c]
  BY <1>1, <1>2 DEF PolicyIInv
<1>5. pc \in {"invalidate", "import invalidate"} /\ (pc = "import invalidate" => j.pc = "import save")
  BY <1>1
<1> HIDE DEF pc, j
<1>6. IsJob(d, pc, j.class, j.row, j.pol, j.file, j.i)
  BY <1>2, <1>5, JobEdits DEF Importing
<1> HIDE DEF d
<1>7. JobFits(d, acked) /\ d \in JobRows
  <2>1. d \in JobRows /\ d.pc = pc /\ d.file = j.file /\ d.i = j.i
    BY <1>6 DEF IsJob
  <2>2. CASE pc = "invalidate"
    BY <2>1, <2>2, RestFits
  <2>3. CASE pc = "import invalidate"
    <3>1. j.pc = "import save"
      BY <1>5, <2>3
    <3> QED
      BY <1>2, <2>1, <2>3, <3>1 DEF JobFits, Importing
  <2> QED
    BY <1>5, <2>1, <2>2, <2>3
<1>8. writes' \in 0..MaxWrites
  <2>1. writes \in 0..MaxWrites /\ MaxWrites \in Nat /\ writes < MaxWrites /\ writes' = writes + 1
    BY <1>1, PolicyAdminAssumption DEF PolicyIInv
  <2> QED
    BY <2>1
<1>9. \A c \in Classes : Acknowledged(c, policy'[c], acked)
  BY <1>3, <1>4 DEF PolicyIInv
<1>10. /\ job' \in [Writers -> JobRows]
       /\ \A g \in Writers : JobFits(job'[g], acked)
  BY <1>1, <1>7 DEF PolicyIInv
<1>11. EntriesFit'
  BY <1>1 DEF PolicyIInv, EntriesFit
<1> QED
  BY <1>1, <1>4, <1>8, <1>9, <1>10, <1>11 DEF PolicyIInv

\* A class is written by a handler that goes on as d.
LEMMA ClassWriteKeeps ==
    ASSUME PolicyIInv, NEW h \in Writers, NEW d \in JobRows, job' = [job EXCEPT ![h] = d], JobFits(d, acked),
           NEW c \in Classes, NEW k \in ClassRows, class' = [class EXCEPT ![c] = k],
           Counted, UNCHANGED <<policy, flagged, acked, entry, fill>>
    PROVE  PolicyIInv'
<1>1. class' \in [Classes -> ClassRows]
  BY DEF PolicyIInv
<1>2. job' \in [Writers -> JobRows] /\ \A g \in Writers : JobFits(job'[g], acked)
  BY DEF PolicyIInv
<1>3. writes' \in 0..MaxWrites
  BY PolicyAdminAssumption DEF PolicyIInv, Counted
<1>4. EntriesFit'
  BY DEF PolicyIInv, EntriesFit
<1> QED
  BY <1>1, <1>2, <1>3, <1>4 DEF PolicyIInv

\* An operator's patch of a class is one UPDATE.
LEMMA PatchClassKeeps ==
    ASSUME PolicyIInv, NEW h \in Writers, NEW c \in Classes, NEW s \in Levels, PatchClass(h, c, s)
    PROVE  PolicyIInv'
<1> DEFINE k == [class[c] EXCEPT !.sens = s]
           d == [Idle EXCEPT !.pc = "invalidate"]
<1>1. /\ class' = [class EXCEPT ![c] = k] /\ job' = [job EXCEPT ![h] = d]
      /\ Counted /\ UNCHANGED <<policy, flagged, acked, entry, fill>>
  BY DEF PatchClass, SetJob, EngineUnchanged
<1>2. k \in ClassRows
  BY DEF PolicyIInv, ClassRows
<1>3. d \in JobRows /\ JobFits(d, acked)
  <2>1. d \in JobRows /\ d.pc = "invalidate"
    BY RestingJobs
  <2> HIDE DEF d
  <2> QED
    BY <2>1, RestFits
<1> HIDE DEF k, d
<1> QED
  BY <1>1, <1>2, <1>3, ClassWriteKeeps

\* An app's registration adds a class, or leaves an existing one its
\* sensitivity.
LEMMA RegisterKeeps ==
    ASSUME PolicyIInv, NEW h \in Writers, NEW c \in Classes, NEW needs \in Needs, Register(h, c, needs)
    PROVE  PolicyIInv'
<1> DEFINE s == IF Exists(c) THEN class[c].sens ELSE PackSens(c)
           k == [sens |-> s, needs |-> needs]
           d == [Idle EXCEPT !.pc = "invalidate"]
<1>1. /\ class' = [class EXCEPT ![c] = k] /\ job' = [job EXCEPT ![h] = d]
      /\ Counted /\ UNCHANGED <<policy, flagged, acked, entry, fill>>
  BY DEF Register, SetJob, EngineUnchanged
<1>2. s \in Levels \cup {Absent}
  <2>1. PackSens(c) \in Levels
    BY PolicyAdminAssumption DEF PackSens
  <2> QED
    BY <2>1 DEF PolicyIInv, ClassRows
<1> HIDE DEF s
<1>3. k \in ClassRows
  BY <1>2, PolicyAdminAssumption DEF ClassRows
<1>4. d \in JobRows /\ JobFits(d, acked)
  <2>1. d \in JobRows /\ d.pc = "invalidate"
    BY RestingJobs
  <2> HIDE DEF d
  <2> QED
    BY <2>1, RestFits
<1> HIDE DEF k, d
<1> QED
  BY <1>1, <1>3, <1>4, ClassWriteKeeps

\* The stricter of two levels is a level, and no laxer than the row's.
LEMMA StricterFits ==
    ASSUME NEW row \in ClassRows, NEW s \in Levels
    PROVE  Stricter(row, s) \in Levels /\ (row.sens # Absent => Stricter(row, s) <= row.sens)
<1>1. row.sens \in Levels \cup {Absent} /\ Levels \subseteq 0..2 /\ s \in 0..2
  BY PolicyAdminAssumption DEF ClassRows
<1>0. s \in Int /\ (row.sens # Absent => row.sens \in Int /\ row.sens \in Levels)
  <2>1. row.sens # Absent => row.sens \in Levels
    BY <1>1, Zenon
  <2>2. \A x \in Levels : x \in Int
    <3>1. Levels \subseteq 0..2
      BY <1>1
    <3> QED
      BY <3>1
  <2>3. s \in Int
    BY <2>2
  <2> QED
    BY <2>1, <2>2, <2>3, Zenon
<1>2. CASE row.sens # Absent /\ row.sens < s
  <2>1. Stricter(row, s) = row.sens
    BY <1>2 DEF Stricter
  <2>2. row.sens \in Levels /\ row.sens <= row.sens
    BY <1>0, <1>2
  <2> QED
    BY <2>1, <2>2
<1>3. CASE row.sens # Absent /\ ~ (row.sens < s)
  <2>1. Stricter(row, s) = s
    BY <1>3 DEF Stricter
  <2>2. s <= row.sens
    BY <1>0, <1>3
  <2> QED
    BY <2>1, <2>2
<1>4. CASE row.sens = Absent
  BY <1>4 DEF Stricter
<1> QED
  BY <1>2, <1>3, <1>4

\* What an import is about to write.
LEMMA ImportWrites ==
    ASSUME PolicyIInv, NEW h \in Writers, job[h].pc = "import write"
    PROVE  /\ job[h] \in JobRows /\ job[h].row \in ClassRows /\ job[h].class \in Classes /\ job[h].i \in Nat
           /\ job[h].file \in Files /\ JobFits(job[h], acked)
           /\ job[h].file.classes[job[h].i] \in [class : Classes, sens : Levels, needs : BOOLEAN]
<1>1. /\ job[h] \in JobRows /\ JobFits(job[h], acked) /\ job[h].row \in ClassRows /\ job[h].class \in Classes
      /\ job[h].i \in Nat
  BY DEF PolicyIInv, JobRows
<1>2. job[h].file \in Files /\ job[h].i >= 1 /\ job[h].i <= Len(job[h].file.classes)
  BY <1>1 DEF JobFits, Importing
<1>3. job[h].file.classes \in Seq([class : Classes, sens : Levels, needs : BOOLEAN])
  BY <1>2, PolicyAdminAssumption
<1> QED
  BY <1>1, <1>2, <1>3, Listed

\* An import writes the class it has read, made stricter.
LEMMA ImportWriteClassKeeps ==
    ASSUME PolicyIInv, NEW h \in Writers, ImportWriteClass(h)
    PROVE  PolicyIInv'
<1> DEFINE j == job[h]
           f == j.file.classes[j.i]
           k == [sens |-> Stricter(j.row, f.sens), needs |-> f.needs]
           n == j.i + 1
           d == [j EXCEPT !.pc = "import class", !.i = n]
<1>1. /\ j.pc = "import write" /\ class' = [class EXCEPT ![j.class] = k] /\ job' = [job EXCEPT ![h] = d]
      /\ Counted /\ UNCHANGED <<policy, flagged, acked, entry, fill>>
  BY DEF ImportWriteClass, SetJob, EngineUnchanged
<1>2. /\ j \in JobRows /\ j.class \in Classes /\ j.i \in Nat /\ JobFits(j, acked)
      /\ f \in [class : Classes, sens : Levels, needs : BOOLEAN] /\ j.row \in ClassRows
  BY <1>1, ImportWrites
<1>3. k \in ClassRows
  <2>1. f.sens \in Levels /\ f.needs \in BOOLEAN
    BY <1>2
  <2> HIDE DEF f
  <2>2. Stricter(j.row, f.sens) \in Levels
    BY <1>2, <2>1, StricterFits
  <2> QED
    BY <2>1, <2>2 DEF ClassRows
<1>4. n \in Nat /\ n >= 1
  BY <1>2
<1> HIDE DEF n, f, k, j
<1>5. IsJob(d, "import class", j.class, j.row, j.pol, j.file, n)
  BY <1>2, <1>4, JobEditsTwo DEF Importing
<1> HIDE DEF d
<1>6. JobFits(d, acked) /\ d \in JobRows
  <2>1. d \in JobRows /\ d.pc = "import class" /\ d.file = j.file /\ d.i = n
    BY <1>5 DEF IsJob
  <2>2. d.pc \notin {"save", "import save"} /\ d.pc # "import write"
    BY <2>1
  <2>3. /\ j.file \in Files
        /\ \A m \in 1..Len(j.file.policies) : \A x \in j.file.policies[m].ack : <<j.file.policies[m].class, x>> \in acked
    BY <1>1, <1>2 DEF JobFits, Importing
  <2> QED
    BY <1>4, <2>1, <2>2, <2>3 DEF JobFits
<1> QED
  BY <1>1, <1>2, <1>3, <1>6, ClassWriteKeeps

\* The writer ends by clearing the engine's cache.
LEMMA InvalidateKeeps ==
    ASSUME PolicyIInv, NEW h \in Writers, Invalidate(h)
    PROVE  PolicyIInv'
<1> DEFINE j == job[h]
           n == j.i + 1
           e == [j EXCEPT !.pc = "import policy", !.i = n]
           d == IF j.pc = "invalidate" THEN Idle ELSE e
<1>1. /\ j.pc \in {"invalidate", "import invalidate"} /\ entry' = <<>> /\ job' = [job EXCEPT ![h] = d]
      /\ UNCHANGED <<class, policy, flagged, fill, acked, writes>>
  BY DEF Invalidate, SetJob
<1>2. j \in JobRows /\ JobFits(j, acked) /\ j.i \in Nat /\ n \in Nat /\ n >= 1
  BY DEF PolicyIInv, JobRows
<1> HIDE DEF n
<1>3. JobFits(d, acked) /\ d \in JobRows
  <2>1. CASE j.pc = "invalidate"
    BY <2>1, BlankJob, RestFits
  <2>2. CASE j.pc = "import invalidate"
    <3>1. d = e
      BY <2>2
    <3> HIDE DEF j, d
    <3>2. IsJob(e, "import policy", j.class, j.row, j.pol, j.file, n)
      BY <1>2, JobEditsTwo DEF Importing
    <3> HIDE DEF e
    <3>3. e \in JobRows /\ e.pc = "import policy" /\ e.file = j.file /\ e.i = n
      BY <3>2 DEF IsJob
    <3>4. e.pc \notin {"save", "import save"} /\ e.pc # "import write"
      BY <3>3
    <3>5. /\ j.file \in Files
          /\ \A m \in 1..Len(j.file.policies) : \A x \in j.file.policies[m].ack : <<j.file.policies[m].class, x>> \in acked
      BY <1>2, <2>2 DEF JobFits, Importing
    <3> QED
      BY <1>2, <3>1, <3>3, <3>4, <3>5 DEF JobFits
  <2> QED
    BY <1>1, <2>1, <2>2
<1> HIDE DEF d
<1>4. job' \in [Writers -> JobRows] /\ \A g \in Writers : JobFits(job'[g], acked)
  BY <1>1, <1>3 DEF PolicyIInv
<1>5. EntriesFit'
  <2>1. DOMAIN entry' = {}
    BY <1>1, NothingListed
  <2> QED
    BY <1>1, <2>1 DEF PolicyIInv, EntriesFit
<1> QED
  BY <1>1, <1>4, <1>5 DEF PolicyIInv

\* The installer applies the default pack, which binds no flagged model.
LEMMA ApplyPackKeeps ==
    ASSUME PolicyIInv, NEW c \in Classes, ApplyPack(c)
    PROVE  PolicyIInv'
<1> DEFINE k == IF Exists(c) THEN class[c] ELSE Pack[c]
<1>1. /\ c \in DOMAIN Pack /\ Counted /\ class' = [class EXCEPT ![c] = k]
      /\ \/ \E m \in PickDefaultModel(Pack[c]) : policy' = [policy EXCEPT ![c] = [bound |-> {m}, ack |-> {}, seen |-> flagged]]
         \/ UNCHANGED policy
      /\ UNCHANGED <<flagged, job, acked, entry, fill>>
  BY DEF ApplyPack, EngineUnchanged
<1>2. k \in ClassRows
  BY <1>1, PolicyAdminAssumption DEF PolicyIInv, ClassRows
<1> HIDE DEF k
<1>3. class' \in [Classes -> ClassRows]
  BY <1>1, <1>2 DEF PolicyIInv
<1>4. /\ policy' \in [Classes -> PolicyRows]
      /\ \A x \in Classes : Acknowledged(x, policy'[x], acked)
  <2>1. CASE UNCHANGED policy
    BY <2>1 DEF PolicyIInv
  <2>2. CASE \E m \in PickDefaultModel(Pack[c]) : policy' = [policy EXCEPT ![c] = [bound |-> {m}, ack |-> {}, seen |-> flagged]]
    <3>1. PICK m \in PickDefaultModel(Pack[c]) : policy' = [policy EXCEPT ![c] = [bound |-> {m}, ack |-> {}, seen |-> flagged]]
      BY <2>2
    <3>2. m \in Bindable \ flagged /\ flagged \subseteq ThirdParty
      BY DEF PickDefaultModel, PolicyIInv
    <3> DEFINE v == [bound |-> {m}, ack |-> {}, seen |-> flagged]
    <3>3. v \in PolicyRows /\ Acknowledged(c, v, acked)
      BY <3>2 DEF PolicyRows, Acknowledged
    <3> HIDE DEF v
    <3> QED
      BY <3>1, <3>3 DEF PolicyIInv, v
  <2> QED
    BY <1>1, <2>1, <2>2
<1>5. writes' \in 0..MaxWrites
  BY <1>1, PolicyAdminAssumption DEF PolicyIInv, Counted
<1>6. EntriesFit'
  BY <1>1 DEF PolicyIInv, EntriesFit
<1> QED
  BY <1>1, <1>3, <1>4, <1>5, <1>6 DEF PolicyIInv

\* Discovery flags a model: what is bound stays, and so does what was
\* acknowledged for it.
LEMMA RetagKeeps ==
    ASSUME PolicyIInv, NEW m \in ThirdParty, Retag(m)
    PROVE  PolicyIInv'
<1>1. flagged' = flagged \cup {m} /\ UNCHANGED <<class, policy, job, acked, writes, entry, fill>>
  BY DEF Retag, EngineUnchanged
<1>2. flagged' \subseteq ThirdParty
  BY <1>1 DEF PolicyIInv
<1>3. EntriesFit'
  BY <1>1 DEF PolicyIInv, EntriesFit
<1> QED
  BY <1>1, <1>2, <1>3 DEF PolicyIInv

\* resolve() and the entries' time to live: only the cache changes.
LEMMA CacheKeeps ==
    ASSUME PolicyIInv, EntriesFit', UNCHANGED <<class, policy, flagged, job, acked, writes>>
    PROVE  PolicyIInv'
BY DEF PolicyIInv

\* resolve() that misses reads the class ...
LEMMA ResolveClassKeeps ==
    ASSUME PolicyIInv, NEW c \in Classes, ResolveClass(c)
    PROVE  PolicyIInv'
<1> DEFINE d == [at |-> "class", class |-> c, row |-> class[c], pol |-> NoPolicy]
<1>1. fill' = d /\ Exists(c) /\ UNCHANGED <<class, policy, flagged, job, entry, acked, writes>>
  BY DEF ResolveClass
<1>2. d \in FillRows /\ d.row.sens \in Levels /\ d.at = "class"
  BY <1>1, BlankJob DEF FillRows, Exists, PolicyIInv, ClassRows
<1> HIDE DEF d
<1>3. EntriesFit'
  BY <1>1, <1>2 DEF PolicyIInv, EntriesFit
<1> QED
  BY <1>1, <1>3, CacheKeeps

\* ... then the policy ...
LEMMA ResolvePolicyKeeps ==
    ASSUME PolicyIInv, ResolvePolicy
    PROVE  PolicyIInv'
<1> DEFINE a == [fill EXCEPT !.at = "policy"]
           d == [a EXCEPT !.pol = policy[fill.class]]
<1>1. /\ fill.at = "class" /\ UNCHANGED <<class, policy, flagged, job, entry, acked, writes>>
      /\ \/ fill' = NoFill
         \/ policy[fill.class] # NoPolicy /\ fill' = [fill EXCEPT !.at = "policy", !.pol = policy[fill.class]]
  BY DEF ResolvePolicy
<1>2. [fill EXCEPT !.at = "policy", !.pol = policy[fill.class]] = d
  OBVIOUS
<1>3. fill \in FillRows /\ fill.row.sens \in Levels /\ fill.class \in Classes /\ policy[fill.class] \in PolicyRows
  BY <1>1 DEF PolicyIInv, EntriesFit, FillRows
<1>4. a \in FillRows /\ a.at = "policy" /\ a.row = fill.row
  BY <1>3 DEF FillRows
<1> HIDE DEF a
<1>5. d \in FillRows /\ d.at = "policy" /\ d.row = fill.row /\ d.pol = policy[fill.class]
  BY <1>3, <1>4 DEF FillRows
<1> HIDE DEF d
<1>6. EntriesFit'
  BY <1>1, <1>2, <1>3, <1>5, BlankJob DEF PolicyIInv, EntriesFit
<1> QED
  BY <1>1, <1>6, CacheKeeps

\* ... and caches the two, even if they were read before an invalidation.
LEMMA ResolveStoreKeeps ==
    ASSUME PolicyIInv, ResolveStore
    PROVE  PolicyIInv'
<1> DEFINE c == fill.class
           d == [row |-> fill.row, pol |-> fill.pol]
<1>1. /\ fill.at = "policy" /\ entry' = [x \in DOMAIN entry \cup {c} |-> IF x = c THEN d ELSE entry[x]] /\ fill' = NoFill
      /\ UNCHANGED <<class, policy, flagged, job, acked, writes>>
  BY DEF ResolveStore
<1>2. c \in Classes /\ d.row.sens \in Levels /\ d.pol # NoPolicy
  BY <1>1 DEF PolicyIInv, EntriesFit, FillRows
<1> HIDE DEF c, d
<1>3. /\ DOMAIN entry' = {c} \cup DOMAIN entry
      /\ \A x \in DOMAIN entry' : entry'[x] = IF x = c THEN d ELSE entry[x]
  BY <1>1
<1>4. EntriesFit'
  BY <1>1, <1>2, <1>3, BlankJob DEF PolicyIInv, EntriesFit
<1> QED
  BY <1>1, <1>4, CacheKeeps

\* A cache entry expires.
LEMMA ExpiresKeeps ==
    ASSUME PolicyIInv, NEW c \in Classes, Expires(c)
    PROVE  PolicyIInv'
<1>1. /\ entry' = [x \in DOMAIN entry \ {c} |-> entry[x]]
      /\ UNCHANGED <<class, policy, flagged, job, fill, acked, writes>>
  BY DEF Expires, Restrict
<1>2. EntriesFit'
  BY <1>1 DEF PolicyIInv, EntriesFit
<1> QED
  BY <1>1, <1>2, CacheKeeps

\* An empty policy table with an empty cache.
LEMMA PolicyStarts == PolicyAdminInit => PolicyIInv
<1> SUFFICES ASSUME PolicyAdminInit PROVE PolicyIInv
  OBVIOUS
<1>1. /\ class = [c \in Classes |-> NoRow] /\ policy = [c \in Classes |-> NoPolicy]
      /\ job = [h \in Writers |-> Idle] /\ entry = <<>> /\ fill = NoFill /\ writes = 0 /\ flagged \subseteq ThirdParty
  BY DEF PolicyAdminInit
<1>2. /\ class \in [Classes -> ClassRows] /\ policy \in [Classes -> PolicyRows]
      /\ job \in [Writers -> JobRows] /\ writes \in 0..MaxWrites /\ flagged \subseteq ThirdParty
  BY <1>1, BlankJob, PolicyAdminAssumption
<1>3. \A c \in Classes : Acknowledged(c, policy[c], acked)
  BY <1>1 DEF Acknowledged, NoPolicy
<1>4. \A h \in Writers : JobFits(job[h], acked)
  BY <1>1, BlankJob, RestFits
<1>5. EntriesFit
  <2>1. DOMAIN entry = {}
    BY <1>1
  <2> QED
    BY <1>1, <2>1, BlankJob DEF EntriesFit
<1> QED
  BY <1>2, <1>3, <1>4, <1>5 DEF PolicyIInv

\* Every step of writers, apps and the engine keeps the invariant.
LEMMA PolicyStep == PolicyIInv /\ [PolicyAdminNext]_policyVars => PolicyIInv'
<1> SUFFICES ASSUME PolicyIInv, [PolicyAdminNext]_policyVars PROVE PolicyIInv'
  OBVIOUS
<1>1. CASE UNCHANGED policyVars
  BY <1>1 DEF policyVars, PolicyIInv, EntriesFit
<1>2. ASSUME NEW h \in Writers, WriterStep(h) PROVE PolicyIInv'
  BY <1>2, SaveReadKeeps, PatchClassKeeps, RegisterKeeps, SaveWriteKeeps, ImportBeginKeeps, ImportReadClassKeeps,
     ImportWriteClassKeeps, ImportReadPolicyKeeps, InvalidateKeeps, GivesUpKeeps DEF WriterStep
<1>3. CASE \E c \in Classes : ApplyPack(c) \/ ResolveClass(c) \/ Expires(c)
  BY <1>3, ApplyPackKeeps, ResolveClassKeeps, ExpiresKeeps
<1> QED
  BY <1>1, <1>2, <1>3, RetagKeeps, ResolvePolicyKeeps, ResolveStoreKeeps DEF PolicyAdminNext

\* The invariant, for any number of writers and of writes, and for all files.
THEOREM PolicyInductive == PolicyAdminSpec => []PolicyIInv
BY PolicyStarts, PolicyStep, PTL DEF PolicyAdminSpec

\* The tables and the engine's cache hold what their types say: nothing is
\* cached but a registered class with a policy.
THEOREM PolicyTypes == PolicyAdminSpec => []PolicyAdminTypeOK
<1>1. PolicyIInv => PolicyAdminTypeOK
  BY DEF PolicyIInv, PolicyAdminTypeOK, EntriesFit, ClassRows, PolicyRows, FillRows
<1> QED
  BY <1>1, PolicyInductive, PTL

\* No third-party-hosted model is bound where nobody acknowledged it, on
\* whatever way the policy came (Q-098, Q-100), unless discovery flagged it after
\* the catalog was read for that policy.
THEOREM ThirdPartyIsAcknowledged == PolicyAdminSpec => []ThirdPartyAcknowledged
<1>1. PolicyIInv => ThirdPartyAcknowledged
  BY DEF PolicyIInv, ThirdPartyAcknowledged, Acknowledged
<1> QED
  BY <1>1, PolicyInductive, PTL

\* What a step other than an import's write does to sensitivities.
LEMMA RelaxingSteps ==
    ASSUME PolicyIInv, [PolicyAdminNext]_policyVars, NEW c \in Classes, Exists(c), class'[c].sens > class[c].sens
    PROVE  \/ \E h \in Writers, s \in Levels : PatchClass(h, c, s)
           \/ \E h \in Writers : job[h].pc = "import write" /\ job[h].row.sens # class[c].sens
<1>1. class \in [Classes -> ClassRows] /\ class[c].sens \in Int
  BY PolicyAdminAssumption DEF PolicyIInv, ClassRows, Absent
<1>2. class'[c].sens # class[c].sens
  BY <1>1
<1>3. ASSUME NEW h \in Writers, NEW b \in Classes, NEW s \in Levels, PatchClass(h, b, s)
      PROVE  PatchClass(h, c, s)
  <2>1. b # c => class'[c] = class[c]
    BY <1>1, <1>3 DEF PatchClass
  <2> QED
    BY <1>2, <1>3, <2>1
<1>4. ASSUME NEW h \in Writers, NEW b \in Classes, NEW n \in Needs, Register(h, b, n)
      PROVE  class'[c].sens = class[c].sens
  BY <1>1, <1>4 DEF Register
<1>5. ASSUME NEW b \in Classes, ApplyPack(b) PROVE class'[c].sens = class[c].sens
  BY <1>1, <1>5 DEF ApplyPack
<1>6. ASSUME NEW h \in Writers, ImportWriteClass(h), job[h].row.sens = class[c].sens PROVE FALSE
  <2> DEFINE j == job[h]
             f == j.file.classes[j.i]
             k == [sens |-> Stricter(j.row, f.sens), needs |-> f.needs]
  <2>1. j.pc = "import write" /\ class' = [class EXCEPT ![j.class] = k]
    BY <1>6 DEF ImportWriteClass
  <2>2. j.class \in Classes /\ j.row \in ClassRows /\ f.sens \in Levels
    <3>1. f \in [class : Classes, sens : Levels, needs : BOOLEAN]
      BY <2>1, ImportWrites
    <3> QED
      BY <2>1, <3>1, ImportWrites
  <2> HIDE DEF f
  <2>3. Stricter(j.row, f.sens) \in Levels /\ Stricter(j.row, f.sens) <= j.row.sens
    BY <1>6, <2>2, StricterFits DEF Exists
  <2>4. class'[c] = k
    BY <1>1, <1>2, <2>1, <2>2
  <2>5. class'[c].sens <= class[c].sens
    BY <1>6, <2>3, <2>4
  <2>6. Stricter(j.row, f.sens) \in Int
    BY <2>3, PolicyAdminAssumption
  <2> QED
    BY <1>1, <2>4, <2>5, <2>6
<1>7. ASSUME UNCHANGED class PROVE FALSE
  BY <1>2, <1>7
<1>8. CASE UNCHANGED policyVars
  BY <1>7, <1>8 DEF policyVars
<1>9. CASE \E b \in Classes : ApplyPack(b) \/ ResolveClass(b) \/ Expires(b)
  BY <1>2, <1>5, <1>7, <1>9 DEF ResolveClass, Expires
<1>10. CASE ResolvePolicy \/ ResolveStore \/ \E m \in ThirdParty : Retag(m)
  BY <1>7, <1>10 DEF ResolvePolicy, ResolveStore, Retag
<1>11. ASSUME NEW h \in Writers, WriterStep(h)
       PROVE  \/ \E g \in Writers, s \in Levels : PatchClass(g, c, s)
              \/ \E g \in Writers : job[g].pc = "import write" /\ job[g].row.sens # class[c].sens
  <2>1. CASE \E b \in Classes, s \in Levels : PatchClass(h, b, s)
    BY <1>3, <2>1
  <2>2. CASE \E b \in Classes, n \in Needs : Register(h, b, n)
    BY <1>2, <1>4, <2>2
  <2>3. CASE ImportWriteClass(h)
    <3>1. job[h].pc = "import write"
      BY <2>3 DEF ImportWriteClass
    <3> QED
      BY <1>6, <2>3, <3>1
  <2>4. CASE \/ \E b \in Classes : \E x \in SUBSET Bindable \ {{}}, a \in SUBSET ThirdParty : SaveRead(h, b, x, a)
             \/ SaveWrite(h) \/ ImportReadClass(h) \/ ImportReadPolicy(h) \/ Invalidate(h) \/ GivesUp(h)
             \/ \E f \in Files : ImportBegin(h, f)
    BY <1>7, <2>4 DEF SaveRead, SaveWrite, ImportReadClass, ImportReadPolicy, Invalidate, GivesUp, ImportBegin
  <2> QED
    BY <1>11, <2>1, <2>2, <2>3, <2>4 DEF WriterStep
<1> QED
  BY <1>8, <1>9, <1>10, <1>11 DEF PolicyAdminNext

\* Sensitivity is never relaxed but by the operator, or by an import that had
\* read another one (save.ts, registration.ts).
THEOREM RelaxedByOperators == PolicyAdminSpec => WidenedOnlyByOperator
<1> DEFINE A == \A c \in Classes :
        Exists(c) /\ class'[c].sens > class[c].sens =>
            \/ \E h \in Writers, s \in Levels : PatchClass(h, c, s)
            \/ \E h \in Writers : job[h].pc = "import write" /\ job[h].row.sens # class[c].sens
<1>1. PolicyIInv /\ [PolicyAdminNext]_policyVars => [A]_policyVars
  BY RelaxingSteps
<1> HIDE DEF A
<1>2. PolicyAdminSpec => [][A]_policyVars
  BY <1>1, PolicyInductive, PTL DEF PolicyAdminSpec
<1> QED
  BY <1>2, PTL DEF WidenedOnlyByOperator, A

-----------------------------------------------------------------------------
(* The response cache.                                                     *)

\* The Map holds a key once, and each key has seen, since it was last read or
\* first stored, every key that stands after it.
Ordered(s, seen) ==
    /\ \A i, j \in 1 .. Len(s) : s[i] = s[j] => i = j
    /\ \A i, j \in 1 .. Len(s) : i < j => s[j] \in seen[s[i]]

CacheIInv ==
    /\ ResponseCacheTypeOK
    /\ since \in [CacheKeys -> SUBSET CacheKeys]
    /\ \A k \in CacheKeys : IsFiniteSet(since[k])
    /\ Ordered(entries, since)

\* A key is in the Map when it has a place there.
LEMMA HasPlace ==
    ASSUME NEW S, NEW s \in Seq(S), NEW x
    PROVE  x \in Range(s) <=> \E i \in 1 .. Len(s) : s[i] = x
BY DEF Range

\* Map.delete() of the key at place i leaves the others in their order.
LEMMA DeleteKeepsOrder ==
    ASSUME NEW S, NEW s \in Seq(S), NEW seen, Ordered(s, seen), NEW i \in 1 .. Len(s)
    PROVE  LET t == Splice(s, i) IN
           /\ t \in Seq(S) /\ Len(t) = Len(s) - 1
           /\ Ordered(t, seen)
           /\ \A j \in 1 .. Len(t) : t[j] # s[i] /\ \E l \in 1 .. Len(s) : t[j] = s[l]
           /\ \A l \in 1 .. Len(s) : l # i => \E j \in 1 .. Len(t) : t[j] = s[l]
<1> DEFINE t == Splice(s, i)
<1>1. /\ t \in Seq(S) /\ Len(t) = Len(s) - 1 /\ Len(s) \in Nat
      /\ \A j \in 1 .. Len(t) : t[j] = IF j < i THEN s[j] ELSE s[j + 1]
  <2>1. /\ Splice(s, i) \in Seq(S)
        /\ Len(Splice(s, i)) = Len(s) - 1
        /\ \A j \in 1 .. (Len(s) - 1) :
             Splice(s, i)[j] = IF j < i THEN s[j] ELSE s[j + 1]
    BY Zenon, SpliceType
  <2>2. Len(s) \in Nat
    OBVIOUS
  <2> QED
    BY <2>1, <2>2, Zenon
<1> HIDE DEF t
<1>2. Ordered(t, seen)
  <2> DEFINE g(j) == IF j < i THEN j ELSE j + 1
  <2>1. \A j \in 1 .. Len(t) : g(j) \in 1 .. Len(s) /\ t[j] = s[g(j)]
    BY <1>1
  <2>2. \A j, l \in 1 .. Len(t) : (g(j) = g(l) => j = l) /\ (j < l => g(j) < g(l))
    BY <1>1
  <2> HIDE DEF g
  <2> QED
    BY <2>1, <2>2 DEF Ordered
<1>3. \A j \in 1 .. Len(t) : t[j] # s[i] /\ \E l \in 1 .. Len(s) : t[j] = s[l]
  <2> SUFFICES ASSUME NEW j \in 1 .. Len(t)
               PROVE  t[j] # s[i] /\ \E l \in 1 .. Len(s) : t[j] = s[l]
    OBVIOUS
  <2> QED
    BY <1>1 DEF Ordered
<1>4. ASSUME NEW l \in 1 .. Len(s), l # i PROVE \E j \in 1 .. Len(t) : t[j] = s[l]
  <2>1. CASE l < i
    <3>1. l \in 1 .. Len(t) /\ t[l] = s[l]
      BY <1>1, <2>1
    <3> QED
      BY <3>1
  <2>2. CASE l > i
    <3>1. l - 1 \in 1 .. Len(t) /\ t[l - 1] = s[l]
      BY <1>1, <2>2
    <3> QED
      BY <3>1
  <2> QED
    BY <2>1, <2>2, <1>4
<1> QED
  BY <1>1, <1>2, <1>3, <1>4 DEF t

\* Evicting the first key leaves the others in their order.
LEMMA TailKeepsOrder ==
    ASSUME NEW S, NEW s \in Seq(S), NEW seen, Ordered(s, seen), Len(s) > 0
    PROVE  LET t == Tail(s) IN
           /\ t \in Seq(S) /\ Len(t) = Len(s) - 1
           /\ Ordered(t, seen)
           /\ \A j \in 1 .. Len(t) : \E l \in 1 .. Len(s) : t[j] = s[l]
           /\ \A l \in 2 .. Len(s) : \E j \in 1 .. Len(t) : t[j] = s[l]
<1> DEFINE t == Tail(s)
<1>1. /\ t \in Seq(S) /\ Len(t) = Len(s) - 1 /\ Len(s) \in Nat
      /\ \A j \in 1 .. Len(t) : t[j] = s[j + 1]
  OBVIOUS
<1> HIDE DEF t
<1>2. Ordered(t, seen)
  <2>1. \A j \in 1 .. Len(t) : j + 1 \in 1 .. Len(s) /\ t[j] = s[j + 1]
    BY <1>1
  <2>2. \A j, l \in 1 .. Len(t) : (j + 1 = l + 1 => j = l) /\ (j < l => j + 1 < l + 1)
    BY <1>1
  <2>3. \A i, j \in 1 .. Len(t) : t[i] = t[j] => i = j
    BY <2>1, <2>2 DEF Ordered
  <2>4. \A i, j \in 1 .. Len(t) : i < j => t[j] \in seen[t[i]]
    BY ZenonT(40), <2>1, <2>2 DEF Ordered
  <2> QED
    BY <2>3, <2>4 DEF Ordered
<1>3. ASSUME NEW l \in 2 .. Len(s) PROVE \E j \in 1 .. Len(t) : t[j] = s[l]
  <2>1. l - 1 \in 1 .. Len(t) /\ t[l - 1] = s[l]
    BY <1>1
  <2> QED
    BY <2>1
<1>4. \A j \in 1 .. Len(t) : j + 1 \in 1 .. Len(s) /\ t[j] = s[j + 1]
  BY <1>1
<1>5. \A j \in 1 .. Len(t) : \E l \in 1 .. Len(s) : t[j] = s[l]
  BY <1>4
<1> QED
  BY <1>1, <1>2, <1>3, <1>5 DEF t

\* A key that was not there and goes to the end is seen by all before it.
LEMMA AppendKeepsOrder ==
    ASSUME NEW S, NEW s \in Seq(S), NEW k \in S, NEW old, NEW new, Ordered(s, old),
           \A i \in 1 .. Len(s) : s[i] # k /\ old[s[i]] \cup {k} \subseteq new[s[i]]
    PROVE  Ordered(Append(s, k), new)
<1> DEFINE t == Append(s, k)
<1>1. /\ Len(t) = Len(s) + 1 /\ Len(s) \in Nat /\ t[Len(s) + 1] = k
      /\ \A i \in 1 .. Len(s) : t[i] = s[i]
  OBVIOUS
<1> HIDE DEF t
<1>2. \A i, j \in 1 .. Len(t) : t[i] = t[j] => i = j
  BY <1>1 DEF Ordered
<1>3. ASSUME NEW i \in 1 .. Len(t), NEW j \in 1 .. Len(t), i < j PROVE t[j] \in new[t[i]]
  <2>1. i \in 1 .. Len(s) /\ t[i] = s[i] /\ old[s[i]] \subseteq new[s[i]] /\ k \in new[s[i]]
    BY <1>1, <1>3
  <2>2. CASE j = Len(s) + 1
    BY <1>1, <2>1, <2>2
  <2>3. CASE j \in 1 .. Len(s)
    <3>1. s[j] \in old[s[i]]
      BY <1>3, <2>1, <2>3 DEF Ordered
    <3> QED
      BY <1>1, <2>1, <2>3, <3>1
  <2> QED
    BY <1>1, <2>2, <2>3
<1> QED
  BY <1>2, <1>3 DEF Ordered, t

\* Using k starts it afresh, if asked to, and adds it to what the others that
\* remain have seen.
LEMMA UsedIsSeen ==
    ASSUME CacheIInv, NEW k \in CacheKeys, NEW fresh \in BOOLEAN, Used(k, fresh)
    PROVE  /\ since' \in [CacheKeys -> SUBSET CacheKeys]
           /\ \A j \in CacheKeys : IsFiniteSet(since'[j])
           /\ \A j \in Range(entries') \cap CacheKeys : j # k => since'[j] = since[j] \cup {k}
           /\ k \in Range(entries') /\ ~ fresh => since'[k] = since[k]
<1> USE DEF CacheIInv
<1>1. \A j \in CacheKeys :
        since'[j] = IF j \notin Range(entries') \/ (j = k /\ fresh) THEN {}
                    ELSE since[j] \cup ({k} \ {j})
  BY DEF Used
<1>2. since' \in [CacheKeys -> SUBSET CacheKeys]
  <2>1. \A j \in CacheKeys : since[j] \cup ({k} \ {j}) \in SUBSET CacheKeys
    OBVIOUS
  <2> QED
    BY <2>1 DEF Used
<1>3. ASSUME NEW j \in CacheKeys PROVE IsFiniteSet(since'[j])
  <2>1. IsFiniteSet(since[j] \cup {k})
    BY FS_AddElement
  <2>2. since'[j] \subseteq since[j] \cup {k}
    BY <1>1
  <2> QED
    BY <2>1, <2>2, FS_Subset
<1>4. \A j \in Range(entries') \cap CacheKeys : j # k => since'[j] = since[j] \cup {k}
  BY <1>1
<1>5. k \in Range(entries') /\ ~ fresh => since'[k] = since[k]
  BY <1>1
<1> QED
  BY <1>2, <1>3, <1>4, <1>5

\* get() of an expired key deletes it; of another, moves it to the end.
LEMMA CacheGetKeeps ==
    ASSUME CacheIInv, NEW k \in CacheKeys, CacheGet(k)
    PROVE  CacheIInv'
<1> USE ResponseCacheAssumption DEF CacheIInv, ResponseCacheTypeOK
<1>1. PICK i \in 1 .. Len(entries) :
        /\ entries[i] = k
        /\ IF ttl[k] < 0 THEN entries' = Splice(entries, i) /\ since' = [since EXCEPT ![k] = {}]
                         ELSE entries' = Append(Splice(entries, i), k) /\ Used(k, TRUE)
        /\ UNCHANGED ttl
  BY DEF CacheGet
<1> DEFINE t == Splice(entries, i)
<1>2. /\ t \in Seq(CacheKeys) /\ Len(t) = Len(entries) - 1 /\ Len(entries) \in Nat
      /\ Ordered(t, since)
      /\ \A j \in 1 .. Len(t) : t[j] # k
  <2>1. /\ t \in Seq(CacheKeys) /\ Len(t) = Len(entries) - 1 /\ Ordered(t, since)
        /\ \A j \in 1 .. Len(t) : t[j] # entries[i]
    BY DeleteKeepsOrder
  <2> QED
    BY <1>1, <2>1
<1>3. \A j \in 1 .. Len(t) : t[j] \in CacheKeys
  BY <1>2
<1> HIDE DEF t
<1>4. CASE ttl[k] < 0
  <2>1. entries' = t /\ since' = [since EXCEPT ![k] = {}]
    BY <1>1, <1>4 DEF t
  <2>2. /\ since' \in [CacheKeys -> SUBSET CacheKeys]
        /\ \A j \in CacheKeys : IsFiniteSet(since'[j])
    BY <2>1, FS_EmptySet
  <2>3. \A j \in 1 .. Len(t) : since'[t[j]] = since[t[j]]
    BY <2>1, <1>2, <1>3
  <2>4. Ordered(t, since')
    BY <1>2, <2>3 DEF Ordered
  <2> QED
    BY <1>1, <1>2, <2>1, <2>2, <2>4
<1>5. CASE ~ (ttl[k] < 0)
  <2>1. entries' = Append(t, k) /\ Used(k, TRUE)
    BY <1>1, <1>5 DEF t
  <2>2. /\ entries' \in Seq(CacheKeys) /\ Len(entries') = Len(t) + 1
        /\ \A j \in 1 .. Len(t) : j \in 1 .. Len(entries') /\ entries'[j] = t[j]
    BY SMTT(30), <1>2, <2>1
  <2>3. \A j \in 1 .. Len(t) : t[j] \in Range(entries')
    BY <2>2, HasPlace
  <2>4. /\ since' \in [CacheKeys -> SUBSET CacheKeys]
        /\ \A j \in CacheKeys : IsFiniteSet(since'[j])
        /\ \A j \in 1 .. Len(t) : since'[t[j]] = since[t[j]] \cup {k}
    BY <2>1, <2>3, <1>2, <1>3, UsedIsSeen
  <2>5. Ordered(entries', since')
    <3>1. \A j \in 1 .. Len(t) : t[j] # k /\ since[t[j]] \cup {k} \subseteq since'[t[j]]
      BY <1>2, <2>4
    <3> QED
      BY <3>1, <1>2, <2>1, AppendKeepsOrder
  <2> QED
    BY SMTT(30), <1>1, <1>2, <2>2, <2>4, <2>5
<1> QED
  BY <1>4, <1>5

\* What set() makes room with: below the limit nothing goes, at the limit the
\* first key and no other.
LEMMA RoomIsMade ==
    ASSUME CacheIInv
    PROVE  LET room == IF Len(entries) >= MaxEntries THEN Tail(entries) ELSE entries IN
           /\ room \in Seq(CacheKeys) /\ Len(room) + 1 <= MaxEntries
           /\ Ordered(room, since)
           /\ \A l \in 1 .. Len(entries) :
                \/ l = 1 /\ Len(entries) = MaxEntries
                \/ \E j \in 1 .. Len(room) : room[j] = entries[l]
<1> USE ResponseCacheAssumption DEF CacheIInv, ResponseCacheTypeOK
<1> DEFINE room == IF Len(entries) >= MaxEntries THEN Tail(entries) ELSE entries
           Made == /\ room \in Seq(CacheKeys) /\ Len(room) + 1 <= MaxEntries
                   /\ Ordered(room, since)
                   /\ \A l \in 1 .. Len(entries) :
                        \/ l = 1 /\ Len(entries) = MaxEntries
                        \/ \E j \in 1 .. Len(room) : room[j] = entries[l]
<1>1. CASE Len(entries) >= MaxEntries
  <2>1. Len(entries) = MaxEntries /\ Len(entries) > 0 /\ room = Tail(entries)
    BY <1>1
  <2>2. /\ Tail(entries) \in Seq(CacheKeys) /\ Len(Tail(entries)) = Len(entries) - 1
        /\ Ordered(Tail(entries), since)
        /\ \A l \in 2 .. Len(entries) : \E j \in 1 .. Len(Tail(entries)) : Tail(entries)[j] = entries[l]
    BY <2>1, TailKeepsOrder
  <2>3. \A l \in 1 .. Len(entries) : l = 1 \/ l \in 2 .. Len(entries)
    OBVIOUS
  <2> HIDE DEF room
  <2>4. room \in Seq(CacheKeys) /\ Len(room) + 1 <= MaxEntries /\ Ordered(room, since)
    BY <2>1, <2>2
  <2>5. \A l \in 2 .. Len(entries) : \E j \in 1 .. Len(room) : room[j] = entries[l]
    BY <2>1, <2>2
  <2> QED
    BY <2>1, <2>3, <2>4, <2>5
<1>2. CASE ~ (Len(entries) >= MaxEntries)
  <2>1. room = entries /\ Len(entries) + 1 <= MaxEntries
    BY <1>2
  <2> HIDE DEF room
  <2> QED
    BY <2>1
<1>3. Made
  BY <1>1, <1>2
<1> QED
  BY <1>3

\* set() makes room, then adds the key at the end or finds it in its place.
LEMMA CacheSetKeeps ==
    ASSUME CacheIInv, NEW k \in CacheKeys, NEW t \in 0 .. CacheTtl, CacheSet(k, t)
    PROVE  CacheIInv'
<1> USE ResponseCacheAssumption DEF CacheIInv, ResponseCacheTypeOK
<1> DEFINE room == IF Len(entries) >= MaxEntries THEN Tail(entries) ELSE entries
           there == k \in Range(room)
<1>1. /\ entries' = IF there THEN room ELSE Append(room, k)
      /\ ttl' = [j \in CacheKeys |-> IF j = k THEN t ELSE IF j \in Range(room) THEN ttl[j] ELSE -1]
      /\ Used(k, ~ there)
  BY DEF CacheSet
<1>2. room \in Seq(CacheKeys) /\ Len(room) + 1 <= MaxEntries /\ Ordered(room, since) /\ Len(room) \in Nat
  BY RoomIsMade
<1>3. \A j \in 1 .. Len(room) : room[j] \in CacheKeys
  BY <1>2
<1>4. there <=> \E j \in 1 .. Len(room) : room[j] = k
  BY <1>2, HasPlace
<1> HIDE DEF room
<1>5. ttl' \in [CacheKeys -> -1 .. CacheTtl]
  BY <1>1
<1>6. CASE there
  <2>1. entries' = room /\ Used(k, FALSE) /\ k \in Range(entries')
    BY <1>1, <1>6
  <2>2. \A j \in 1 .. Len(room) : room[j] \in Range(entries')
    BY <2>1, <1>2, HasPlace
  <2>3. /\ since' \in [CacheKeys -> SUBSET CacheKeys]
        /\ \A j \in CacheKeys : IsFiniteSet(since'[j])
        /\ \A j \in 1 .. Len(room) : since[room[j]] \subseteq since'[room[j]]
    <3>1. /\ since' \in [CacheKeys -> SUBSET CacheKeys]
          /\ \A j \in CacheKeys : IsFiniteSet(since'[j])
          /\ \A j \in Range(entries') \cap CacheKeys : j # k => since'[j] = since[j] \cup {k}
          /\ since'[k] = since[k]
      BY <2>1, UsedIsSeen
    <3>2. \A j \in 1 .. Len(room) : room[j] \in Range(entries') \cap CacheKeys
      BY <2>2, <1>3
    <3> QED
      BY <3>1, <3>2
  <2>4. Ordered(room, since')
    BY <1>2, <2>3 DEF Ordered
  <2> QED
    BY <1>2, <1>5, <2>1, <2>3, <2>4
<1>7. CASE ~ there
  <2>1. entries' = Append(room, k) /\ Used(k, TRUE)
    BY <1>1, <1>7
  <2>2. /\ entries' \in Seq(CacheKeys) /\ Len(entries') = Len(room) + 1
        /\ \A j \in 1 .. Len(room) : j \in 1 .. Len(entries') /\ entries'[j] = room[j]
    BY <1>2, <2>1
  <2>3. \A j \in 1 .. Len(room) : room[j] \in Range(entries') /\ room[j] # k
    BY <2>2, <1>4, <1>7, HasPlace
  <2>4. /\ since' \in [CacheKeys -> SUBSET CacheKeys]
        /\ \A j \in CacheKeys : IsFiniteSet(since'[j])
        /\ \A j \in 1 .. Len(room) : since'[room[j]] = since[room[j]] \cup {k}
    BY <2>1, <2>3, <1>3, UsedIsSeen
  <2>5. Ordered(entries', since')
    <3>1. \A j \in 1 .. Len(room) : room[j] # k /\ since[room[j]] \cup {k} \subseteq since'[room[j]]
      BY <2>3, <2>4
    <3> QED
      BY <3>1, <1>2, <2>1, AppendKeepsOrder
  <2> QED
    BY <1>2, <1>5, <2>2, <2>4, <2>5
<1> QED
  BY <1>6, <1>7

\* Every reachable cache is such a cache.
LEMMA CacheInductive == ResponseCacheSpec => []CacheIInv
<1>1. ResponseCacheInit => CacheIInv
  BY ResponseCacheAssumption, FS_EmptySet DEF ResponseCacheInit, CacheIInv, ResponseCacheTypeOK, Ordered
<1>2. CacheIInv /\ [ResponseCacheNext]_cacheVars => CacheIInv'
  <2> SUFFICES ASSUME CacheIInv, [ResponseCacheNext]_cacheVars PROVE CacheIInv'
    OBVIOUS
  <2>1. CASE \E k \in CacheKeys : CacheGet(k) \/ \E t \in 0 .. CacheTtl : CacheSet(k, t)
    BY <2>1, CacheGetKeeps, CacheSetKeeps
  <2>2. CASE CacheTick
    <3>1. ttl' \in [CacheKeys -> -1 .. CacheTtl]
      BY <2>2, ResponseCacheAssumption DEF CacheTick, CacheIInv, ResponseCacheTypeOK
    <3> QED
      BY <2>2, <3>1 DEF CacheTick, CacheIInv, ResponseCacheTypeOK, Ordered
  <2>3. CASE UNCHANGED cacheVars
    BY <2>3 DEF cacheVars, CacheIInv, ResponseCacheTypeOK, Ordered
  <2> QED
    BY <2>1, <2>2, <2>3 DEF ResponseCacheNext
<1> QED
  BY <1>1, <1>2, PTL DEF ResponseCacheSpec

\* The cache is an LRU, whatever its size: when set() evicts a key that has not
\* expired, at least as many other keys as fit beside it were used since it was
\* last read or first stored.
THEOREM EvictionsAreEarned == ResponseCacheSpec => EvictionIsEarned
<1> DEFINE Earned == \A k \in CacheKeys :
               Cached(k) /\ ttl[k] >= 0 /\ k \notin Range(entries') =>
                   Cardinality(since[k]) >= MaxEntries - 1
<1>1. CacheIInv /\ [ResponseCacheNext]_cacheVars => [Earned]_cacheVars
  <2> SUFFICES ASSUME CacheIInv, ResponseCacheNext, NEW k \in CacheKeys,
                      Cached(k), ttl[k] >= 0, k \notin Range(entries')
               PROVE  Cardinality(since[k]) >= MaxEntries - 1
    OBVIOUS
  <2> USE ResponseCacheAssumption DEF CacheIInv, ResponseCacheTypeOK
  <2>1. PICK p \in 1 .. Len(entries) : entries[p] = k
    BY HasPlace DEF Cached
  <2>2. ASSUME NEW j \in CacheKeys, CacheGet(j) PROVE FALSE
    <3>1. PICK i \in 1 .. Len(entries) :
            /\ entries[i] = j
            /\ IF ttl[j] < 0 THEN entries' = Splice(entries, i)
                             ELSE entries' = Append(Splice(entries, i), j)
      BY <2>2 DEF CacheGet
    <3> DEFINE t == Splice(entries, i)
    <3>2. /\ t \in Seq(CacheKeys) /\ Len(t) \in Nat
          /\ \A l \in 1 .. Len(entries) : l # i => \E m \in 1 .. Len(t) : t[m] = entries[l]
      BY SMTT(30), DeleteKeepsOrder
    <3> HIDE DEF t
    <3>3. CASE p = i
      <4>1. entries' = Append(t, k)
        BY <2>1, <3>1, <3>3 DEF t
      <4>2. /\ entries' \in Seq(CacheKeys) /\ Len(t) + 1 \in 1 .. Len(entries')
            /\ entries'[Len(t) + 1] = k
        BY <4>1, <3>2
      <4> QED
        BY <4>2, HasPlace
    <3>4. CASE p # i
      <4>1. PICK m \in 1 .. Len(t) : t[m] = k
        BY <2>1, <3>2, <3>4
      <4>2. entries' = t \/ entries' = Append(t, j)
        BY <3>1 DEF t
      <4>3. entries' \in Seq(CacheKeys) /\ m \in 1 .. Len(entries') /\ entries'[m] = k
        <5>1. /\ Append(t, j) \in Seq(CacheKeys) /\ m \in 1 .. Len(Append(t, j))
              /\ Append(t, j)[m] = t[m]
          BY <4>1, <3>2
        <5> QED
          BY <4>1, <4>2, <3>2, <5>1
      <4> QED
        BY <4>3, HasPlace
    <3> QED
      BY <3>3, <3>4
  <2>3. ASSUME NEW j \in CacheKeys, NEW t \in 0 .. CacheTtl, CacheSet(j, t)
        PROVE  Cardinality(since[k]) >= MaxEntries - 1
    <3> DEFINE room == IF Len(entries) >= MaxEntries THEN Tail(entries) ELSE entries
    <3>1. entries' = IF j \in Range(room) THEN room ELSE Append(room, j)
      BY <2>3 DEF CacheSet
    <3>2. /\ room \in Seq(CacheKeys) /\ Len(room) \in Nat
          /\ \A l \in 1 .. Len(entries) :
                \/ l = 1 /\ Len(entries) = MaxEntries
                \/ \E m \in 1 .. Len(room) : room[m] = entries[l]
      <4>1. /\ room \in Seq(CacheKeys)
            /\ \A l \in 1 .. Len(entries) :
                \/ l = 1 /\ Len(entries) = MaxEntries
                \/ \E m \in 1 .. Len(room) : room[m] = entries[l]
        BY RoomIsMade
      <4> HIDE DEF room
      <4>2. Len(room) \in Nat
        BY <4>1
      <4> QED
        BY <4>1, <4>2, Zenon
    <3> HIDE DEF room
    <3>3. ASSUME NEW m \in 1 .. Len(room), room[m] = k PROVE FALSE
      <4>1. entries' \in Seq(CacheKeys) /\ m \in 1 .. Len(entries') /\ entries'[m] = k
        BY <3>1, <3>2, <3>3
      <4> QED
        BY <4>1, HasPlace
    <3>4. p = 1 /\ Len(entries) = MaxEntries
      BY <2>1, <3>2, <3>3
    <3> DEFINE f == [i \in 2 .. MaxEntries |-> entries[i]]
    <3>5. f \in Injection(2 .. MaxEntries, since[k])
      <4>1. \A i \in 2 .. MaxEntries : i \in 1 .. Len(entries) /\ entries[i] \in since[k]
        BY <2>1, <3>4 DEF Ordered
      <4>2. \A i, l \in 2 .. MaxEntries : f[i] = f[l] => i = l
        BY <4>1 DEF Ordered
      <4> QED
        BY <4>1, <4>2 DEF Injection, IsInjective
    <3>6. IsFiniteSet(since[k])
      OBVIOUS
    <3>7. Cardinality(2 .. MaxEntries) <= Cardinality(since[k])
      <4> HIDE DEF f
      <4> QED
        BY <3>5, <3>6, FS_Injection
    <3>8. Cardinality(2 .. MaxEntries) = MaxEntries - 1
      BY FS_Interval
    <3>9. Cardinality(since[k]) \in Nat
      BY <3>6, FS_CardinalityType
    <3> QED
      BY <3>7, <3>8, <3>9
  <2> QED
    <3>1. CASE CacheTick
      BY <3>1 DEF CacheTick, Cached
    <3> QED
      BY <2>2, <2>3, <3>1 DEF ResponseCacheNext
<1>2. ResponseCacheSpec => [][Earned]_cacheVars
  BY <1>1, CacheInductive, PTL DEF ResponseCacheSpec
<1> QED
  BY <1>2 DEF EvictionIsEarned

=============================================================================

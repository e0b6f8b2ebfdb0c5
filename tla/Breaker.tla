------------------------------ MODULE Breaker ------------------------------
(***************************************************************************)
(* The rolling window of one provider in the circuit breaker               *)
(* (src/resilience/breaker.ts) and what allow() and record() do to it.     *)
(* Both are synchronous, so each is one function from windows to windows.  *)
(*                                                                         *)
(* Date.now() is replaced by ages: an outcome and the last opening carry   *)
(* the time that has passed since, in ticks, up to the point where more    *)
(* time makes no difference (Older).                                       *)
(***************************************************************************)
EXTENDS Arrays

CONSTANTS
    WindowMs,        \* length of the rolling window, in ticks
    MinSamples,      \* outcomes needed before the circuit may open
    OpenThreshold,   \* error rate that opens it, in percent
    OpenDurationMs   \* BREAKER_OPEN_MS, in ticks

ASSUME BreakerAssumption ==
    /\ WindowMs \in Nat
    /\ MinSamples \in Nat \ {0}
    /\ OpenThreshold \in 1 .. 100
    /\ OpenDurationMs \in Nat

BreakerState == {"closed", "open", "half_open"}

Outcome == [ok : BOOLEAN, age : 0 .. (WindowMs + 1)]

Window == [outcomes : Seq(Outcome), state : BreakerState,
           openedAge : 0 .. OpenDurationMs, probe : BOOLEAN]

\* window(): a provider's window when it is first looked up.
NewWindow ==
    [outcomes |-> <<>>, state |-> "closed", openedAge |-> OpenDurationMs,
     probe |-> FALSE]

-----------------------------------------------------------------------------
\* prune(): outcomes leave from the front while they are older than the window.
Prune(s) ==
    LET live == {i \in 1 .. Len(s) : s[i].age <= WindowMs}
        first == IF live = {} THEN Len(s) + 1
                 ELSE CHOOSE i \in live : \A j \in live : i <= j
    IN  SubSeq(s, first, Len(s))

Successes == {o \in Outcome : o.ok}

\* errorRate() >= openThreshold, without the division.
TooManyErrors(s) ==
    Cardinality({i \in 1 .. Len(s) : ~ s[i].ok}) * 100 >= OpenThreshold * Len(s)

\* Mutant: the half-open state lets everybody through.
AllowedInHalfOpen(w) ==
    w.state = "open" => w.openedAge >= OpenDurationMs

\* allow(): what it answers ...
Allowed(w) ==
    \/ w.state = "closed"
    \/ w.state = "open" /\ w.openedAge >= OpenDurationMs
    \/ w.state = "half_open" /\ ~ w.probe

\* ... and the window it leaves behind.
AfterAllow(w) ==
    IF Allowed(w) /\ w.state # "closed"
    THEN [w EXCEPT !.state = "half_open", !.probe = TRUE]
    ELSE w

\* The window once record() has pushed the outcome and pruned.
Push(w, ok) ==
    [w EXCEPT !.outcomes = Prune(Append(@, [ok |-> ok, age |-> 0]))]

\* Mutant: a failed probe does not set openedAt again.
RecordKeepsOpenedAt(w, ok) ==
    IF ok
    THEN [w EXCEPT !.probe = FALSE, !.outcomes = Filter(@, Successes), !.state = "closed"]
    ELSE [w EXCEPT !.probe = FALSE, !.state = "open"]

\* record() in the half-open state: any outcome ends the probe.
RecordHalfOpen(w, ok) ==
    IF ok
    THEN [w EXCEPT !.probe = FALSE, !.outcomes = Filter(@, Successes), !.state = "closed"]
    ELSE [w EXCEPT !.probe = FALSE, !.openedAge = 0, !.state = "open"]

\* record() in the closed state: only a failure may open the circuit.
RecordClosed(w, ok) ==
    IF ~ ok /\ Len(w.outcomes) >= MinSamples /\ TooManyErrors(w.outcomes)
    THEN [w EXCEPT !.openedAge = 0, !.state = "open"]
    ELSE w

\* Mutant: a failure reported while the circuit is open opens it again.
RecordProlongsOpen(w, ok) ==
    LET pushed == Push(w, ok)
    IN  CASE w.state = "half_open" -> RecordHalfOpen(pushed, ok)
          [] w.state = "closed"    -> RecordClosed(pushed, ok)
          [] w.state = "open"      -> [pushed EXCEPT !.openedAge = 0]

AfterRecord(w, ok) ==
    LET pushed == Push(w, ok)
    IN  CASE w.state = "half_open" -> RecordHalfOpen(pushed, ok)
          [] w.state = "closed"    -> RecordClosed(pushed, ok)
          [] w.state = "open"      -> pushed

-----------------------------------------------------------------------------
\* One tick of the clock, for an age that stops counting at top.
Older(age, top) == IF age < top THEN age + 1 ELSE age

AfterTick(w) ==
    LET aged == [i \in 1 .. Len(w.outcomes) |->
                    [w.outcomes[i] EXCEPT !.age = Older(w.outcomes[i].age, WindowMs + 1)]]
    IN  [w EXCEPT !.outcomes = aged, !.openedAge = Older(w.openedAge, OpenDurationMs)]

=============================================================================

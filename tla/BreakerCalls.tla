----------------------------- MODULE BreakerCalls -----------------------------
(***************************************************************************)
(* One provider's breaker window under concurrent callers.  A caller asks  *)
(* allow(), works for a while and then records an outcome, or records      *)
(* several (the retry loop asks allow() once per hop, not once per         *)
(* attempt), or goes away without recording any (client abort, timeout,    *)
(* load shed).  The windows of different providers share nothing.          *)
(***************************************************************************)
EXTENDS Breaker

CONSTANTS
    Callers,
    MaxSamples   \* bound: a caller is admitted, or retries, below this many live outcomes

ASSUME MaxSamplesAssumption == MaxSamples \in Nat

VARIABLES
    win,        \* the provider's window
    call,       \* caller -> "idle", "admitted", or "probing" while its own
                \* half-open period lasts
    sinceOpen   \* history: ticks since the circuit last opened, up to OpenDurationMs

breakerVars == <<win, call, sinceOpen>>

BreakerTypeOK ==
    /\ win \in Window
    /\ call \in [Callers -> {"idle", "admitted", "probing"}]
    /\ sinceOpen \in 0 .. OpenDurationMs

BreakerInit ==
    /\ win = NewWindow
    /\ call = [c \in Callers |-> "idle"]
    /\ sinceOpen = OpenDurationMs

\* A caller is let through; a refused one leaves no trace.
Allow(c) ==
    /\ call[c] = "idle"
    /\ Allowed(win)
    /\ Len(Prune(win.outcomes)) < MaxSamples
    /\ win' = AfterAllow(win)
    /\ call' = [call EXCEPT ![c] = IF win.state = "closed" THEN "admitted" ELSE "probing"]
    /\ UNCHANGED sinceOpen

\* record() by c, after which c is in state s.  Whatever ends the half-open
\* period ends the probe's standing, its own record or somebody else's.
Record(c, ok, s) ==
    /\ call[c] # "idle"
    /\ win' = AfterRecord(win, ok)
    /\ call' = [x \in Callers |->
                    IF x = c THEN s
                    ELSE IF win.state = "half_open" /\ call[x] = "probing" THEN "admitted"
                    ELSE call[x]]
    /\ sinceOpen' = IF win.state # "open" /\ win'.state = "open" THEN 0 ELSE sinceOpen

\* The last attempt of a hop.
Finish(c) == \E ok \in BOOLEAN : Record(c, ok, "idle")

\* A failed attempt that will be retried without asking allow() again.
Retry(c) == Len(Prune(win.outcomes)) < MaxSamples /\ Record(c, FALSE, "admitted")

\* The caller leaves without recording an outcome.
Abandon(c) ==
    /\ call[c] # "idle"
    /\ call' = [call EXCEPT ![c] = "idle"]
    /\ UNCHANGED <<win, sinceOpen>>

Tick ==
    /\ win' = AfterTick(win)
    /\ sinceOpen' = Older(sinceOpen, OpenDurationMs)
    /\ UNCHANGED call

BreakerNext ==
    \/ \E c \in Callers : Allow(c) \/ Finish(c) \/ Retry(c) \/ Abandon(c)
    \/ Tick

BreakerSpec == BreakerInit /\ [][BreakerNext]_breakerVars

-----------------------------------------------------------------------------
\* One caller probes at a time, and only in the half-open state, which is when
\* the flag halfOpenProbeInFlight is set: the branch of allow() that admits a
\* second probe (breaker.ts, "half_open: only the single probe") is never
\* taken.  Outcomes are kept oldest first, those of callers admitted long ago
\* included, so that the front-only loop of prune() leaves no expired one.
BreakerSafe ==
    /\ BreakerTypeOK
    /\ win.state = "half_open" <=> win.probe
    /\ \A c, d \in Callers : call[c] = "probing" /\ call[d] = "probing" => c = d
    /\ \A c \in Callers : call[c] = "probing" => win.state = "half_open"
    /\ \A i, j \in 1 .. Len(win.outcomes) : i < j => win.outcomes[i].age >= win.outcomes[j].age
    /\ \A i \in 1 .. Len(Prune(win.outcomes)) : Prune(win.outcomes)[i].age <= WindowMs

\* The circuit opens on evidence: a fresh failure is the newest outcome and,
\* when it was closed, at least minSamples outcomes of the last windowMs
\* support it ("a fresh success never should" open it, breaker.ts).  Once open,
\* it lets nobody through for BREAKER_OPEN_MS, counted from its latest
\* opening, a failed probe's included.
OpensAndRests ==
    [][/\ win.state # "open" /\ win'.state = "open" =>
            LET s == win'.outcomes IN
            /\ Len(s) > 0 /\ s[Len(s)] = [ok |-> FALSE, age |-> 0]
            /\ win.state = "closed" =>
                Len(s) >= MinSamples /\ \A i \in 1 .. Len(s) : s[i].age <= WindowMs
       /\ win.state # "closed" /\ (\E c \in Callers : call[c] = "idle" /\ call'[c] = "probing") =>
            sinceOpen = OpenDurationMs]_breakerVars

\* Late outcomes of calls admitted earlier do not prolong the open state: an
\* open circuit always comes to admit a probe.
OpenEndsInProbe == win.state = "open" ~> Allowed(win) /\ win.state = "open"

=============================================================================

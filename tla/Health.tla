------------------------------- MODULE Health -------------------------------
(***************************************************************************)
(* The provider health monitor (src/vault/health.ts) for one provider, and *)
(* the connection tests (vault/service.ts test(), the test route of        *)
(* admin-api/routes.ts) that write the same column of the provider's row.  *)
(***************************************************************************)
EXTENDS Integers, Sequences, FiniteSets

CONSTANTS
    WindowSize, MinOutcomes, DownPct, DegradedPct,    \* 50, 10, 50, 20 in the code
    MaxPending      \* bound: transitions waiting to be persisted

ASSUME HealthAssumption ==
    /\ WindowSize \in Nat \ {0} /\ MinOutcomes \in 1..WindowSize
    /\ DegradedPct \in 1..100 /\ DownPct \in DegradedPct..100
    /\ MaxPending \in Nat

HealthStatus == {"unknown", "healthy", "degraded", "down"}

VARIABLES
    outcomes,   \* window of the provider, newest last
    status,     \* its status in memory
    chain,      \* persistChains: the transitions still to be written
    row,        \* providers.status
    rowBy,      \* history: the last to write it, or "lost" after a failed persist
    testing     \* a connection test is waiting for the provider

healthVars == <<outcomes, status, chain, row, rowBy, testing>>

HealthTypeOK ==
    /\ outcomes \in Seq(BOOLEAN) /\ Len(outcomes) <= WindowSize
    /\ chain \in Seq(HealthStatus \ {"unknown"})
    /\ status \in HealthStatus /\ row \in HealthStatus
    /\ rowBy \in {"monitor", "test", "lost"}
    /\ testing \in BOOLEAN

HealthInit ==
    /\ outcomes = <<>> /\ chain = <<>>
    /\ status = "unknown" /\ row = "unknown" /\ rowBy = "monitor"
    /\ testing = FALSE

\* computeStatus() of the outcomes w of a window with status s.
ComputeStatus(w, s) ==
    LET failures == Cardinality({i \in 1..Len(w) : ~ w[i]})
        AtLeast(pct) == 100 * failures >= pct * Len(w)
    IN  IF Len(w) < MinOutcomes THEN s
        ELSE IF AtLeast(DownPct) THEN "down"
        ELSE IF AtLeast(DegradedPct) THEN "degraded" ELSE "healthy"

Pushed(w, ok) == IF Len(w) < WindowSize THEN Append(w, ok) ELSE Append(Tail(w), ok)

\* Mutant: a transition is persisted only if no other one is waiting.
RecordDrops(ok) ==
    LET w == Pushed(outcomes, ok)
        s == ComputeStatus(w, status)
    IN  /\ Len(chain) < MaxPending
        /\ outcomes' = w
        /\ status' = s
        /\ chain' = IF s = status \/ chain # <<>> THEN chain ELSE Append(chain, s)
        /\ UNCHANGED <<row, rowBy, testing>>

\* record(): a transition is appended to the provider's persist chain.
RecordOutcome(ok) ==
    LET w == Pushed(outcomes, ok)
        s == ComputeStatus(w, status)
    IN  /\ Len(chain) < MaxPending
        /\ outcomes' = w
        /\ status' = s
        /\ chain' = IF s = status THEN chain ELSE Append(chain, s)
        /\ UNCHANGED <<row, rowBy, testing>>

\* persist() of the oldest transition; a failure is logged and the chain
\* goes on with the next one.
Persists ==
    /\ chain # <<>>
    /\ chain' = Tail(chain)
    /\ \/ row' = Head(chain) /\ rowBy' = "monitor"
       \/ row' = row /\ rowBy' = "lost"
    /\ UNCHANGED <<outcomes, status, testing>>

TestBegins ==
    /\ ~ testing
    /\ testing' = TRUE
    /\ UNCHANGED <<outcomes, status, chain, row, rowBy>>

\* The adapter has answered, or the test's credential was none: test() throws.
TestEnds ==
    /\ testing
    /\ testing' = FALSE
    /\ \/ row' \in {"healthy", "down"} /\ rowBy' = "test"
       \/ UNCHANGED <<row, rowBy>>
    /\ UNCHANGED <<outcomes, status, chain>>

HealthNext ==
    \/ \E ok \in BOOLEAN : RecordOutcome(ok)
    \/ Persists
    \/ TestBegins \/ TestEnds

HealthSpec == HealthInit /\ [][HealthNext]_healthVars

-----------------------------------------------------------------------------
\* "transitions must land in order" (health.ts): once the chain has drained
\* (flush() on shutdown waits for that), the row shows the monitor's status,
\* unless a test wrote after it or its last persist failed.
RowFollowsMonitor == chain = <<>> /\ rowBy = "monitor" => row = status

=============================================================================

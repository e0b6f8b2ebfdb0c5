------------------------------- MODULE Server -------------------------------
(***************************************************************************)
(* The life of a router process (src/server/index.ts, src/server/app.ts):  *)
(* boot, requests of the chat route with what each of them leaves behind   *)
(* in the database, and the graceful shutdown that races all of them, the  *)
(* background jobs and its own 15 s timer.  Every database statement is in *)
(* flight for a while; the client may hang up at any time, which closes    *)
(* its socket but not the handler that serves it.                          *)
(***************************************************************************)
EXTENDS Integers, FiniteSets

CONSTANTS
    Exchanges,      \* requests of the chat route
    MaxPersists     \* bound: status transitions that wait to be persisted

ASSUME ServerAssumption == MaxPersists \in Nat

VARIABLES
    role,       \* env.ROUTER_ROLE
    phase,      \* of main() and shutdown()
    force,      \* shutdown()'s timer is set
    handler,    \* exchange -> what its handler awaits
    client,     \* exchange -> its socket: "none", "open", "answered", "hung up"
    ledgerRow,  \* exchange -> its ledger row
    audit,      \* exchange -> its terminal audit row
    persists,   \* health monitor: transitions of the persist chain under way
    awaited,    \* of these, the ones that flush() waits for
    chore       \* a background job: "idle" or "statement"

serverVars == <<role, phase, force, handler, client, ledgerRow, audit, persists, awaited, chore>>

Roles == {"gateway", "console", "both"}
Over == {"exit 0", "exit 1", "killed"}
Draining == {"closing", "flushing", "ending"}

ServerInit ==
    /\ role \in Roles /\ phase = "boot" /\ force = FALSE
    /\ handler = [x \in Exchanges |-> "none"] /\ client = [x \in Exchanges |-> "none"]
    /\ ledgerRow = [x \in Exchanges |-> "none"] /\ audit = [x \in Exchanges |-> "none"]
    /\ persists = 0 /\ awaited = 0 /\ chore = "idle"

Up == phase \notin Over
ServesGateway == role \in {"gateway", "both"}

\* The connection pool takes statements until handle.close() is called.
DbOpen == phase # "ending"

Served == <<handler, client, ledgerRow, audit>>
Background == <<persists, awaited, chore>>

-----------------------------------------------------------------------------
\* loadEnv(), vault.startupCheck() and app.listen() succeed, or main() rejects
\* and the process exits; a signal before the handlers are installed kills.
Boot ==
    /\ phase = "boot"
    /\ phase' \in {"listening", "exit 1", "killed"}
    /\ UNCHANGED <<role, force, Served, Background>>

\* A request reaches the gateway, which only listens until app.close().
Accept(x) ==
    /\ phase = "listening" /\ ServesGateway /\ handler[x] = "none"
    /\ handler' = [handler EXCEPT ![x] = "pipeline"]
    /\ client' = [client EXCEPT ![x] = "open"]
    /\ UNCHANGED <<role, phase, force, ledgerRow, audit, Background>>

\* The client hangs up; the handler goes on.
HangsUp(x) ==
    /\ Up /\ client[x] = "open"
    /\ client' = [client EXCEPT ![x] = "hung up"]
    /\ UNCHANGED <<role, phase, force, handler, ledgerRow, audit, Background>>

\* reply.send() or reply.raw.end(): the socket is idle or gone.
Answered(x) == [client EXCEPT ![x] = IF @ = "open" THEN "answered" ELSE @]

\* A request without its header, with a malformed body or without a valid
\* token is refused before there is a firm to attribute it to.
RefusedUnattributed(x) ==
    /\ Up /\ handler[x] = "pipeline"
    /\ handler' = [handler EXCEPT ![x] = "over"] /\ client' = Answered(x)
    /\ ledgerRow' = [ledgerRow EXCEPT ![x] = "not due"] /\ audit' = [audit EXCEPT ![x] = "not due"]
    /\ UNCHANGED <<role, phase, force, Background>>

\* A provider was called, and its outcome is a transition for the health
\* monitor to persist; an answer counts although its client has left.
RecordHealth(x) ==
    /\ Up /\ handler[x] = "pipeline" /\ persists < MaxPersists
    /\ persists' = persists + 1
    /\ UNCHANGED <<role, phase, force, Served, awaited, chore>>

\* Mutant: the relay ends the response before it writes the ledger row.
EndsFirst(x) ==
    /\ Up /\ handler[x] = "pipeline"
    /\ handler' = [handler EXCEPT ![x] = IF DbOpen THEN "insert" ELSE "settled"]
    /\ ledgerRow' = [ledgerRow EXCEPT ![x] = IF DbOpen THEN "none" ELSE "cut"]
    /\ client' = Answered(x)
    /\ UNCHANGED <<role, phase, force, audit, Background>>

\* The pipeline or the stream is through, or failed: ledger.write() begins.
LedgerBegins(x) ==
    /\ Up /\ handler[x] = "pipeline"
    /\ handler' = [handler EXCEPT ![x] = IF DbOpen THEN "insert" ELSE "settled"]
    /\ ledgerRow' = [ledgerRow EXCEPT ![x] = IF DbOpen THEN "none" ELSE "cut"]
    /\ UNCHANGED <<role, phase, force, client, audit, Background>>

\* The row is inserted; counting its spend is another statement, if it costs.
RowInserted(x) ==
    /\ Up /\ handler[x] = "insert"
    /\ \/ /\ handler' = [handler EXCEPT ![x] = "settled"]
          /\ ledgerRow' = [ledgerRow EXCEPT ![x] = "complete"]
       \/ /\ handler' = [handler EXCEPT ![x] = IF DbOpen THEN "spend" ELSE "settled"]
          /\ ledgerRow' = [ledgerRow EXCEPT ![x] = IF DbOpen THEN "inserted" ELSE "cut"]
    /\ UNCHANGED <<role, phase, force, client, audit, Background>>

SpendRecorded(x) ==
    /\ Up /\ handler[x] = "spend"
    /\ handler' = [handler EXCEPT ![x] = "settled"]
    /\ ledgerRow' = [ledgerRow EXCEPT ![x] = "complete"]
    /\ UNCHANGED <<role, phase, force, client, audit, Background>>

\* A statement of the ledger is rejected by the database: runPipeline() writes
\* once more from its catch block; a last failure is logged.
LedgerFails(x) ==
    /\ Up /\ handler[x] \in {"insert", "spend"}
    /\ \/ /\ handler' = [handler EXCEPT ![x] = IF DbOpen THEN "insert" ELSE "settled"]
          /\ ledgerRow' = [ledgerRow EXCEPT ![x] = IF DbOpen THEN @ ELSE "cut"]
       \/ /\ handler' = [handler EXCEPT ![x] = "settled"]
          /\ ledgerRow' = [ledgerRow EXCEPT ![x] = "failed"]
    /\ UNCHANGED <<role, phase, force, client, audit, Background>>

\* emitTerminalAudit(): outcomes other than success, policy blocks and
\* provider errors have no event here; nobody awaits the insert.  The response
\* ends in the same step.
EmitTerminalAudit(x) ==
    /\ Up /\ handler[x] = "settled"
    /\ handler' = [handler EXCEPT ![x] = "over"] /\ client' = Answered(x)
    /\ \/ audit' = [audit EXCEPT ![x] = IF DbOpen THEN "insert" ELSE "cut"]
       \/ audit' = [audit EXCEPT ![x] = "not due"]
    /\ UNCHANGED <<role, phase, force, ledgerRow, Background>>

AuditAnswered(x) ==
    /\ Up /\ audit[x] = "insert"
    /\ audit' = [audit EXCEPT ![x] = "complete"]
    /\ UNCHANGED <<role, phase, force, handler, client, ledgerRow, Background>>

\* The oldest transition of the persist chain is written, or its failure logged.
PersistEnds ==
    /\ Up /\ persists > 0
    /\ persists' = persists - 1 /\ awaited' = IF awaited > 0 THEN awaited - 1 ELSE 0
    /\ UNCHANGED <<role, phase, force, Served, chore>>

\* Auto-revoke, retention purge, catalog passes, alerts: where the gateway
\* lives, statement after statement, whatever the server does.
JobRuns ==
    /\ Up /\ phase # "boot" /\ ServesGateway /\ DbOpen /\ chore = "idle"
    /\ chore' = "statement"
    /\ UNCHANGED <<role, phase, force, Served, persists, awaited>>

JobAnswered ==
    /\ Up /\ chore = "statement"
    /\ chore' = "idle"
    /\ UNCHANGED <<role, phase, force, Served, persists, awaited>>

-----------------------------------------------------------------------------
\* SIGTERM or SIGINT: the first one sets the timer and calls app.close(),
\* later ones return at once.
Signal ==
    /\ phase \in {"listening"} \cup Draining
    /\ phase' = IF phase = "listening" THEN "closing" ELSE phase
    /\ force' = TRUE
    /\ UNCHANGED <<role, Served, Background>>

\* Sockets that app.close() waits for.
Connected == {x \in Exchanges : client[x] = "open"}

\* app.close() resolves; flush() looks at the persist chains of this moment.
AppClosed ==
    /\ phase = "closing" /\ Connected = {}
    /\ phase' = "flushing" /\ awaited' = persists
    /\ UNCHANGED <<role, force, Served, persists, chore>>

\* flush() resolves; handle.close() lets no further statement in.
HealthFlushed ==
    /\ phase = "flushing" /\ awaited = 0
    /\ phase' = "ending"
    /\ UNCHANGED <<role, force, Served, Background>>

StatementInFlight ==
    \/ \E x \in Exchanges : handler[x] \in {"insert", "spend"} \/ audit[x] = "insert"
    \/ chore = "statement"

\* sql.end() resolves when the statements in flight are answered.
DbClosed ==
    /\ phase = "ending" /\ ~ StatementInFlight
    /\ phase' = "exit 0"
    /\ UNCHANGED <<role, force, Served, Background>>

\* The grace window elapses.
ForceExit ==
    /\ phase \in Draining /\ force
    /\ phase' = "exit 1"
    /\ UNCHANGED <<role, force, Served, Background>>

ServerNext ==
    \/ Boot \/ Signal \/ AppClosed \/ HealthFlushed \/ DbClosed \/ ForceExit
    \/ JobRuns \/ JobAnswered \/ PersistEnds
    \/ \E x \in Exchanges :
        \/ Accept(x) \/ HangsUp(x) \/ RefusedUnattributed(x) \/ RecordHealth(x)
        \/ LedgerBegins(x) \/ RowInserted(x) \/ SpendRecorded(x) \/ LedgerFails(x)
        \/ EmitTerminalAudit(x) \/ AuditAnswered(x)

ServerSpec == ServerInit /\ [][ServerNext]_serverVars

-----------------------------------------------------------------------------
ServerTypeOK ==
    /\ role \in Roles /\ phase \in {"boot", "listening"} \cup Draining \cup Over
    /\ handler \in [Exchanges -> {"none", "pipeline", "insert", "spend", "settled", "over"}]
    /\ client \in [Exchanges -> {"none", "open", "answered", "hung up"}]
    /\ ledgerRow \in [Exchanges -> {"none", "inserted", "complete", "failed", "cut", "not due"}]
    /\ audit \in [Exchanges -> {"none", "insert", "complete", "cut", "not due"}]
    /\ persists \in 0 .. MaxPersists /\ awaited \in 0 .. persists

\* A clean exit cuts nothing off that a client waited for: whoever got an
\* answer has its ledger row settled, spend included, and its audit row
\* written, and every status transition is persisted, although statements,
\* jobs and hang-ups interleave with the shutdown ("waits for in-flight
\* responses; ledger writes happen inside them", index.ts).
CleanExit ==
    /\ ServerTypeOK
    /\ phase = "exit 0" =>
         \A x \in Exchanges : client[x] = "answered" =>
             ledgerRow[x] \in {"complete", "failed", "not due"} /\ audit[x] \in {"complete", "not due"}
    /\ phase = "exit 0" => client \in [Exchanges -> {"none", "answered", "hung up"}]
    /\ phase = "exit 0" /\ (\A x \in Exchanges : client[x] # "hung up") => persists = 0

=============================================================================

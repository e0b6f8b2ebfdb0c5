-------------------------------- MODULE Hops --------------------------------
(***************************************************************************)
(* What the two executors of src/resilience/executor.ts share: the         *)
(* composite abort signal, the loop over the candidate models, routing a   *)
(* hop, the breaker gate, and taking and giving back a load-shed slot.     *)
(*                                                                         *)
(* JavaScript runs to the next await without interruption, so an action    *)
(* goes from one await to the next.  The awaits are the values of pc:      *)
(*   routing    routeForModel() is looking up provider and credential      *)
(*   queued     in the load-shed queue                                     *)
(*   granted    the slot is taken, the continuation is a pending microtask *)
(*   calling    non-streaming adapter call                                 *)
(*   backoff    sleep() between two attempts                               *)
(*   streaming  waiting for the adapter's next chunk                       *)
(***************************************************************************)
EXTENDS Breaker

CONSTANTS
    Requests,
    Streaming,      \* the requests with envelope.stream set
    Providers,
    Chain,          \* candidateModels(): the primary, then the fallback chain
    Loaded,         \* the models in effective.modelsById
    ProviderOf,     \* model -> provider
    RouteErrors,    \* codes routeForModel() may fail with
    CallErrors,     \* codes an adapter call or its verification may fail with
    MaxConcurrent, QueueCap,   \* load-shed guard
    MaxRetries,     \* MAX_RETRIES
    MaxSamples      \* bound: requests arrive below this many live outcomes

ErrorCode ==
    {"auth_error", "rate_limited", "provider_unavailable", "context_exceeded",
     "content_filtered", "policy_blocked", "scrubber_blocked",
     "capability_missing", "invalid_response", "unknown"}

Retryable == {"rate_limited", "provider_unavailable", "invalid_response"}
PolicySide == {"capability_missing", "policy_blocked"}

\* An invalid_response whose reason is json_truncated is told apart.
CallError == ErrorCode \cup {"json_truncated"}
CodeOf(e) == IF e = "json_truncated" THEN "invalid_response" ELSE e

ASSUME HopsAssumption ==
    /\ Streaming \subseteq Requests
    /\ ProviderOf \in [Loaded -> Providers]
    /\ Len(Chain) \in Nat \ {0} /\ Chain[1] \in Loaded
    /\ RouteErrors \subseteq ErrorCode
    /\ CallErrors \subseteq CallError \ PolicySide   \* only policy and routing raise those
    /\ IsFiniteSet(Requests)
    /\ MaxConcurrent \in Nat \ {0} /\ QueueCap \in Nat /\ MaxRetries \in Nat
    /\ MaxSamples \in Nat

VARIABLES
    win,        \* provider -> breaker window
    inFlight,   \* provider -> slots handed out
    queue,      \* provider -> queued requests
    req         \* request -> its execution (the executor's local variables)

vars == <<win, inFlight, queue, req>>

\* The locals of an execution, with the history the properties speak about.
Execution ==
    [pc : {"idle", "routing", "queued", "granted", "calling", "backoff",
           "streaming", "done"},
     hop : 1 .. Len(Chain),             \* position in the chain
     attempt : 0 .. MaxRetries,
     err : ErrorCode \cup {"none"},     \* lastErr
     client : BOOLEAN,                  \* the client's signal has fired
     fired : BOOLEAN,                   \* the total-timeout timer has fired
     listening : BOOLEAN,               \* its queue entry hears the signal
     slotAt : Providers,                \* provider of the latest acquire()
     frames : BOOLEAN,                  \* this hop sent a chunk: idle timer armed
     content : BOOLEAN,                 \* contentSeen
     idle : BOOLEAN,                    \* idleFired
     told : BOOLEAN,                    \* hopController has been aborted
     result : ErrorCode \cup {"none", "ok", "client_abort"},
     tried : BOOLEAN,                   \* history: a hop failed past routing
     audited : BOOLEAN,                 \* history: a fallback_hop row exists
     out : SUBSET (1 .. Len(Chain))]    \* history: hops whose content went out

TypeOK ==
    /\ win \in [Providers -> Window]
    /\ inFlight \in [Providers -> 0 .. MaxConcurrent]
    /\ queue \in [Providers -> Seq(Requests)]
    /\ req \in [Requests -> Execution]

\* A request that has not called yet; p is of no consequence.
NoExecution(p) ==
    [pc |-> "idle", hop |-> 1, attempt |-> 0, err |-> "none",
     client |-> FALSE, fired |-> FALSE, listening |-> FALSE, slotAt |-> p,
     frames |-> FALSE, content |-> FALSE, idle |-> FALSE, told |-> FALSE,
     result |-> "none", tried |-> FALSE, audited |-> FALSE, out |-> {}]

Init ==
    /\ win = [p \in Providers |-> NewWindow]
    /\ inFlight = [p \in Providers |-> 0]
    /\ queue = [p \in Providers |-> <<>>]
    /\ req = [r \in Requests |-> NoExecution(ProviderOf[Chain[1]])]

-----------------------------------------------------------------------------
\* signal.aborted of compositeSignal().
Aborted(q) == q.client \/ q.fired

\* The provider of the hop that execution q is at.
Target(q) == ProviderOf[Chain[q.hop]]

\* Mutant: the latest error wins.
LatestError(prev, next) == next

\* preferError(): a hop that was never eligible does not mask a failure.
PreferError(prev, next) ==
    IF prev # "none" /\ next \in PolicySide /\ prev \notin PolicySide THEN prev ELSE next

\* previousModel is set: by every hop that is left, so from the second on.
HasPrevious(q) == q.hop > 1

\* What the executor leaves behind: a response or a code, and its locals gone.
Finished(q, result) ==
    [NoExecution(q.slotAt) EXCEPT !.pc = "done", !.result = result,
                                  !.client = Aborted(q)]

\* The loop over the chain goes on to its next loaded model, unless the
\* signal has fired or the chain is exhausted.
Advance(q) ==
    LET later == {i \in (q.hop + 1) .. Len(Chain) : Chain[i] \in Loaded}
    IN  IF Aborted(q) \/ later = {}
        THEN Finished(q, IF q.fired \/ q.err = "none" THEN "provider_unavailable" ELSE q.err)
        ELSE [q EXCEPT !.pc = "routing",
                       !.hop = CHOOSE i \in later : \A j \in later : i <= j]

\* The hop is over with lastErr = e.
FailHop(q, e) == Advance([q EXCEPT !.err = e, !.attempt = 0])

\* Mutant: an exit of the executor that does not release its slot.
LeakThen(r, q) ==
    /\ req' = [req EXCEPT ![r] = q]
    /\ UNCHANGED <<inFlight, queue>>

\* release(): the slot goes to the oldest waiter or back to the pool, while
\* request r continues as q.
ReleaseThen(r, q) ==
    LET p == req[r].slotAt IN
    IF Len(queue[p]) > 0 /\ inFlight[p] - 1 < MaxConcurrent
    THEN /\ queue' = [queue EXCEPT ![p] = Tail(@)]
         /\ req' = [req EXCEPT ![r] = q, ![Head(queue[p])].pc = "granted",
                               ![Head(queue[p])].listening = FALSE]
         /\ UNCHANGED inFlight
    ELSE /\ inFlight' = [inFlight EXCEPT ![p] = @ - 1]
         /\ req' = [req EXCEPT ![r] = q]
         /\ UNCHANGED queue

Record(p, ok) == win' = [win EXCEPT ![p] = AfterRecord(@, ok)]

-----------------------------------------------------------------------------
\* executeResilient / executeResilientStream is entered.  A client that is
\* gone already ends the loop before its first hop.
Arrive(r) ==
    /\ req[r].pc \in {"idle", "done"}
    /\ \A p \in Providers : Len(Prune(win[p].outcomes)) < MaxSamples
    /\ \E gone \in BOOLEAN :
        LET q == [NoExecution(req[r].slotAt) EXCEPT !.client = gone]
        IN  req' = [req EXCEPT ![r] =
                        IF gone THEN Finished(q, "provider_unavailable")
                        ELSE [q EXCEPT !.pc = "routing"]]
    /\ UNCHANGED <<win, inFlight, queue>>

\* routeForModel() throws.  Only the non-streaming executor audits the skip.
RouteFails(r) ==
    /\ req[r].pc = "routing"
    /\ \E e \in RouteErrors :
        LET q == req[r] IN
        req' = [req EXCEPT ![r] =
                    FailHop([q EXCEPT !.audited = @ \/ (HasPrevious(q) /\ r \notin Streaming)],
                            PreferError(q.err, e))]
    /\ UNCHANGED <<win, inFlight, queue>>

\* Routed, and the breaker says no.
RouteRefused(r) ==
    LET q == req[r] IN
    /\ q.pc = "routing"
    /\ ~ Allowed(win[Target(q)])
    /\ req' = [req EXCEPT ![r] =
                  FailHop([q EXCEPT !.audited = TRUE, !.tried = TRUE], "provider_unavailable")]
    /\ UNCHANGED <<win, inFlight, queue>>

\* Routed and let through by the breaker, which leaves its mark on the window.
Gate(r) ==
    /\ req[r].pc = "routing"
    /\ Allowed(win[Target(req[r])])
    /\ win' = [win EXCEPT ![Target(req[r])] = AfterAllow(@)]

\* acquire(): a slot is free.
RouteSlot(r) ==
    LET p == Target(req[r]) IN
    /\ Gate(r)
    /\ inFlight[p] < MaxConcurrent
    /\ inFlight' = [inFlight EXCEPT ![p] = @ + 1]
    /\ req' = [req EXCEPT ![r].pc = "granted", ![r].slotAt = p]
    /\ UNCHANGED queue

\* acquire(): the request has to wait.
RouteQueued(r) ==
    LET p == Target(req[r]) IN
    /\ Gate(r)
    /\ inFlight[p] >= MaxConcurrent
    /\ Len(queue[p]) < QueueCap
    /\ queue' = [queue EXCEPT ![p] = Append(@, r)]
    /\ req' = [req EXCEPT ![r].pc = "queued", ![r].slotAt = p,
                          ![r].listening = ~ Aborted(req[r])]
    /\ UNCHANGED inFlight

\* acquire(): queue full, the request is shed and the hop is over.
RouteShed(r) ==
    LET p == Target(req[r]) IN
    /\ Gate(r)
    /\ inFlight[p] >= MaxConcurrent
    /\ Len(queue[p]) >= QueueCap
    /\ req' = [req EXCEPT ![r] =
                  FailHop([@ EXCEPT !.slotAt = p, !.tried = TRUE], "rate_limited")]
    /\ UNCHANGED <<inFlight, queue>>

Route(r) ==
    RouteFails(r) \/ RouteRefused(r) \/ RouteSlot(r) \/ RouteQueued(r) \/ RouteShed(r)

-----------------------------------------------------------------------------
\* The composite signal fires, by the client or by the timer; q is r's
\* execution with the cause noted.  The event is dispatched once only.
Signal(r, q) ==
    LET first == ~ Aborted(req[r])
        p == q.slotAt
    IN  CASE q.pc = "queued" /\ q.listening /\ first ->
                /\ \E i \in 1 .. Len(queue[p]) :
                    /\ queue[p][i] = r
                    /\ queue' = [queue EXCEPT ![p] = Splice(@, i)]
                /\ req' = [req EXCEPT ![r] = FailHop([q EXCEPT !.tried = TRUE], "rate_limited")]
                /\ UNCHANGED <<win, inFlight>>
          [] q.pc = "streaming" ->        \* onOuter, if it was not too late to listen
                /\ req' = [req EXCEPT ![r] = [q EXCEPT !.told = @ \/ first]]
                /\ UNCHANGED <<win, inFlight, queue>>
          [] OTHER ->
                /\ req' = [req EXCEPT ![r] = q]
                /\ UNCHANGED <<win, inFlight, queue>>

\* No timer or socket event gets between a promise that has settled and its
\* continuation: a granted slot, a sleep() that the signal has rejected.
Interruptible(q) ==
    /\ q.pc \in {"routing", "queued", "calling", "backoff", "streaming"}
    /\ ~ (q.pc = "backoff" /\ Aborted(q))

\* The client disconnects (routes.ts: 'close' before the response finished).
ClientAborts(r) ==
    /\ Interruptible(req[r])
    /\ ~ req[r].client
    /\ Signal(r, [req[r] EXCEPT !.client = TRUE])

\* Mutant: the total-timeout timer is cleared once the slot is granted.
TimesOutInQueue(r) ==
    /\ req[r].pc = "queued"
    /\ ~ req[r].fired
    /\ Signal(r, [req[r] EXCEPT !.fired = TRUE])

\* The total timeout; a stream's first content stops its clock.
TimesOut(r) ==
    /\ Interruptible(req[r])
    /\ ~ req[r].fired
    /\ ~ req[r].content
    /\ Signal(r, [req[r] EXCEPT !.fired = TRUE])

\* Time passes for every window of the breaker.
Tick ==
    /\ win' = [p \in Providers |-> AfterTick(win[p])]
    /\ UNCHANGED <<inFlight, queue, req>>

=============================================================================

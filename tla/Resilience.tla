----------------------------- MODULE Resilience -----------------------------
(***************************************************************************)
(* The resilience layer: streaming and non-streaming requests that share   *)
(* one circuit breaker and one load-shed guard (src/server/index.ts builds *)
(* one of each per process).                                               *)
(***************************************************************************)
EXTENDS Executor, StreamExecutor

Step(r) == Route(r) \/ CallStep(r) \/ StreamStep(r)

Next ==
    \/ \E r \in Requests : Arrive(r) \/ Step(r) \/ ClientAborts(r) \/ TimesOut(r)
    \/ Tick

Spec == Init /\ [][Next]_vars

\* What the event loop and the network guarantee.  Routing, a granted slot
\* and a retry delay go on by themselves, and the total-timeout timer fires.
\* An adapter call may hang for ever, except that fetch() rejects once its
\* signal is aborted; a stream ends or throws once hopController is aborted.
FairSpec ==
    /\ Spec
    /\ WF_vars(Tick)
    /\ \A r \in Requests :
        /\ WF_vars(Route(r))
        /\ WF_vars(StartCalls(r))
        /\ WF_vars(StartStream(r))
        /\ WF_vars(BackoffEnds(r) \/ BackoffRejected(r))
        /\ WF_vars(TimesOut(r))
        /\ WF_vars(Aborted(req[r]) /\ CallReturns(r))
        /\ WF_vars(req[r].told /\ (StreamEnds(r) \/ StreamThrows(r)))

\* ... and new requests keep coming.
BusySpec == FairSpec /\ \A r \in Requests : WF_vars(Arrive(r))

-----------------------------------------------------------------------------
Holding == {"granted", "calling", "backoff", "streaming"}

\* What an execution is to the guard.
SlotState(q) ==
    IF q.pc \in Holding THEN "holding" ELSE IF q.pc = "queued" THEN "queued" ELSE "idle"

\* Both executors, with all their exits, use the guard of shed.ts as its
\* specification allows: nobody releases a slot it does not hold, nobody
\* keeps one, and the queue has exactly the waiting executions.
Shed == INSTANCE LoadShed WITH
    st <- [r \in Requests |-> SlotState(req[r])],
    at <- [r \in Requests |-> req[r].slotAt],
    aborted <- [r \in Requests |-> Aborted(req[r])],
    listening <- [r \in Requests |-> req[r].listening]
ImplementsLoadShed == Shed!Spec

\* No provider is ever spliced in behind another one's output: the content
\* of at most one hop reaches the consumer (executor.ts, 10.4).
NoSplice == TypeOK /\ \A r \in Requests : Cardinality(req[r].out) <= 1

\* On exhaustion of the chain a hop that was skipped for policy reasons does
\* not mask the failure of one that was tried (preferError).
PolicySkipNeverMasks ==
    [][\A r \in Requests :
        req[r].tried /\ req'[r].pc = "done" => req'[r].result \notin PolicySide]_vars

\* No upstream call of a non-streaming request starts after its client left
\* or its total timeout fired, on whichever await that happened.
NoCallAfterAbort ==
    [][\A r \in Requests :
        req[r].pc # "calling" /\ req'[r].pc = "calling" => ~ Aborted(req[r])]_vars

\* "Every hop is audited" (executor.ts): an answer that did not come from the
\* primary model has left a fallback_hop row.
FallbackAudited ==
    [][\A r \in Requests :
        req[r].hop > 1 /\ req[r].pc # "done" /\ req'[r].result = "ok" => req[r].audited]_vars

\* Whatever providers, clients and queues do, a non-streaming request comes
\* to its end.
RequestsFinish ==
    \A r \in Requests \ Streaming : req[r].pc = "routing" ~> req[r].pc = "done"

-----------------------------------------------------------------------------
(***************************************************************************)
(* Statements of the repository's comments and documents that the code     *)
(* does not keep.                                                          *)
(***************************************************************************)

\* docs/runbook.md: "Breaker recovers automatically".  A half-open circuit
\* leaves that state again: the probe's outcome closes it or re-opens it.
HalfOpenResolves ==
    \A p \in Providers : win[p].state = "half_open" ~> win[p].state # "half_open"

\* routes.ts: a client disconnect is "Propagated upstream <=1 tick".
AbortReachesUpstream ==
    \A r \in Requests : req[r].pc = "streaming" /\ req[r].client => req[r].told

=============================================================================

------------------------------ MODULE Executor ------------------------------
(***************************************************************************)
(* executeResilient() of src/resilience/executor.ts: one hop of a          *)
(* non-streaming request, with its retry loop, from the moment the slot is *)
(* taken.  Verification of the response is part of the call: its verdicts  *)
(* are the codes invalid_response and json_truncated.                      *)
(***************************************************************************)
EXTENDS Hops

\* Mutant: auditHop() is not called when a fallback hop starts.
StartedUnaudited(q) == q

\* A hop that starts after another one is audited.
Started(q) == [q EXCEPT !.audited = @ \/ HasPrevious(q)]

\* executeHopWithRetries() is entered; a signal that fired while the request
\* was routed ends the hop before any call.
StartCalls(r) ==
    LET q == req[r] IN
    /\ r \notin Streaming
    /\ q.pc = "granted"
    /\ IF Aborted(q)
       THEN ReleaseThen(r, FailHop([Started(q) EXCEPT !.tried = TRUE], "unknown"))
       ELSE /\ req' = [req EXCEPT ![r] = [Started(q) EXCEPT !.pc = "calling"]]
            /\ UNCHANGED <<inFlight, queue>>
    /\ UNCHANGED win

\* The adapter answers and the response passes verification.
CallSucceeds(r) ==
    /\ req[r].pc = "calling"
    /\ Record(req[r].slotAt, TRUE)
    /\ ReleaseThen(r, Finished(req[r], "ok"))

\* Whether the retry loop tries again after error e.
WillRetry(q, e) ==
    /\ e # "json_truncated"
    /\ e \in Retryable
    /\ q.attempt < MaxRetries
    /\ ~ Aborted(q)

\* The call fails; a failure after the signal fired is not held against the
\* provider.
CallFails(r) ==
    LET q == req[r] IN
    /\ q.pc = "calling"
    /\ IF Aborted(q) THEN UNCHANGED win ELSE Record(q.slotAt, FALSE)
    /\ \E e \in CallErrors :
        IF WillRetry(q, e)
        THEN /\ req' = [req EXCEPT ![r].pc = "backoff", ![r].err = CodeOf(e), ![r].tried = TRUE]
             /\ UNCHANGED <<inFlight, queue>>
        ELSE ReleaseThen(r, FailHop([q EXCEPT !.tried = TRUE], CodeOf(e)))

\* Mutant: sleep() does not listen to the signal.
BackoffDeaf(r) ==
    /\ req[r].pc = "backoff"
    /\ req' = [req EXCEPT ![r].pc = "calling", ![r].attempt = @ + 1]
    /\ UNCHANGED <<win, inFlight, queue>>

\* The retry delay is over: the next attempt.
BackoffEnds(r) ==
    /\ req[r].pc = "backoff"
    /\ ~ Aborted(req[r])
    /\ req' = [req EXCEPT ![r].pc = "calling", ![r].attempt = @ + 1]
    /\ UNCHANGED <<win, inFlight, queue>>

\* The signal fires during sleep(): the error that led here is thrown again.
BackoffRejected(r) ==
    /\ req[r].pc = "backoff"
    /\ Aborted(req[r])
    /\ ReleaseThen(r, FailHop(req[r], req[r].err))
    /\ UNCHANGED win

CallReturns(r) == CallSucceeds(r) \/ CallFails(r)

CallStep(r) ==
    StartCalls(r) \/ CallReturns(r) \/ BackoffEnds(r) \/ BackoffRejected(r)

=============================================================================

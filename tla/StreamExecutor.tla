--------------------------- MODULE StreamExecutor ---------------------------
(***************************************************************************)
(* executeResilientStream() of src/resilience/executor.ts, from the moment *)
(* the slot is taken, together with its only consumer, the SSE relay of    *)
(* src/gateway/routes.ts.  The relay asks for the next chunk in the same   *)
(* turn of the event loop in which it gets one, unless the client is gone; *)
(* then it leaves the loop, which runs the generator's finally block.      *)
(***************************************************************************)
EXTENDS Hops

\* executeStream() is called.  onOuter is registered here: a signal that has
\* fired already is not heard any more.
StartStream(r) ==
    LET q == req[r] IN
    /\ r \in Streaming
    /\ q.pc = "granted"
    /\ req' = [req EXCEPT ![r] =
                  [q EXCEPT !.pc = "streaming", !.audited = q.audited \/ HasPrevious(q), !.frames = FALSE,
                            !.content = FALSE, !.idle = FALSE, !.told = FALSE]]
    /\ UNCHANGED <<win, inFlight, queue>>

\* A chunk without output before any content: held back, idle timer armed.
FrameHeld(r) ==
    /\ req[r].pc = "streaming"
    /\ ~ req[r].content
    /\ req' = [req EXCEPT ![r].frames = TRUE]
    /\ UNCHANGED <<win, inFlight, queue>>

\* The relay's loop body for a chunk: it writes it and asks for the next one,
\* or breaks out when the client is gone, and the generator is returned.
RelayTakes(r, q) ==
    IF q.client
    THEN ReleaseThen(r, Finished(q, "client_abort"))
    ELSE req' = [req EXCEPT ![r] = q] /\ UNCHANGED <<inFlight, queue>>

\* A content chunk, or any chunk after content, is yielded to the relay.
ChunkYielded(r) ==
    LET q == [req[r] EXCEPT !.frames = TRUE, !.content = TRUE, !.out = @ \cup {req[r].hop}] IN
    /\ q.pc = "streaming"
    /\ RelayTakes(r, q)
    /\ UNCHANGED win

\* The adapter's stream ends after content.
StreamEnds(r) ==
    LET q == req[r] IN
    /\ q.pc = "streaming"
    /\ q.content
    /\ Record(q.slotAt, TRUE)
    /\ ReleaseThen(r, Finished(q, IF q.client THEN "client_abort" ELSE "ok"))

\* Mutant: the chain goes on although content has been yielded.
StreamErrorFallsBack(r, e) ==
    LET q == req[r]
        blame == ~ Aborted(q) /\ ~ q.idle
        code == IF q.idle THEN "provider_unavailable" ELSE e
        caught == [q EXCEPT !.tried = TRUE]
    IN  /\ IF blame THEN Record(q.slotAt, FALSE) ELSE UNCHANGED win
        /\ ReleaseThen(r, FailHop(caught, code))

\* The catch block, for error e of a stream that threw or ended without any
\* content.  After content the relay gets the error and closes the books.
StreamError(r, e) ==
    LET q == req[r]
        blame == ~ Aborted(q) /\ ~ q.idle
        code == IF q.idle THEN "provider_unavailable" ELSE e
        caught == [q EXCEPT !.tried = TRUE]
    IN  /\ IF blame THEN Record(q.slotAt, FALSE) ELSE UNCHANGED win
        /\ ReleaseThen(r,
              IF q.content \/ Aborted(q) \/ q.idle THEN Finished(caught, code)
              ELSE FailHop(caught, code))

StreamThrows(r) ==
    /\ req[r].pc = "streaming"
    /\ \E e \in CallErrors \ {"json_truncated"} : StreamError(r, e)

StreamEndsEmpty(r) ==
    /\ req[r].pc = "streaming"
    /\ ~ req[r].content
    /\ StreamError(r, "invalid_response")

\* No chunk for STREAM_IDLE_TIMEOUT_MS after the last one.
IdleFires(r) ==
    /\ req[r].pc = "streaming"
    /\ req[r].frames
    /\ ~ req[r].idle
    /\ req' = [req EXCEPT ![r].idle = TRUE, ![r].told = TRUE]
    /\ UNCHANGED <<win, inFlight, queue>>

StreamStep(r) ==
    \/ StartStream(r)
    \/ FrameHeld(r)
    \/ ChunkYielded(r)
    \/ StreamEnds(r)
    \/ StreamThrows(r)
    \/ StreamEndsEmpty(r)
    \/ IdleFires(r)

=============================================================================

----------------------------- MODULE SdkClient -----------------------------
(***************************************************************************)
(* One call of the client SDK (packages/sdk/src/index.ts) under the        *)
(* caller's signal, its own timer and a router that may stop answering at  *)
(* any point: complete(), completeJson(), stream(), and the calls with no  *)
(* answer to interpret (registration, billing, budget pre-check).          *)
(***************************************************************************)
EXTENDS Integers

\* The calls whose answer is handed on as it is.
HandedOn == {"registerTaskClasses", "billingUsage", "budgetPrecheck"}
Ops == {"complete", "completeJson", "stream"} \cup HandedOn

VARIABLES
    op,         \* the call
    timed,      \* timeoutMs > 0
    anySignal,  \* AbortSignal.any is there
    signal,     \* the caller's: "none", "live" or "fired"
    heard,      \* fetch's signal follows the caller's
    timer,      \* "off", "running" or "fired"
    pc,         \* "idle", "fetching", "error body", "body", "returned", "threw"
    result      \* what was returned or thrown

sdkVars == <<op, timed, anySignal, signal, heard, timer, pc, result>>

InFlight == pc \in {"fetching", "error body", "body"}

SdkTypeOK ==
    /\ op \in Ops /\ timed \in BOOLEAN /\ anySignal \in BOOLEAN /\ heard \in BOOLEAN
    /\ signal \in {"none", "live", "fired"} /\ timer \in {"off", "running", "fired"}
    /\ pc \in {"idle", "fetching", "error body", "body", "returned", "threw"}
    /\ timer = "running" => timed /\ InFlight

SdkInit ==
    /\ op \in Ops /\ timed \in BOOLEAN /\ anySignal \in BOOLEAN
    /\ signal \in {"none", "live", "fired"}
    /\ heard = FALSE /\ timer = "off" /\ pc = "idle" /\ result = "none"

-----------------------------------------------------------------------------
\* withTimeout() follows the caller's signal: itself, with AbortSignal.any, or
\* by a listener, which a signal that has fired never calls; so does stream().
Follows ==
    IF op # "stream" /\ (~ timed \/ anySignal) THEN signal # "none" ELSE signal = "live"

Throw(e) == pc' = "threw" /\ result' = e /\ timer' = "off"

\* The request goes out; fetch() refuses a signal that has fired.
Fetch ==
    /\ pc = "idle"
    /\ heard' = Follows
    /\ IF Follows /\ signal = "fired" THEN Throw("aborted")
       ELSE pc' = "fetching" /\ timer' = (IF timed THEN "running" ELSE "off") /\ UNCHANGED result
    /\ UNCHANGED <<op, timed, anySignal, signal>>

\* Mutant: done() stops the clock for every call.
ClockAtHeaders == "off"

\* What becomes of the timer at the headers: stream() stops it, the timeout
\* signal of the other calls runs on.
TimerAtHeaders == IF op = "stream" THEN "off" ELSE timer

\* ... and of the listener: done() removes the one of withTimeout().
HeardAtHeaders == heard /\ (op = "stream" \/ ~ timed \/ anySignal)

\* The headers arrive: an error, the wrong content type, or the expected one.
Headers(kind) ==
    /\ pc = "fetching"
    /\ heard' = HeardAtHeaders
    /\ IF kind = "wrong type" /\ op \notin HandedOn THEN Throw("unknown")
       ELSE /\ pc' = (IF kind = "error" THEN "error body" ELSE "body")
            /\ timer' = TimerAtHeaders /\ UNCHANGED result
    /\ UNCHANGED <<op, timed, anySignal, signal>>

\* throwFor(): the taxonomy code of the body; one that is no JSON is unknown.
ErrorBody(code) ==
    /\ pc = "error body"
    /\ Throw(code)
    /\ UNCHANGED <<op, timed, anySignal, signal, heard>>

\* completeJson() looks at the finish reason before it parses the content: a
\* truncated answer that happens to parse is an error, too.
JsonRefused(finish, parses) == op = "completeJson" /\ (finish = "length" \/ ~ parses)

\* The body arrives.
Body(finish, parses) ==
    /\ pc = "body"
    /\ IF JsonRefused(finish, parses) THEN Throw(IF finish = "length" THEN "output_truncated" ELSE "unknown")
       ELSE IF op \in HandedOn /\ ~ parses THEN Throw("syntax")
       ELSE pc' = "returned" /\ result' = finish /\ timer' = "off"
    /\ UNCHANGED <<op, timed, anySignal, signal, heard>>

\* The body of an error breaks off: throwFor() catches that.
Cut(reason) == IF pc = "error body" THEN "unknown" ELSE reason

\* The connection breaks.
Breaks ==
    /\ InFlight
    /\ Throw(Cut("network"))
    /\ UNCHANGED <<op, timed, anySignal, signal, heard>>

\* timeoutMs pass: fetch() or the reading of the body rejects.
Timeout ==
    /\ timer = "running"
    /\ pc' = "threw" /\ result' = Cut("timeout") /\ timer' = "fired"
    /\ UNCHANGED <<op, timed, anySignal, signal, heard>>

CallerAborts ==
    /\ signal = "live" /\ pc # "idle"
    /\ signal' = "fired"
    /\ IF InFlight /\ heard THEN Throw(Cut("aborted")) ELSE UNCHANGED <<pc, result, timer>>
    /\ UNCHANGED <<op, timed, anySignal, heard>>

SdkNext ==
    \/ Fetch
    \/ \E k \in {"ok", "wrong type", "error"} : Headers(k)
    \/ \E c \in {"rate_limited", "provider_unavailable", "unknown"} : ErrorBody(c)
    \/ \E f \in {"stop", "length"}, p \in BOOLEAN : Body(f, p)
    \/ Breaks \/ Timeout \/ CallerAborts

SdkSpec == SdkInit /\ [][SdkNext]_sdkVars

-----------------------------------------------------------------------------
\* "A hung router must never hang the app forever": with a timeout every call
\* ends, whatever the router has sent so far; a stream is bounded until its
\* headers arrive.
CallsEnd == []<>~ (timed /\ (pc = "fetching" \/ (InFlight /\ op # "stream")))

=============================================================================

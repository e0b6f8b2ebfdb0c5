------------------------------ MODULE MCGuards ------------------------------
(***************************************************************************)
(* The parts of the router with a state of their own in memory, for TLC:   *)
(* breaker, rate limits, response cache, console sessions, event-stream    *)
(* reader, stream translation, client SDK, the policy cache with those who *)
(* write what it caches, and the life of the process.  They share no       *)
(* variable; each behaviour is about one of them, chosen in its initial    *)
(* state, so that the state space is their sum and not their product.      *)
(***************************************************************************)
EXTENDS BreakerCalls, RateLimiter, ResponseCache, Sessions, SseReader, StreamTranslate, SdkClient,
        PolicyAdmin, Server

VARIABLE focus

all == <<breakerVars, limiterVars, cacheVars, sessionVars, sseVars, translateVars, sdkVars, policyVars, serverVars, focus>>

Init ==
    /\ focus \in {"breaker", "limiter", "cache", "sessions", "sse", "translate", "sdk", "policy", "server"}
    /\ BreakerInit /\ RateLimiterInit /\ ResponseCacheInit /\ SessionsInit /\ PolicyAdminInit
    /\ ServerInit /\ (focus # "server" => role = "both")
    /\ focus # "policy" => flagged = {}
    /\ IF focus = "sse" THEN SseReaderInit
       ELSE /\ reader = "sdk" /\ frames = <<>> /\ wire = <<>> /\ buffer = <<>> /\ out = <<>> /\ socket = "ended"
    /\ IF focus = "translate" THEN TranslateInit
       ELSE /\ answer = (CHOOSE a \in Answers : TRUE) /\ sent = 0 /\ chunks = <<>> /\ tools = <<>> /\ schemaAt = 0 /\ stop = "stop"
            /\ measured = FALSE /\ stream = "open"
    /\ IF focus = "sdk" THEN SdkInit
       ELSE /\ op = "complete" /\ timed = FALSE /\ anySignal = FALSE /\ signal = "none" /\ heard = FALSE
            /\ timer = "off" /\ pc = "idle" /\ result = "none"

\* A step of the part in focus leaves the others alone.
Only(rest) == UNCHANGED <<rest, focus>>

BreakerStep(A) ==
    focus = "breaker" /\ A
        /\ Only(<<limiterVars, cacheVars, sessionVars, sseVars, translateVars, sdkVars, policyVars, serverVars>>)
SdkStep(A) ==
    focus = "sdk" /\ A
        /\ Only(<<breakerVars, limiterVars, cacheVars, sessionVars, sseVars, translateVars, policyVars, serverVars>>)
PolicyStep(A) ==
    focus = "policy" /\ A
        /\ Only(<<breakerVars, limiterVars, cacheVars, sessionVars, sseVars, translateVars, sdkVars, serverVars>>)

Next ==
    \/ BreakerStep(BreakerNext)
    \/ focus = "limiter" /\ RateLimiterNext
        /\ Only(<<breakerVars, cacheVars, sessionVars, sseVars, translateVars, sdkVars, policyVars, serverVars>>)
    \/ focus = "cache" /\ ResponseCacheNext
        /\ Only(<<breakerVars, limiterVars, sessionVars, sseVars, translateVars, sdkVars, policyVars, serverVars>>)
    \/ focus = "sessions" /\ SessionsNext
        /\ Only(<<breakerVars, limiterVars, cacheVars, sseVars, translateVars, sdkVars, policyVars, serverVars>>)
    \/ focus = "sse" /\ SseReaderNext
        /\ Only(<<breakerVars, limiterVars, cacheVars, sessionVars, translateVars, sdkVars, policyVars, serverVars>>)
    \/ focus = "translate" /\ TranslateNext
        /\ Only(<<breakerVars, limiterVars, cacheVars, sessionVars, sseVars, sdkVars, policyVars, serverVars>>)
    \/ SdkStep(SdkNext)
    \/ PolicyStep(PolicyAdminNext)
    \/ focus = "server" /\ ServerNext
        /\ Only(<<breakerVars, limiterVars, cacheVars, sessionVars, sseVars, translateVars, sdkVars, policyVars>>)

\* Time passes for the breaker, for the timeout of an SDK call and for the
\* entries of the policy cache.
Spec ==
    /\ Init /\ [][Next]_all
    /\ WF_all(BreakerStep(Tick)) /\ WF_all(SdkStep(Timeout))
    /\ \A c \in Classes : WF_all(PolicyStep(Expires(c)))

MCPack == "k1" :> [sens |-> 2, needs |-> FALSE]

\* A loose file that acknowledges the third-party model that it binds for one
\* class, and not for the other.
MCFiles ==
    {[classes |-> <<[class |-> "k1", sens |-> 2, needs |-> FALSE]>>,
      policies |-> <<[class |-> "k1", bound |-> {"third"}, ack |-> {"third"}],
                     [class |-> "k2", bound |-> {"third"}, ack |-> {}]>>]}

MCFrames == {<<>>, <<"a", "b", "done">>, <<"a", "error", "b">>, <<"a", "b", "c">>}

\* Blocks of an answer, and the items they are streamed as; providers that
\* number their calls may send arguments before the name.  The schema tool is
\* also left empty.  An empty frame comes before a text, first or in mid-stream.
B(k, p) == [kind |-> k, parts |-> p]
MCBlocks == {<<>>, <<B("text", <<"s", "t">>)>>, <<B("text", <<"s">>), B("tool", <<"x", "y">>), B("tool", <<"z">>)>>,
             <<B("tool", <<"x", "y">>), B("text", <<"t">>), B("tool", <<>>)>>}
MCThoughts == {<<B("thinking", <<"h">>), B("schema", <<"x", "y">>)>>,
               <<B("text", <<"s">>), B("schema", <<"x">>), B("tool", <<"y", "z">>)>>,
               <<B("text", <<"s">>), B("schema", <<>>)>>,
               <<B("tool", <<"x">>), B("thinking", <<>>), B("tool", <<"y">>)>>}
MCIds == <<"i", "j", "k">>

MCStart(b, i) == [type |-> "start", kind |-> b.kind, block |-> i, data |-> IF b.kind = "tool" THEN MCIds[i] ELSE ""]
MCParts(b, i) == [k \in 1..Len(b.parts) |-> [type |-> "part", kind |-> b.kind, block |-> i, data |-> b.parts[k]]]
MCItemsOf(b, i, proto, named) ==
    LET parts == MCParts(b, i)
        empty == [type |-> "empty", kind |-> "text", block |-> i, data |-> ""]
    IN  IF proto = "openai" /\ b.kind = "text" THEN <<empty>> \o parts
        ELSE IF named \/ parts = <<>> THEN <<MCStart(b, i)>> \o parts
        ELSE <<Head(parts), MCStart(b, i)>> \o Tail(parts)
MCItems(bs, proto, named) ==
    FoldLeft(LAMBDA acc, i : acc \o MCItemsOf(bs[i], i, proto, named), <<>>, [i \in 1..Len(bs) |-> i])

MCAnswers ==
    {[proto |-> "anthropic", items |-> MCItems(b, "anthropic", TRUE), stop |-> s, usage |-> "trailing", indexed |-> TRUE] :
        b \in MCBlocks \cup MCThoughts, s \in {"end_turn", "max_tokens", "tool_use"}}
    \cup
    {[proto |-> "openai", items |-> MCItems(b, "openai", f[2]), stop |-> s, usage |-> u, indexed |-> f[1]] :
        b \in MCBlocks, s \in {"stop", "length", "function_call"}, u \in {"none", "trailing", "withFinish", "every"},
        f \in {<<TRUE, TRUE>>, <<TRUE, FALSE>>, <<FALSE, TRUE>>}}
=============================================================================

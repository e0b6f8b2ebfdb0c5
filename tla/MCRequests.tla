----------------------------- MODULE MCRequests -----------------------------
(***************************************************************************)
(* What happens to a request on its way, for TLC: the pipeline's stages,   *)
(* the verdict on an answer, the ledger.  Each behaviour is about one of   *)
(* them, chosen in its initial state.                                      *)
(***************************************************************************)
EXTENDS Pipeline, Ledger, Verify, TLC

VARIABLE focus

all == <<pipelineVars, ledgerVars, verifyVars, focus>>

Init ==
    /\ focus \in {"pipeline", "ledger", "verify"}
    /\ PipelineInit /\ LedgerInit
    /\ IF focus = "verify" THEN VerifyInit ELSE given = <<>> /\ verdict = NoVerdict

Next ==
    /\ UNCHANGED focus
    /\ \/ focus = "pipeline" /\ PipelineNext /\ UNCHANGED <<ledgerVars, verifyVars>>
       \/ focus = "ledger" /\ LedgerNext /\ UNCHANGED <<pipelineVars, verifyVars>>
       \/ focus = "verify" /\ VerifyNext /\ UNCHANGED <<pipelineVars, ledgerVars>>

Spec == Init /\ [][Next]_all

\* Requests are interchangeable.
Symmetric == Permutations(Requests) \cup Permutations(Charges)

-----------------------------------------------------------------------------
MakePolicy(default, allowed, fallback, gone, blocked, localOnly, needs, sees, ttl, cloud) ==
    [default |-> default, allowed |-> allowed, fallback |-> fallback,
     loaded |-> ({default} \cup Elements(allowed \o fallback)) \ gone, blocked |-> blocked, localOnly |-> localOnly,
     needs |-> needs, has |-> [m \in Models |-> IF m \in sees THEN {"vision"} ELSE {}],
     cacheTtl |-> ttl, cacheCloud |-> cloud]

\* What is needed, and who has it: nothing, or vision, which nobody, only the
\* local l2, only the cloud model, or everybody but the local l1 has.
Vision == {<<{}, {}>>} \cup ({{"vision"}} \X {{}, {"l2"}, {"c1"}, {"l2", "c1"}})

\* Policies of every shape: cloud or local default, cloud before or behind
\* local fallbacks, capability gaps, a model deleted or banned, local_only classes.
AllShapes ==
    {MakePolicy(d, a, f, g, b, lo, v[1], v[2], FALSE, FALSE) :
        d \in {"l1", "c1"}, a \in {<<>>, <<"c1", "l2">>},
        f \in {<<>>, <<"c1">>, <<"l2", "c1">>, <<"c1", "l2">>},
        g \in {{}, {"l2"}}, b \in {{}, {"l2"}}, lo \in BOOLEAN, v \in Vision}

\* A class that opts into the response cache, and one that does not.
CachingShapes ==
    {MakePolicy("l1", <<>>, <<"c1">>, {}, {}, FALSE, {}, {}, ttl, FALSE) : ttl \in BOOLEAN}

\* A firm with policies of every shape, and firms that share the cache.
FirmPolicies == [f \in Firms |-> IF f = "f0" THEN AllShapes ELSE CachingShapes]

\* Bound: nobody arrives beside a request of f0 or one that asks for a model.
AloneAtF0 ==
    LET busy == {r \in Requests : ctx'[r].stage # "idle"}
    IN  Cardinality(busy) > 1 => \A r \in busy : ctx'[r].firm # "f0" /\ ctx'[r].wanted = NoModel

-----------------------------------------------------------------------------
\* Two firms that run the same app, one caller with a user.
CallerSet ==
    {[firm |-> "f1", app |-> "tb", user |-> "u1"],
     [firm |-> "f2", app |-> "tb", user |-> NoUser]}

\* Every limit is met by the cost of one or two requests.
LimitCents == [firm |-> 2, app |-> 2, user |-> 1, task_class |-> 2]

Used(p, c, r) == [prompt |-> p, completion |-> c, cachedRead |-> r, cacheWrite |-> 0]
Price(i, o) == [input |-> i, output |-> o, cacheRead |-> None, cacheWrite |-> None]

\* Nothing used; one and two cents, the latter with cached tokens at the input
\* rate; a price without an output rate.
MCBills ==
    {EmptyBill, [usage |-> Used(1, 0, 0), prices |-> Price(1, 1)],
     [usage |-> Used(0, 1, 1), prices |-> Price(1, 1)], [usage |-> Used(1, 1, 0), prices |-> Price(1, None)]}

-----------------------------------------------------------------------------
Str(x) == [t |-> "string", v |-> x]
Scalars == {Str("a"), Str("b"), [t |-> "integer", v |-> "1"], [t |-> "null", v |-> "null"]}
Objects ==
    UNION {{[t |-> "object", f |-> f] : f \in [keys -> Scalars]} : keys \in SUBSET {"kind", "x"}}
Arrays == {[t |-> "array", s |-> <<a, b>>] : a \in Scalars, b \in Scalars}
            \cup {[t |-> "array", s |-> <<o>>] : o \in Objects}

Anything == [types |-> {}, nullable |-> FALSE, enum |-> {}, branches |-> <<>>, props |-> <<>>,
        required |-> {}, items |-> <<>>]
Typed(t) == [Anything EXCEPT !.types = {t}]
Leaf == {Anything, Typed("number"), [Typed("string") EXCEPT !.nullable = TRUE], [Anything EXCEPT !.enum = {Str("a")}],
         [Typed("string") EXCEPT !.enum = {Str("b")}]}

\* Object schemas with a discriminator before or behind another property.
Variants ==
    LET Kind(s) == [key |-> "kind", of |-> s]
        X(s) == [key |-> "x", of |-> s]
    IN  {[Typed("object") EXCEPT !.props = ps, !.required = r] :
            ps \in {<<Kind(k), X(x)>> : k \in Leaf, x \in {Typed("integer"), Anything}}
                   \cup {<<X(Typed("integer")), Kind([Anything EXCEPT !.enum = {Str("a")}])>>},
            r \in {{}, {"kind", "x"}}}
Unions ==
    {[Anything EXCEPT !.branches = <<a, b>>] : a \in Variants, b \in Variants}
    \cup {[Anything EXCEPT !.enum = {Str("a")}, !.branches = <<[b EXCEPT !.required = {}], b>>] : b \in Variants}
Lists == {[Typed("array") EXCEPT !.items = <<i>>] : i \in Leaf \cup Variants}

\* Every schema with its subschemas, and how deep it is nested.
Flat == Leaf \cup {Typed("integer")}
MCSchemas == Flat \cup Variants \cup Unions \cup Lists
MCHeight == [s \in MCSchemas |-> IF s \in Flat THEN 0 ELSE IF s \in Variants THEN 1 ELSE 2]
MCValues == Scalars \cup Objects \cup Arrays

Json(v) == [kind |-> "json", value |-> v]
Text(k) == [kind |-> k, value |-> Str("a")]
Asks(s, mode) == [type |-> "json_schema", schema |-> s, validation |-> mode, strict |-> FALSE]

\* Every value under every schema of its kind, in both modes; and answers of
\* every outer form under every request.
MCCases ==
    {[res |-> [finish |-> "stop", content |-> Json(pair[1]), calls |-> <<>>],
      asked |-> Asks(pair[2], mode), default |-> "structural"] :
        mode \in {"unset", "strict"},
        pair \in (Scalars \X Leaf) \cup (Objects \X (Variants \cup Unions)) \cup (Arrays \X Lists)}
    \cup
    {[res |-> [finish |-> f, content |-> c, calls |-> calls],
      asked |-> [Asks(Anything, "unset") EXCEPT !.type = type, !.strict = strict], default |-> d] :
        f \in {"stop", "length", "tool_calls", "content_filter", "error"},
        c \in {Text("blank"), Text("prose"), Text("fenced"), Json(Str("a"))},
        calls \in {<<>>, <<Json(Str("a"))>>, <<Json(Str("a")), Text("prose")>>},
        type \in {"text", "json_object", "json_schema"}, strict \in BOOLEAN,
        d \in {"structural", "strict"}}
=============================================================================

------------------------------ MODULE Pipeline ------------------------------
(***************************************************************************)
(* The request pipeline (src/gateway/pipeline.ts) of one firm and one task *)
(* class, seen from what leaves the box: policy, scrubber, routing, the    *)
(* response cache and the fallback chain.  Stages run in the order auth,   *)
(* policy, budget, scrub, route, adapt; the resilient executor is reduced  *)
(* to what it does to a hop: skip it, call it in vain, or be served by it. *)
(* Non-streaming requests only: streams never touch the response cache.    *)
(***************************************************************************)
EXTENDS Policy

CONSTANTS
    Requests,
    Firms,
    Policies,      \* firm -> the effective policies to explore
    Wanted         \* models that an application may ask for, or NoModel

ASSUME PipelineAssumption ==
    /\ Firms # {}
    /\ \A f \in Firms : Policies[f] # {} /\ Policies[f] \subseteq EffectivePolicy
    /\ Wanted \subseteq Models \cup {NoModel}

Modes == {"redact", "block", "warn"}

VARIABLES
    cache,    \* ResponseCache: <<firm, model, messages>> -> the model that answered
    ctx,      \* request -> PipelineCtx
    sent      \* history: what each request sent to which model

pipelineVars == <<cache, ctx, sent>>

\* Messages (with the parameters that shape the answer) are told apart by
\* whether the scrubber finds protected data in them; requests with equal
\* messages have equal hashes.
Messages == {"plain", "protected"}

Keys == Firms \X Models \X Messages

\* The error codes that end a request, or "none".
Codes ==
    {"none", "auth_error", "rate_limited", "policy_blocked", "capability_missing", "no_vision_provider",
     "budget_exceeded", "scrubber_blocked", "provider_unavailable"}

Stages ==
    {"idle", "auth", "policy", "budget", "scrub", "route", "lookup", "hop", "store", "ledger", "done"}

Ctx ==
    [stage : Stages,
     firm : Firms, messages : Messages, wanted : Models \cup {NoModel},
     policy : UNION {Policies[f] : f \in Firms},        \* ctx.effective, with its firm's scrubber mode
     mode : Modes,
     redacted : BOOLEAN,       \* ctx.envelope is the redacted copy
     cloudCopy : BOOLEAN,      \* ctx.cloudEnvelope holds one
     barred : BOOLEAN,         \* ctx.cloudBlockedCounts is set
     route : Models \cup {NoModel},
     key : Keys \cup {NoModel},    \* cacheKey, of the primary route
     hop : Nat, answer : Models \cup {NoModel}, hit : BOOLEAN,
     err : Codes]

TypeOK ==
    /\ DOMAIN cache \subseteq Keys
    /\ \A k \in DOMAIN cache : cache[k] \in Models
    /\ ctx \in [Requests -> Ctx]
    /\ sent \in [Requests -> SUBSET [to : Models, text : {"original", "redacted"}]]

NewCtx(firm, messages, wanted) ==
    [stage |-> "auth", firm |-> firm, messages |-> messages, wanted |-> wanted,
     policy |-> CHOOSE p \in Policies[firm] : TRUE, mode |-> "redact",
     redacted |-> FALSE, cloudCopy |-> FALSE, barred |-> FALSE, route |-> NoModel,
     key |-> NoModel, hop |-> 1, answer |-> NoModel, hit |-> FALSE,
     err |-> "none"]

PipelineInit ==
    /\ cache = <<>>
    /\ ctx = [r \in Requests |->
                [NewCtx(CHOOSE f \in Firms : TRUE, "plain", NoModel) EXCEPT !.stage = "idle"]]
    /\ sent = [r \in Requests |-> {}]

-----------------------------------------------------------------------------
\* r goes on as c and changes nothing else.
Becomes(r, c) == ctx' = [ctx EXCEPT ![r] = c] /\ UNCHANGED <<cache, sent>>

\* The runner's catch block: the error is noted and the ledger stage follows.
Fail(r, code) == Becomes(r, [ctx[r] EXCEPT !.stage = "ledger", !.err = code])

Goto(r, stage) == Becomes(r, [ctx[r] EXCEPT !.stage = stage])

At(r, stage) == ctx[r].stage = stage

Arrive(r) ==
    /\ ctx[r].stage = "idle"
    /\ \E f \in Firms, m \in Messages, w \in Wanted : Becomes(r, NewCtx(f, m, w))

\* stageAuth(): token and rate limits.
StageAuth(r) ==
    /\ At(r, "auth")
    /\ \/ Goto(r, "policy")
       \/ \E code \in {"auth_error", "rate_limited"} : Fail(r, code)

\* stagePolicy(): the effective policy, firm settings included, is taken here,
\* once for the whole request.  It comes from the engine's cache and may be
\* older than what an administrator has configured since: any policy in any
\* mode.  A class without an enabled policy or a denied role fails.
StagePolicy(r) ==
    /\ At(r, "policy")
    /\ \/ \E p \in Policies[ctx[r].firm], m \in Modes :
            Becomes(r, [ctx[r] EXCEPT !.stage = "budget", !.policy = p, !.mode = m])
       \/ Fail(r, "policy_blocked")

\* stageBudget()
StageBudget(r) ==
    /\ At(r, "budget")
    /\ Goto(r, "scrub") \/ Fail(r, "budget_exceeded")

Selected(r) == SelectModel(ctx[r].policy, ctx[r].wanted)

\* Mutant: only the primary decides whether the request is scrubbed (Q-072).
PrimaryOnlyInChain(p) == FALSE

\* The chain considered by the scrub stage: the selected model and the
\* fallback models that exist, whether or not they will be eligible.
CloudInChain(p) == \E m \in Elements(p.fallback) : m \in p.loaded /\ IsCloud(m)

\* Mutant: the redacted copy replaces the envelope for local models, too.
ScrubbedForAll(c, cloudPrimary) ==
    CASE c.messages = "plain" \/ c.mode = "warn" -> [c EXCEPT !.stage = "route"]
      [] c.messages # "plain" /\ c.mode = "redact" ->
            [c EXCEPT !.stage = "route", !.redacted = TRUE]
      [] c.messages # "plain" /\ c.mode = "block" ->
            [c EXCEPT !.stage = "ledger", !.err = "scrubber_blocked"]

\* What a scrub without an internal error makes of context c, whose primary
\* model is in the cloud iff cloudPrimary.
Scrubbed(c, cloudPrimary) ==
    LET found == c.messages = "protected"
        next == [c EXCEPT !.stage = "route"]
    IN  CASE ~ found \/ c.mode = "warn" -> next
          [] found /\ c.mode = "redact" ->
                IF cloudPrimary THEN [next EXCEPT !.redacted = TRUE]
                ELSE [next EXCEPT !.cloudCopy = TRUE]
          [] found /\ c.mode = "block" ->
                IF cloudPrimary THEN [c EXCEPT !.stage = "ledger", !.err = "scrubber_blocked"]
                ELSE [next EXCEPT !.barred = TRUE]

\* stageScrub(): a failing selection keeps its code; a scrubber error blocks
\* the request; nothing is scanned when no candidate is in the cloud.
StageScrub(r) ==
    LET sel == Selected(r)
        cloudPrimary == IsCloud(sel.model)
        scan == cloudPrimary \/ CloudInChain(ctx[r].policy)
    IN  /\ At(r, "scrub")
        /\ \/ sel.err # "none" /\ Fail(r, sel.err)
           \/ sel.err = "none" /\ ~ scan /\ Goto(r, "route")
           \/ /\ sel.err = "none" /\ scan
              /\ Becomes(r, Scrubbed(ctx[r], cloudPrimary)) \/ Fail(r, "scrubber_blocked")

\* Mutant: a fallback hop is not validated again.
RoutableUnchecked(c, m) == ~ (IsCloud(m) /\ c.barred)

\* routeForModel() lets context c use model m, as far as policy goes; it may
\* still fail for want of a provider, an adapter, a credential.
Routable(c, m) == Eligible(c.policy, m) /\ ~ (IsCloud(m) /\ c.barred)

\* stageRoute(): a primary that cannot be routed is left to the executor.
StageRoute(r) ==
    LET m == Selected(r).model IN
    /\ At(r, "route")
    /\ \/ Routable(ctx[r], m) /\ Becomes(r, [ctx[r] EXCEPT !.stage = "lookup", !.route = m])
       \/ Goto(r, "lookup")

\* Mutant: the key without the firm (Q-073).
KeyWithoutFirm(c, m) ==
    IF c.policy.cacheTtl /\ (IsLocal(m) \/ c.policy.cacheCloud)
    THEN <<"any", m, c.messages>>
    ELSE NoModel

\* keyFor(): the cache key of context c when model m serves, if cacheable.
KeyFor(c, m) ==
    IF c.policy.cacheTtl /\ (IsLocal(m) \/ c.policy.cacheCloud)
    THEN <<c.firm, m, c.messages>>
    ELSE NoModel

\* stageAdapt(): the cache is asked under the key of the primary route.
Lookup(r) ==
    LET c == ctx[r]
        key == IF c.route = NoModel THEN NoModel ELSE KeyFor(c, c.route)
    IN  /\ At(r, "lookup")
        /\ IF key # NoModel /\ key \in DOMAIN cache
           THEN Becomes(r, [c EXCEPT !.stage = "ledger", !.key = key,
                                     !.answer = cache[key], !.hit = TRUE])
           ELSE Becomes(r, [c EXCEPT !.stage = "hop", !.key = key])

\* hopEnvelope(): the text that model m gets to see.
HopText(c, m) ==
    IF c.redacted \/ (IsCloud(m) /\ c.cloudCopy) THEN "redacted" ELSE "original"

Candidates(r) == CandidateModels(ctx[r].policy, Selected(r).model)

\* The executor at its current hop: the hop is skipped ...
NextHop(r, code) ==
    IF ctx[r].hop < Len(Candidates(r))
    THEN [ctx[r] EXCEPT !.hop = @ + 1]
    ELSE [ctx[r] EXCEPT !.stage = "ledger", !.err = code]

HopSkipped(r) ==
    /\ At(r, "hop")
    /\ Becomes(r, NextHop(r, "provider_unavailable"))

\* ... or called, which sends the request out, with or without success.
HopCalled(r) ==
    LET c == ctx[r]
        m == Candidates(r)[c.hop]
    IN  /\ At(r, "hop")
        /\ m \in c.policy.loaded
        /\ Routable(c, m)
        /\ sent' = [sent EXCEPT ![r] = @ \cup {[to |-> m, text |-> HopText(c, m)]}]
        /\ \E c2 \in {[c EXCEPT !.stage = "store", !.route = m, !.answer = m],
                      [NextHop(r, "provider_unavailable") EXCEPT !.route = m]} :
              ctx' = [ctx EXCEPT ![r] = c2]
        /\ UNCHANGED cache

\* stageAdapt() after the executor: servedKey, and the response is cached.
Store(r) ==
    LET c == ctx[r]
        servedKey == IF c.key # NoModel THEN c.key ELSE KeyFor(c, c.route)
    IN  /\ At(r, "store")
        /\ ctx' = [ctx EXCEPT ![r].stage = "ledger"]
        /\ cache' = IF servedKey = NoModel THEN cache
                    ELSE [k \in DOMAIN cache \cup {servedKey} |->
                            IF k = servedKey THEN c.answer ELSE cache[k]]
        /\ UNCHANGED sent

\* The ledger stage, which module Ledger models, ends the request.
StageLedger(r) == At(r, "ledger") /\ Goto(r, "done")

\* An entry of the cache expires or is evicted.
Evict ==
    \E k \in DOMAIN cache :
        /\ cache' = [x \in DOMAIN cache \ {k} |-> cache[x]]
        /\ UNCHANGED <<ctx, sent>>

PipelineNext ==
    \/ \E r \in Requests :
        \/ Arrive(r) \/ StageAuth(r) \/ StagePolicy(r) \/ StageBudget(r)
        \/ StageScrub(r) \/ StageRoute(r) \/ Lookup(r)
        \/ HopSkipped(r) \/ HopCalled(r) \/ Store(r) \/ StageLedger(r)
    \/ Evict

PipelineSpec == PipelineInit /\ [][PipelineNext]_pipelineVars

-----------------------------------------------------------------------------
\* Protected data never leaves the box in a mode that forbids it: in redact
\* mode a cloud model only sees the redacted copy, in block mode it sees
\* nothing at all, whichever hop of the chain it serves and whether the
\* primary was local or not (stageScrub, routeForModel, hopEnvelope).
NoProtectedEgress ==
    \A r \in Requests : \A s \in sent[r] :
        IsCloud(s.to) /\ ctx[r].messages = "protected" =>
            \/ ctx[r].mode = "warn"
            \/ ctx[r].mode = "redact" /\ s.text = "redacted"

\* With a local primary, local models see the original text even though the
\* scrubber prepared a copy for cloud hops ("local primary serves the
\* ORIGINAL", stageScrub).
LocalPrimarySeesOriginal ==
    \A r \in Requests : \A s \in sent[r] :
        IsLocal(Selected(r).model) /\ IsLocal(s.to) => s.text = "original"

\* Only eligible, configured models are ever called, and for a local_only class
\* only local ones: be it the default, the requested model, a capability
\* upgrade or a fallback hop (selectModel, the re-check of every hop by
\* routeForModel, and the "hard invariant" of modelViolation).
OnlyEligibleCalled ==
    \A r \in Requests : LET p == ctx[r].policy IN
        \A s \in sent[r] :
            /\ p.localOnly => IsLocal(s.to)
            /\ s.to \notin p.blocked /\ p.needs \subseteq p.has[s.to]
            /\ s.to \in {p.default} \cup Elements(p.allowed \o p.fallback)

\* A cached answer only ever replays what the same firm asked with the same
\* messages before, although the cache is shared and requests of both firms
\* interleave between lookup and store (ResponseCache.key, "messages hash
\* alone would serve firm A's cached completion to firm B").
CacheIsolation ==
    \A r \in Requests : ctx[r].hit =>
        \E q \in Requests \ {r} :
            /\ ctx[q].firm = ctx[r].firm /\ ctx[q].messages = ctx[r].messages
            /\ \E s \in sent[q] : s.to = ctx[r].answer

-----------------------------------------------------------------------------
\* ops/cache.ts: "Local-tier only unless the task class also sets cache_cloud:
\* true (cloud responses stay uncached by default)".
CloudStaysUncached ==
    (\E k \in DOMAIN cache : IsCloud(cache[k])) =>
        \E r \in Requests : ctx[r].policy.cacheCloud

=============================================================================

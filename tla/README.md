# Vibe AI Router: TLA+ verification project

The router is a gateway (TypeScript, Fastify, PostgreSQL) between the applications of an
accounting firm and model providers, local and in the cloud.  An application posts an
OpenAI-shaped chat request with a task class; the router authenticates it, applies the firm's
policy and budget, scrubs protected data from what goes to the cloud, picks a model and a
fallback chain, calls providers with retries, circuit breaker and load shedding, verifies and
translates the answer, and writes one ledger row.  Beside that runs a control plane: encrypted
credentials, a model catalog fed from several sources, policies edited in a console.  This
project models both, checks them with TLC on small instances and proves nearly all of the safety
properties for every instance with TLAPS.

Source paths below are relative to the repository root.

## 1. Inventory

| Component (source) | State it keeps | Operations | What makes it correct |
|---|---|---|---|
| Load-shed guard (`src/resilience/shed.ts`) | slots out and FIFO queue per provider | acquire, release, abort of a waiter | count = holders, limit, no lost wake-up, FIFO |
| Circuit breaker (`src/resilience/breaker.ts`) | rolling outcomes, state, opening time, probe flag | allow, record | opens on evidence only, one probe, cools down, recovers |
| Executors (`src/resilience/executor.ts`, `backoff.ts`) | one execution: hop, attempt, last error, signals, timers | route, gate, acquire, call or stream, back off, fall back | slot returned once, no call after abort, no splice, right error, always ends |
| SSE relay and route (`src/gateway/routes.ts`) | abort controller, finish chunk | relay chunks, abort, health, ledger | abort propagates, one row per stream |
| Pipeline (`src/gateway/pipeline.ts`) | `PipelineCtx` | auth, policy, budget, scrub, route, adapt, ledger | nothing protected leaves in a mode that forbids it |
| Policy engine (`src/policy/engine.ts`) | 30 s cache of effective policies | resolve, invalidate, selectModel, modelViolation | bans, sensitivity, capabilities on every path; changes arrive |
| Response cache (`src/ops/cache.ts`) | LRU map with TTL | get, set | isolation of firms, tier rule, eviction order |
| Ledger, budgets, costs (`src/ledger/*`) | `usage_ledger`, `budgets_state` | checkBudgets, write, recordSpend, computeCost | one row, never charged twice, hard stop, no silent zero |
| Rate limiter (`src/resilience/limiter.ts`) | token buckets | take, prune | bounded rate, honest Retry-After |
| Vault (`src/vault/service.ts`, `crypto.ts`, `scripts/rotate-master-key.ts`) | encrypted credentials with a status | add, promote, revoke, auto-revoke, decrypt, rotate | one active credential, grace ends, always decryptable |
| Provider health (`src/vault/health.ts`) | last outcomes, status, persist chain | record, persist, test | the row is the monitor's latest status |
| Policy administration (`src/policy/save.ts`, `registration.ts`, `pack.ts`) | policies, task classes | save, patch, register, default pack, import | never relaxed by a machine, third parties acknowledged |
| Catalog (`src/catalog/*`) | models, append-only prices | sync, discovery, scrape, live prices, probe, retire | operator's values survive, prices settle, bindings hold |
| Verification (`src/gateway/verify.ts`) | none | verifyResponse, validateSchemaSubset | verdict is right in both modes |
| Adapters (`src/adapters/*`) | stream translator state, read buffer | postSse, handle, translate | streamed = unstreamed |
| Admin API and sessions (`src/admin-api/*`) | sessions in memory | login, logout, change, routes | old logins die, cap |
| Server (`src/server/*`, `src/db/client.ts`) | process life cycle | boot, jobs, signal, shutdown | a clean exit cuts nothing off |
| Audit (`src/protect/audit.ts`), scrubber (`src/protect/scrub.ts`), metrics, console (`ui`) | rows; none | emit, scan, render | see "Not modelled" |
| SDK (`packages/sdk`) | one call | complete, completeJson, stream, ... | never hangs |

**Interaction.**  A request runs `runPipeline`; its adapt stage calls an executor, which calls
`routeForModel`, `breaker.allow`, `shed.acquire`, the adapter, `verifyResponse`,
`breaker.record`.  For a stream the route handler consumes the executor's generator and writes
the ledger when it ends.  Breaker, guard, caches, limiters, sessions and health monitor are
shared by all requests of a process; the tables are shared by requests, the console, the
background jobs and (roles `gateway` and `console`) by two processes.

**What is hard.**  JavaScript interleaves at every `await`; state read before one is used after
it (breaker verdict, cache key, abort listener, catalog rows, class sensitivity, overrides).
Signals fire at any await.  Outcomes arrive late, or never.  Most multi-statement writes have
no transaction, so a statement can fail, or the process end, in the middle.  `PROJECT.json`
lists these hazards with their lines and the properties that guard them.

## 2. Modules

| Module | Models |
|---|---|
| `SlotPool` | abstract specification: per provider, a set of at most `MaxConcurrent` holders |
| `LoadShed` | `LoadShedGuard`; acquire and release are synchronous, so one action each. `listening`: a waiter's abort listener was attached before the signal fired |
| `Breaker`, `BreakerCalls` | one provider's window as pure functions (ages in ticks, cut off where more time makes no difference); concurrent callers that record late, several times or never |
| `Hops`, `Executor`, `StreamExecutor`, `Resilience` | what both executors share, the retry loop, the chunk loop with its relay, and their composition over one breaker and one guard; an action goes from one `await` to the next |
| `Arrays` | JavaScript's `filter` and `splice` as operators without recursion; used by `Breaker`, `Policy`, `Ledger`, `LoadShed`, `ResponseCache` |
| `Policy`, `Pipeline` | `modelViolation`, `selectModel`, `candidateModels` as operators; stages auth to adapt, what each hop sends to whom, the response cache's keys |
| `Ledger` | `checkBudgets`, `computeCost`, `DbLedger.write`, `recordSpend` statement by statement, with faults, crash and month's end |
| `Verify` | `validateSchemaSubset` with its collectors of enum misses and hits, validation modes, the order of checks in `verifyResponse`; `Validate` is a recursive function, whose one level is `Judge` |
| `RateLimiter` | token buckets in thirds of a request, both takes of `stageAuth`, pruning |
| `ResponseCache` | insertion order, touch on get, TTL, eviction |
| `Sessions` | `SessionStore`, login and credential change split at their awaits (password hashing), re-applied bootstrap password, restart |
| `SseReader` | `postSse` and the SDK's reader over a byte stream cut anywhere; a frame is two halves, line ends are CR and NL |
| `StreamTranslate` | `AnthropicStreamState`, `OpenAiStreamState`, the loops around them, and the translation of the same answer unstreamed; an answer is the sequence of its items: the start of a block, a part of one, or an empty frame |
| `SdkClient` | one SDK call: caller's signal, timer, headers, body, errors |
| `PolicyAdmin` | the writers of classes and policies, with reads and writes apart, and `PolicyEngine.resolve` with its cache; discovery flags models as third-party-hosted meanwhile |
| `Server` | boot, exchanges, health persists, jobs, and the shutdown sequence |
| `Vault` | credential operations of concurrent handlers statement by statement, grace periods, rotation script, keyring of the running process |
| `Health` | outcomes window, status, persist chain, connection tests |
| `Catalog` | one canonical id: passes that work on a snapshot of its row, operator's edits, probes, retirement, policies that bind it |
| `MCResilience`, `MCRequests`, `MCGuards`, `MCControl` | instances for TLC |
| `LoadShedProofs`, `ArrayProofs`, `ResilienceProofs`, `PipelineProofs`, `LedgerProofs`, `ControlProofs`, `GuardsProofs`, `AnswerProofs` | theorems and proofs (section 4) |

**Composition.**  Parts that interact are composed for real: `Resilience` (executors, breaker,
guard), `Pipeline` (policy, scrubber verdict, cache), `Ledger` (budget, row, counters, cost),
`PolicyAdmin` (writers and cache), `Server`.  Parts that share no variable are put side by side
in one MC module with a variable `focus`: each behaviour starts with one part in focus and moves
only that part, so that a run's state space is the sum of its parts' state spaces.  An invariant
or property of a part holds trivially in the behaviours of the others, so checking it in the
union is checking it for the part.

**Refinement.**  `Resilience => LoadShed => SlotPool`: `ImplementsLoadShed` (by the mapping `SlotState`, from the program
counters of both executors to the guard's three states) and `ImplementsSlotPool` are checked and proved.

**Abstractions.**  Models, firms, providers and codes are names; a message differs only in whether
the scrubber finds something; a ciphertext is the key that opens it; a text is the sequence of its
streamed pieces; a schema is a record of its keywords, a JSON value a tagged record, and of the enum misses and hits only whether there are any is kept.  In `Pipeline`
the effective policy of a request is *any* policy in *any* mode, which covers every staleness of
the engine's cache.  Definitions called "Mutant" are slips a programmer could have made; each
shows that a property can fail.

## 3. Runs

Passing:

- **load_shed** (5 callers, 2 providers, 2 slots, queue of 2): full provider, full queue, shed call,
  hand-off, aborts before and while queued.  `ShedSafe` (the inductive invariant), `NoOvertaking`,
  the refinement and, under fairness of `Release`, `WaiterIsServed`.
- **guards**, by part:
  - breaker (3 callers, window of 2 ticks, 3 samples): `BreakerSafe` (types, probe flag held by one
    caller at most, oldest first, nothing stale kept), `OpensAndRests` (opens on fresh evidence only and
    then rests), `OpenEndsInProbe`;
  - rate limits (rate 2/3 token per tick, burst of 5 thirds): `TokenBuckets`, that is lazily refilled
    and pruned buckets hold what ideal ones would, and a Retry-After is long enough for its bucket;
  - cache (4 keys, 3 entries, TTL 1): `EvictionIsEarned`;
  - sessions (3 ids, cap 2, 2 forms): `OldLoginsDie`;
  - event streams (frames in two halves, any read sizes up to 4): `ChunksInvisible`;
  - translation (every answer of `MCAnswers`: interleaved calls, an empty schema tool, empty frames, usage
    reported in four ways): `StreamEqualsResponse`;
  - SDK: `CallsEnd`;
  - policies (2 classes, 2 writers, 3 writes): `WidenedOnlyByOperator`, `ThirdPartyAcknowledged`,
    `EventuallyFresh`;
  - server (2 exchanges, 2 pending persists): `CleanExit`.
- **control_plane**: credentials (1 provider, 2 credentials, 2 handlers, rotation): `SerialVault` (one
  active credential unless handlers overlapped), `GraceEnds`, `BootsWithPreviousKey`; health (window of
  4): `RowFollowsMonitor`; catalog (2 overlapping passes in four worlds: discovered then curated, the same
  with a live feed that disagrees with the docs, curated then dropped, operator's own): `PricingSettles`, `SpecsAreOperators`, `VanishedIsFlagged`,
  `BindingsHold`.
- **executor** (2 requests, chain of primary, unloaded model, fallback, one retry): error ranking, audit
  of fallbacks, no call after an abort, termination.
- **shed_use** (3 requests, one a stream, 1 slot, queue of 1): every exit of both executors against the
  guard's specification; `NoSplice`.
- **requests**: pipeline (one request under every combination of default, allowed set, chain, deleted or
  banned model, sensitivity, capability need, requested model and scrubber mode, or two requests of two
  firms that share the cache): `OnlyEligibleCalled`, `NoProtectedEgress`, `LocalPrimarySeesOriginal`,
  `CacheIsolation`; ledger (2 requests, 2 firms with the same app, 1 fault, 2 months):
  `NeverOvercharged`, `ExactWithoutFaults`, `AnsweredIsBilled`, `HardStop`; verification (29 000 cases of value, schema
  and mode, with unions in both orders, also beside an enum): `VerdictSound` against the reference `Conforms`.

Violations; each shows that the code does not keep what the repository says of it:

- **probe_lost**: an admitted half-open probe may end without `record()` (shed, client leaves, timeout);
  the provider is then refused for good.  The runbook says the breaker recovers automatically.
- **abort_unheard**: `executeResilientStream` attaches its listener after two awaits; an abort in between
  is not passed on to the upstream call that starts then.
- **cloud_cached**: `servedKey` prefers the primary's key, so a cloud fallback's answer is cached for a
  class that did not opt in.
- **spend_split**: `recordSpend` is not atomic, and the retry of `write` cannot repair it.
- **rotation_outage**: the rotation script re-wraps rows while the running router has the old key only;
  the runbook says "router can stay up — old key still serves until step 3".
- **refusal_retried**: a content-filtered answer to a forced-JSON request fails as `response_not_json`
  and is retried; the comment in `verify.ts` says a refusal is terminal.

**Bounds.**  `MaxSamples`, `MaxRetries` (1 for the code's 2: the loop is the same for each attempt),
`MaxMonth`, `MaxFaults` (one fault reaches each single point of failure), `MaxPasswords`, `MaxWrites` (an import and a writer
beside it), `MaxPersists`, `MaxPending`, `MaxEvents` (operator's edits, failures and releases, by kind of world),
`MaxPiece` (a read of up to two frames).  Ages, idle times and TTLs are cut off where more makes no
difference.  `AloneAtF0` (requests): the request that ranges over all policy shapes runs alone, as
requests share only the response cache; `TwoBeyondPrimary` (shed_use): of three requests two at
a time are beyond the primary.  Symmetry is used in runs without liveness only.

**Deadlock** checking is off in `MCGuards`, `MCControl` and `MCRequests`: requests, streams, calls and
processes end there and nothing more is to happen.

**Fairness.**  `LoadShed`: a holder releases (the executors do in `finally`).  `Resilience`: what the event
loop runs by itself (routing, a granted slot, a retry delay, timers); an adapter call is only assumed to
return *after* its signal is aborted, as `fetch` guarantees; `BusySpec` adds that requests keep
arriving.  `MCGuards`: time passes for the breaker, an SDK timer that runs fires, cache entries expire;
nothing is assumed of a router, provider or
database that answers.  `MCControl`: the hourly and nightly timers go on, grace periods lapse, and a
pass under way takes its next step.

Where a state is left by one way only (a waiter leaves the queue, a grace period ends, a vanished model is flagged, a call
ends), "this always comes to an end" is stated as `[]<>` of its absence: the same claim as `~>`, and far cheaper to check.

## 4. Proofs

Every safety property of a passing run is a theorem about the specification, for every value of the
constants.

| Proof module | About | Theorems that state a property of a run |
|---|---|---|
| `LoadShedProofs` | `LoadShed`, and that it implements `SlotPool` | `ShedSafe` and its five parts, `NoOvertaking`, `ImplementsSlotPool` |
| `ArrayProofs` | `Filter` and `Splice` of `Arrays`, induction and recursion | none: the lemmas the others cite |
| `ResilienceProofs` | both executors over breaker and guard | `NoSplice`, `ImplementsLoadShed`, `PolicySkipNeverMasks`, `NoCallAfterAbort`, `FallbackAudited` |
| `PipelineProofs` | `Policy`, `Pipeline` | `OnlyEligibleCalled`, `NoProtectedEgress`, `LocalPrimarySeesOriginal`, `CacheIsolation` |
| `LedgerProofs` | `Ledger` | `HardStop`, `AnsweredIsBilled`, `NeverOvercharged`, `ExactWithoutFaults` |
| `ControlProofs` | `Vault`, `Health`, `Catalog` | `SerialVault`, `BootsWithPreviousKey`, `RowFollowsMonitor`, `BindingsHold`, `SpecsAreOperators` |
| `GuardsProofs` | `Breaker`, `BreakerCalls`, `RateLimiter`, `ResponseCache`, `Sessions`, `Server`, `PolicyAdmin` | `BreakerSafe`, `OpensAndRests`, `TokenBuckets`, `EvictionIsEarned`, `OldLoginsDie`, `ThirdPartyAcknowledged`, `WidenedOnlyByOperator`, `CleanExit` |
| `AnswerProofs` | `SseReader`, `StreamTranslate`, `SdkClient`, `Verify` | `ChunksInvisible`, `StreamEqualsResponse`, `VerdictSound`; and `SdkCallsAreBounded`, the safe part of `CallsEnd` |

A theorem is about the component's own `Init` and `[][Next]_vars` (named where the component has
no `Spec` of its own, such as `ServerSpec`), never about the union of an MC module.  Fairness plays no part in any of them.

### Assumptions

Each module that declares constants states one named assumption, which TLC evaluates in the
runs.  Most only give constants their types.  The others, and why the code justifies them:

- `LoadShedAssumption`, `HopsAssumption`: finitely many requests at a time; `MaxConcurrent` at
  least 1, as the environment schema requires.  A chain starts with a loaded model, because `selectModel` has rejected
  any other primary; the codes of `PolicySide` are raised by policy and routing only, not by adapters or verification.
- `BreakerAssumption`: at least one sample, a threshold of 1 to 100 percent.
- `PipelineAssumption`: a firm has some effective policy, of the type that `resolve` returns.  Nothing
  says that the policy is sensible: it may ban its own default.
- `LedgerAssumption`: finitely many charged requests, budgets for the four scopes the schema knows, token counts
  and prices that are naturals or unknown.
- `VaultAssumption`, `SessionsAssumption`: somebody to work for, and more session ids than the cap (an id is 24 random bytes).
- `RateLimiterAssumption`: a bucket idle for `MaxIdle` is full again, which makes pruning it harmless: `limiter.ts`
  prunes after 600 s, in which 10 times the requests per minute refill a burst of max(5, rpm / 4).
- `PolicyAdminAssumption`: pack and import files have passed their schemas; 0, the strictest sensitivity, is a level.
- `CatalogAssumption`: the worlds are well formed.
- `SseReaderAssumption`: a frame is one payload, of which the reader knows only whether it is `error` or `done`.
- `StreamTranslateAssumption`: answers are what the two protocols can say.  A part belongs to a block that has started (Anthropic) or
  to a call (OpenAI), a block starts once, calls carry their index unless each one's arguments follow it at once, as the translators themselves presuppose.
- `VerifyAssumption`: a schema is a finite tree, so it has a `Height` above its subschemas': it arrives as JSON and `verify.ts` follows no
  `$ref`.  `Values` and `Schemas` hold the parts of their members.

### Inductive invariants, and why they are needed

- **Guard** (`ShedSafe`): the conjunction of `TypeOK`, `SlotAccounting`, `WithinLimit`,
  `NoIdleSlotWhileQueued` and `QueueExact`.  None of the parts is inductive alone: that the limit holds
  across a hand-off needs the count to be right; that the count is right needs the head of the queue
  to be a waiting caller and not a holder; that no slot idles while somebody waits
  needs the limit for the newly queued and the count for the last release.  FIFO follows because
  `AcquireSlot` needs `inFlight < MaxConcurrent`, which means an empty queue.
- **Breaker** (`BreakerIInv`): outcomes stand oldest first (`WindowSound`, by way of `Aged`), without which
  `prune()`, which stops at the first fresh one, could leave expired ones behind it; the age kept since opening is the
  time that passed, without which the rest could be cut short; a caller is probing only in
  a half-open circuit, and only one.
- **Executors** (`ResilienceIInv`): `ExecSound` of each execution (it waits with a live listener or a fired signal, it backs off with a
  retry left, content has gone out from the hop it streams from only, an error past routing is not one of the policy,
  a later hop works after its audit) and `Guard!ShedSafe`: the guard's own invariant under
  the refinement mapping `SlotState`, which reads off an execution whether it is idle, queued or holding.  Its preservation is not proved twice:
  each step of an executor maps to a step of `LoadShed` or to none, and `LoadShedProofs`, instantiated
  through the mapping, does the rest.
- **Pipeline** (`PipelineIInv`): `Flow` says what each stage may rely on of the stages before it, `SentSound` what
  has been sent to whom, `CacheSound` that a cached answer of a firm came from a request of that firm with that text.  The
  properties speak of `sent` only, so they are not inductive: what a hop sends follows from what the
  scrubber stage left in the context several stages earlier.
- **Ledger** (`LedgerIInv`): `Fits` relates a request's place in the code to its row, and `Accounts`
  says that each counter is the sum, over the requests, of what each has paid into it.  A property of counters
  and rows alone is lost between the statements of `write`.  `HardStop` rests on counters that only grow within a month.
- **Vault** (`VaultIInv`): `LabelsFit` (the row's `key_version` is the key that opens it), `PromotionsFit`; and, as long as requests have taken
  turns (`clean`), that what a handler read still holds (`ReadsHold`), one active key at a time, and nothing active of a
  deleted provider.  The last two are the property; neither survives a step without the first.
- **Health** (`HealthIInv`): the last transition that waits is the present status.
- **Catalog** (`CatalogIInv`): a snapshot that shows a row of a feed is of the source the row still has, as only the
  operator's rows leave (`SnapFits`); what the operator has not switched on is off also in the copy that a probe works on
  (`CeilingHolds`); what a policy binds, or is about to bind, is in the catalog unless `raced`.
- **Limiter** (`LimiterIInv`): a lazy bucket, refilled now, has the level of one refilled all the
  time; the wait that was advised still suffices.
- **Response cache** (`CacheIInv`): `Ordered`: a key has seen every key that stands behind it in the `Map`.  So
  the first key, the one evicted, has seen them all.
- **Sessions** (`SessionsIInv`): each stored session is of the present password or `Excused` by what the property names, and a
  login under way with an old password is marked as such (`Overtaken`), so that the session it is about to create will be excused.
- **Server** (`ServerIInv`): `HandlersFit`, `CutsFit`, `ShutdownFits`: what each phase of the shutdown has already waited for.
- **Reader** (`SseReaderIInv`): what is in the buffer and on the wire is what follows the frames that were handed out, symbol by symbol.  So a blank line
  found in the buffer ends the next frame, and not a later one, however the bytes were cut.
- **Translation** (`TranslateIInv`): `Translated` says what the items handled so far have come to: the calls that were opened have
  the ids of the blocks that started, in order, and each call, and the text, has the parts that were sent for it.  A call's index is
  the rank of its block among the calls, which no later item changes; that is what keeps interleaved arguments apart.  `OnceIInv` adds that there is one finish,
  at the end, with the reason so far; answers with the usage on every frame have `EachIInv` instead: some finish, once a usage was seen.
- **SDK** (`SdkIInv`): no outcome before the end, no clock outside of the call.
- **Verification** (`Agree`): the two modes and the two readings of the reference agree on every schema and every value.  None of this
  holds alone: a union asks for the strict mode of its branches before their structural mode, and what structural mode may overlook is
  measured by what strict mode would have said.  The induction is on the height of the schema.
- **Policies** (`PolicyIInv`): the models that were flagged when a row was made are acknowledged in it, and so they
  are in each row that a writer has read, merged and not yet written (`JobFits`); later flags change neither.

### Refinement

`Resilience => LoadShed` (`ExecutorsUseTheGuard`) and `LoadShed => SlotPool` (`Refinement`) are proved step by step: initial
states map to initial states, and each action to one of the abstract specification or to a stutter.  Through the mapping the executors inherit what was proved
of the guard: `GuardHoldsInUse`, `WaitersKeepTheirTurn` and, as the two refinements composed, `SlotsArePooled`.

### Induction

The provers cannot instantiate a theorem whose parameter is an operator, so the few inductions over lengths
and sets are made with a *set* that stands for the predicate: `LeastNatural` and `SetInduction` in `ArrayProofs`.
`Filter` and `Splice` are defined without recursion for the same reason; their lemmas say that `filter()` keeps
exactly the elements that pass, in their order.  The sums of `Ledger` are the library's `SumFunctionOnSet`, whose definition
chooses a recursive function; `LedgerProofs` first proves that this function exists, then what adding or changing one
summand does.  `Validate` and `Conforms` are recursive functions over nested schemas.  That their equations have a solution, and that
the chosen one is of the right type, follows from `RecursionByHeight`, which takes the recursion as a *function* on functions, and
`HeightInduction`.  The streams need no induction: what has been handed out, or said, is described by places and ranks (`Nth`, `Data`).

### Only model-checked

- Liveness, which TLAPS does not do under fairness: `WaiterIsServed`, `OpenEndsInProbe`, `CallsEnd`, `EventuallyFresh`,
  `GraceEnds`, `PricingSettles`, `VanishedIsFlagged`, `RequestsFinish`.

## 5. Disagreements met while modelling, without a run

Where a property is about one of these, its statement names the case (an exception in the formula, or
a history variable).  The ones in square brackets the models do not express.

- Policies: a refused import has written the classes and policies before the refused one (`save.ts:317` says it
  gates "before writing anything") and does not invalidate the engine; an import can relax a sensitivity that
  a PATCH tightened between its read and its write; `applyDefaultPack` gates by the pack's sensitivity, not the row's;
  a model that discovery flags when a policy binds it already stays bound without an acknowledgement, as the
  report at boot and after discovery says (`ThirdPartyAcknowledged` is about the flags that were set when the policy was made);
  [in a split deployment the console's `invalidate()` does not reach the gateway, only the TTL does].
- Vault: promote racing auto-revoke revives a revoked credential; add racing the deletion of its provider leaves an
  active key; a crash between promote's two updates leaves none active; the rotation's updates are not in the
  transaction it opens.  `BootsWithPreviousKey` is about a router that has both keys; what one with the old key only
  cannot read is the run **rotation_outage**.
- Catalog: a sync's stale snapshot overwrites a custom model or a context window edited meanwhile; a probe
  overwrites concurrent override edits; a retirement racing a policy save leaves a dangling fallback; with both a
  DigitalOcean and an Anthropic provider linked, a discovered DigitalOcean model that the vendored feed does not carry is priced by
  the docs and by the live feed, and if these differ each night appends both prices (`Disputed`); the docs
  scrape, said to run only when an operator triggers it (`do-docs.ts:20`), runs nightly.
- Sessions: a login in flight during a password change, and a password re-applied at install, leave old sessions alive.
- Resilience: [a stream that fails after content is recorded twice in provider health]; `preferError`
  lets `scrubber_blocked` of a barred cloud hop replace the failure of the local one.
- Streams: what Anthropic leaves without an input is `""` streamed and `"{}"` unstreamed, as the arguments of a call and as the
  text of the schema tool (`NoInput`); a provider that reports its usage so far on every frame gets a phantom finish for each empty
  one, also in mid-stream, and a second one, saying `stop`, for the trailing one (`Cumulative`; Q-078 says this no longer happens, its test has
  the usage beside text); [an OpenAI stream without finish reason ends in `stop`, its unstreamed twin in `tool_calls`]; a stream cut off
  before `[DONE]` still ends in `stop`, and the SDK reports no error for it.
- SDK: `stream()` and the bridged `withTimeout` ignore a signal that has fired before the call.
- Verification: `anyOf`/`oneOf` hide the keywords beside them; a wrong-typed property before the discriminator
  defeats the authority of the named branch; truncated tool arguments are reported as not JSON, and retried.
- Limits: both buckets are charged although one rejects, so a Retry-After may be too short for the other; the cache does not
  move a key that is set again.
- Shutdown: `app.close()` does not wait for the handler of a client that hung up, so its ledger row can be
  cut; a breaker-transition audit can be, too.

## 6. Plan

Done: the models of guard, breaker, executors, egress, ledger; of limiter, cache, sessions, streams, SDK, policies,
vault, health, catalog, verification, server; and the proofs of section 4.  Left: how many transitions the health chain
may lag behind; and that `Pipeline`'s policies cover what `PolicyAdmin`'s cache can hold, as a lemma about `EffectivePolicy`.

**Not modelled.**  Regular expressions of the scrubber, parsing of feeds and documentation pages, request building,
ciphers, environment parsing, metrics, WISP templates, aggregation and billing queries, export, audit retention and the
console's pages: parsing, formatting or pure I/O, with no state of their own that others rely on.  `applyLimits` and `clampToModel`
change numbers of an envelope.  The installer (`bootstrap-firm.ts`) runs once and alone; only the password it
re-applies is part of `Sessions`.

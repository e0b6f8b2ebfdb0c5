------------------------------- MODULE Ledger -------------------------------
(***************************************************************************)
(* Budget check, ledger row and spend counters of requests that survive    *)
(* auth: checkBudgets (src/ledger/budget.ts), DbLedger.write               *)
(* (src/ledger/writer.ts) and their call sites in runPipeline and in the   *)
(* SSE relay.  Every database statement is a step; it may fail before it   *)
(* has taken effect or after it (the answer is lost), the process may      *)
(* crash, and a calendar month may end between any two steps.              *)
(***************************************************************************)
EXTENDS Arrays, Functions

CONSTANTS
    Charges,       \* the requests that are charged
    Profiles,      \* [firm, app, user] of callers
    NoUser,        \* a request without X-Vibe-User
    Limit,         \* limited scope kind -> cents per month
    Bills,         \* what a request may use, with the prices of its model
    None,          \* a price or a cost that is not known
    MaxMonth,      \* bound: months to explore
    MaxFaults      \* bound: failed statements and crashes

ASSUME LedgerAssumption ==
    /\ MaxMonth \in Nat \ {0} /\ MaxFaults \in Nat
    /\ IsFiniteSet(Charges) /\ Profiles # {}
    /\ DOMAIN Limit \subseteq {"firm", "app", "user", "task_class"}
    /\ \A k \in DOMAIN Limit : Limit[k] \in Nat
    /\ None \notin Nat
    /\ \A b \in Bills :
        /\ b.usage \in [{"prompt", "completion", "cachedRead", "cacheWrite"} -> Nat]
        /\ b.prices # None =>
            {b.prices.input, b.prices.output, b.prices.cacheRead, b.prices.cacheWrite}
                \subseteq Nat \cup {None}

VARIABLES
    rows,     \* usage_ledger: request id -> row
    spent,    \* budgets_state: <<scope key, period>> -> cents
    month,    \* the wall clock's period
    faults,   \* statements that failed and crashes so far
    req       \* request -> its progress

ledgerVars == <<rows, spent, month, faults, req>>

NoProfile == CHOOSE p \in Profiles : TRUE

-----------------------------------------------------------------------------
Parts == {"prompt", "completion", "cachedRead", "cacheWrite"}

\* Nothing was used: EMPTY_USAGE, of cache hits and of failures.
EmptyBill == [usage |-> [p \in Parts |-> 0], prices |-> None]

\* The rate of a part: cached tokens fall back to the input rate.
RateOf(prices, p) ==
    CASE p = "prompt" -> prices.input
      [] p = "completion" -> prices.output
      [] p = "cachedRead" -> IF prices.cacheRead # None THEN prices.cacheRead ELSE prices.input
      [] p = "cacheWrite" -> IF prices.cacheWrite # None THEN prices.cacheWrite ELSE prices.input

\* computeCost(), in cents; None stands for cost_unknown.
ComputeCost(bill) ==
    LET used == {p \in Parts : bill.usage[p] > 0}
        cents == [p \in used |-> bill.usage[p] * RateOf(bill.prices, p)]
    IN  CASE used = {} -> 0
          [] used # {} /\ bill.prices = None -> None
          [] used # {} /\ bill.prices # None ->
                IF \E p \in used : RateOf(bill.prices, p) = None THEN None
                ELSE SumFunctionOnSet(cents, used)

Idle ==
    [stage |-> "idle", who |-> NoProfile, stream |-> FALSE, todo |-> <<>>,
     period |-> 1, bill |-> EmptyBill, err |-> "none", last |-> FALSE,
     late |-> FALSE,       \* history: a limit was exhausted when it began
     called |-> FALSE,     \* history: it was let through to a provider
     charged |-> {}]       \* history: the scope kinds it was charged to

LedgerInit ==
    /\ rows = <<>>
    /\ spent = <<>>
    /\ month = 1
    /\ faults = 0
    /\ req = [r \in Charges |-> Idle]

-----------------------------------------------------------------------------
\* scopeKey(): the app's and the user's refs are prefixed with the firm.
ScopeKey(kind, who) ==
    CASE kind = "firm" -> <<"firm", who.firm>>
      [] kind = "app"  -> <<"app", who.firm, who.app>>
      [] kind = "user" -> <<"user", who.firm, who.user>>

\* The scopes that recordSpend() increments, in its order.
SpendScopes(who) ==
    IF who.user = NoUser THEN <<"firm", "app">> ELSE <<"firm", "app", "user">>

\* The limits that checkBudgets() evaluates, in its order.
Checks(who) == Filter(Append(SpendScopes(who), "task_class"), DOMAIN Limit)

\* SUM() skips rows whose cost is not known.
Costs == [r \in DOMAIN rows |-> IF rows[r].cost = None THEN 0 ELSE rows[r].cost]

\* spentFor(), and the SUM over the firm's ledger rows since the month began.
SpentFor(kind, who, period) ==
    IF kind = "task_class"
    THEN SumFunctionOnSet(Costs, {r \in DOMAIN rows : rows[r].who.firm = who.firm
                                                      /\ rows[r].month >= period})
    ELSE LET k == <<ScopeKey(kind, who), period>>
         IN  IF k \in DOMAIN spent THEN spent[k] ELSE 0

\* Mutant: spentCents > limitCents.
Exceeded(kind, who, period) == SpentFor(kind, who, period) > Limit[kind]

Exhausted(kind, who, period) == SpentFor(kind, who, period) >= Limit[kind]

\* History only: some budget that governs who is used up.
BudgetGone(who, period) ==
    \E kind \in DOMAIN Limit :
        /\ kind = "user" => who.user # NoUser
        /\ SpentFor(kind, who, period) >= Limit[kind]

Charge(r, stage) == req[r].stage = stage

DbUnchanged == UNCHANGED <<rows, spent>>

\* checkBudgets() begins; its period is the current month, taken once.
BudgetBegins(r) ==
    /\ Charge(r, "idle")
    /\ \E who \in Profiles, stream \in BOOLEAN :
        req' = [req EXCEPT ![r] =
            [Idle EXCEPT !.stage = "check", !.who = who, !.stream = stream,
                         !.todo = Checks(who), !.period = month,
                         !.late = BudgetGone(who, month)]]
    /\ DbUnchanged /\ UNCHANGED <<month, faults>>

\* The runner's catch block: the error is noted, one write attempt remains.
Caught(c, code) == [c EXCEPT !.stage = "write", !.err = code, !.last = TRUE]

\* evaluate() of the next scope.
BudgetChecked(r) ==
    LET c == req[r] IN
    /\ Charge(r, "check") /\ c.todo # <<>>
    /\ req' = [req EXCEPT ![r] =
                IF Exhausted(Head(c.todo), c.who, c.period)
                THEN Caught(c, "budget_exceeded")
                ELSE [c EXCEPT !.todo = Tail(@)]]
    /\ DbUnchanged /\ UNCHANGED <<month, faults>>

\* The request runs: the provider answers, fails without any usage, or, for a
\* stream under way, ends in an error or an abort after tokens were used.  The
\* relay writes a stream's row once and never again; runPipeline retries the
\* write of a complete answer through its catch block.
Execute(r) ==
    LET c == [req[r] EXCEPT !.called = TRUE] IN
    /\ Charge(r, "check") /\ c.todo = <<>>
    /\ \/ \E bill \in Bills :
            req' = [req EXCEPT ![r] = [c EXCEPT !.stage = "write", !.bill = bill,
                                                !.last = c.stream]]
       \/ req' = [req EXCEPT ![r] = Caught(c, "provider_error")]
       \/ /\ c.stream
          /\ \E bill \in Bills, code \in {"provider_error", "client_abort"} :
                req' = [req EXCEPT ![r] = [Caught(c, code) EXCEPT !.bill = bill]]
    /\ DbUnchanged /\ UNCHANGED <<month, faults>>

-----------------------------------------------------------------------------
\* DbLedger.write() returns to its caller.
Written(c) == [c EXCEPT !.stage = "done", !.todo = <<>>]

\* Mutant: a failing write is logged and the answer goes out.
WriteErrorLogged(c) == Written(c)

\* DbLedger.write() rejects: a first attempt goes to the runner's catch block,
\* a last one is logged and the request ends.
WriteRejected(c) ==
    IF c.last THEN Written(c) ELSE [Caught(c, "unknown") EXCEPT !.todo = <<>>]

\* statusFor()
StatusFor(err) ==
    CASE err = "none" -> "ok"
      [] err = "unknown" -> "error"
      [] OTHER -> err

\* insert ... on conflict do nothing
InsertedRows(r) ==
    IF r \in DOMAIN rows THEN rows
    ELSE [q \in DOMAIN rows \cup {r} |->
            IF q # r THEN rows[q]
            ELSE [who |-> req[r].who, cost |-> ComputeCost(req[r].bill), month |-> month,
                  status |-> StatusFor(req[r].err)]]

\* Mutant: spend is recorded although the row was there already.
AfterAnyInsert(c, inserted) ==
    IF ComputeCost(c.bill) \notin {None, 0}
    THEN [c EXCEPT !.stage = "spend", !.todo = SpendScopes(c.who)]
    ELSE Written(c)

\* The insert returns its row: spend is recorded for a first write that costs.
AfterInsert(c, inserted) ==
    IF inserted /\ ComputeCost(c.bill) \notin {None, 0}
    THEN [c EXCEPT !.stage = "spend", !.todo = SpendScopes(c.who)]
    ELSE Written(c)

InsertRow(r) ==
    /\ Charge(r, "write")
    /\ rows' = InsertedRows(r)
    /\ req' = [req EXCEPT ![r] = AfterInsert(req[r], r \notin DOMAIN rows)]
    /\ UNCHANGED <<spent, month, faults>>

\* recordSpend(): the period is taken before the first upsert.
SpendPeriod(c) == IF c.todo = SpendScopes(c.who) THEN month ELSE c.period

\* Mutant: on conflict, the amount replaces the counter.
OverwrittenSpend(c) ==
    LET k == <<ScopeKey(Head(c.todo), c.who), SpendPeriod(c)>>
    IN  [x \in DOMAIN spent \cup {k} |-> IF x = k THEN ComputeCost(c.bill) ELSE spent[x]]

UpsertedSpend(c) ==
    LET k == <<ScopeKey(Head(c.todo), c.who), SpendPeriod(c)>>
    IN  [x \in DOMAIN spent \cup {k} |->
            (IF x \in DOMAIN spent THEN spent[x] ELSE 0) + (IF x = k THEN ComputeCost(c.bill) ELSE 0)]

Charged(c) == [c EXCEPT !.charged = @ \cup {Head(c.todo)}, !.period = SpendPeriod(c)]

RecordSpend(r) ==
    LET c == Charged(req[r]) IN
    /\ Charge(r, "spend")
    /\ spent' = UpsertedSpend(req[r])
    /\ req' = [req EXCEPT ![r] = IF Len(c.todo) = 1 THEN Written(c)
                                 ELSE [c EXCEPT !.todo = Tail(@)]]
    /\ UNCHANGED <<rows, month, faults>>

-----------------------------------------------------------------------------
Fault == faults < MaxFaults /\ faults' = faults + 1

\* A statement fails before it takes effect ...
StatementFails(r) ==
    /\ Fault
    /\ \/ /\ Charge(r, "check") /\ req[r].todo # <<>>
          /\ req' = [req EXCEPT ![r] = Caught(@, "unknown")]
       \/ /\ req[r].stage \in {"write", "spend"}
          /\ req' = [req EXCEPT ![r] = WriteRejected(@)]
    /\ DbUnchanged /\ UNCHANGED month

\* ... or its effect is committed and only the answer is lost.
AnswerLost(r) ==
    /\ Fault
    /\ \/ Charge(r, "write") /\ rows' = InsertedRows(r) /\ UNCHANGED spent
            /\ req' = [req EXCEPT ![r] = WriteRejected(@)]
       \/ Charge(r, "spend") /\ spent' = UpsertedSpend(req[r]) /\ UNCHANGED rows
            /\ req' = [req EXCEPT ![r] = WriteRejected(Charged(@))]
    /\ UNCHANGED month

\* The process dies: every request in flight is lost, the tables stay.
Crash ==
    /\ Fault
    /\ req' = [r \in Charges |->
                IF req[r].stage \in {"idle", "done"} THEN req[r]
                ELSE [req[r] EXCEPT !.stage = "lost", !.todo = <<>>]]
    /\ DbUnchanged /\ UNCHANGED month

Rollover ==
    /\ month < MaxMonth
    /\ month' = month + 1
    /\ DbUnchanged /\ UNCHANGED <<faults, req>>

LedgerNext ==
    \/ \E r \in Charges :
        \/ BudgetBegins(r) \/ BudgetChecked(r) \/ Execute(r)
        \/ InsertRow(r) \/ RecordSpend(r)
        \/ StatementFails(r) \/ AnswerLost(r)
    \/ Crash
    \/ Rollover

LedgerSpec == LedgerInit /\ [][LedgerNext]_ledgerVars

-----------------------------------------------------------------------------
Kinds == {"firm", "app", "user", "task_class"}

LedgerTypeOK ==
    /\ DOMAIN rows \subseteq Charges
    /\ \A r \in DOMAIN rows :
        rows[r] \in [who : Profiles, cost : {ComputeCost(b) : b \in Bills \cup {EmptyBill}}, month : 1 .. MaxMonth,
                     status : {"ok", "error", "provider_error", "client_abort",
                               "budget_exceeded"}]
    /\ \A k \in DOMAIN spent : spent[k] \in Nat
    /\ month \in 1 .. MaxMonth
    /\ faults \in 0 .. MaxFaults
    /\ req \in [Charges ->
                [stage : {"idle", "check", "write", "spend", "done", "lost"},
                 who : Profiles, stream : BOOLEAN, todo : Seq(Kinds),
                 period : 1 .. MaxMonth, bill : Bills \cup {EmptyBill},
                 err : {"none", "unknown", "provider_error", "client_abort",
                        "budget_exceeded"},
                 last : BOOLEAN, late : BOOLEAN, called : BOOLEAN,
                 charged : SUBSET Kinds]]

\* What the ledger says a scope has cost, over all months.
Ledgered(kind, who) ==
    LET InScope(r) ==
            CASE kind = "firm" -> rows[r].who.firm = who.firm
              [] kind = "app"  -> rows[r].who.firm = who.firm /\ rows[r].who.app = who.app
              [] kind = "user" -> rows[r].who.firm = who.firm /\ rows[r].who.user = who.user
    IN  SumFunctionOnSet(Costs, {r \in DOMAIN rows : InScope(r)})

Counted(kind, who) ==
    SumFunctionOnSet([m \in 1 .. MaxMonth |-> SpentFor(kind, who, m)], 1 .. MaxMonth)

SpendKinds(who) == {SpendScopes(who)[i] : i \in 1 .. Len(SpendScopes(who))}

\* A budget counter never exceeds what the ledger rows of its own firm, app or
\* user cost: no retry, lost answer or crash charges a request twice, and no
\* other firm's spend lands on it ("budget increment only on the FIRST write
\* for this request id", DbLedger.write; Q-073, scopeKey).
NeverOvercharged ==
    /\ LedgerTypeOK
    /\ DOMAIN spent # {} =>
        \A who \in Profiles : \A kind \in SpendKinds(who) :
            Counted(kind, who) <= Ledgered(kind, who)

\* Without a fault, the counters of a firm whose requests have all ended are
\* the exact sums of its ledger rows (write, recordSpend).
ExactWithoutFaults ==
    (DOMAIN rows # {} /\ faults = 0 /\ \A r \in Charges : req[r].stage \in {"idle", "done"}) =>
        \A who \in Profiles : \A kind \in SpendKinds(who) :
            Counted(kind, who) = Ledgered(kind, who)

\* Some tokens of the bill have no price, not even the input rate that cached
\* tokens fall back to.
Unpriced(bill) ==
    \/ bill.prices = None /\ bill.usage # EmptyBill.usage
    \/ bill.prices # None /\ bill.usage["completion"] > 0 /\ bill.prices.output = None
    \/ bill.prices # None /\ bill.prices.input = None
        /\ \/ bill.usage["prompt"] > 0
           \/ bill.usage["cachedRead"] > 0 /\ bill.prices.cacheRead = None
           \/ bill.usage["cacheWrite"] > 0 /\ bill.prices.cacheWrite = None

\* A caller that gets its complete answer has been ledgered as ok, and charged
\* to every scope unless it used nothing or the row says that its cost is not
\* known, whatever failed on the way: a failing write turns the answer into
\* an error instead (runPipeline), and a missing price is "NEVER silently
\* zero" (computeCost).
AnsweredIsBilled ==
    \A r \in Charges :
        /\ req[r].stage = "done" /\ ~ req[r].stream /\ req[r].err = "none"
        => /\ r \in DOMAIN rows
           /\ rows[r].status = "ok"
           /\ \/ rows[r].cost # None /\ rows[r].cost > 0 /\ ~ Unpriced(req[r].bill)
                    /\ req[r].charged = SpendKinds(req[r].who)
              \/ rows[r].cost = None /\ Unpriced(req[r].bill)
              \/ rows[r].cost = 0 /\ ~ Unpriced(req[r].bill)

\* The hard stop: a request that begins its check when one of its budgets is
\* exhausted never reaches a provider, although the scopes are read one by
\* one while other requests spend ("ANY hard-stopped scope rejects").
HardStop == \A r \in Charges : req[r].late => ~ req[r].called

-----------------------------------------------------------------------------
\* budget.ts: "Atomic post-request spend increment across firm/app/user
\* scopes (9.4)": a request that has ended is charged to all of its scopes or
\* to none.
SpendIsAtomic ==
    \A r \in Charges :
        req[r].stage = "done" => req[r].charged \in {{}, SpendKinds(req[r].who)}

=============================================================================

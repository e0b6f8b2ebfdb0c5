\* Pipeline: one request under every shape of policy and every scrubber mode,
\* or two requests of two firms that share the response cache.
\* Ledger: two requests, a month's end, one failed statement or crash.
CONSTANTS
    Requests = {r1, r2}
    Firms = {"f0", "f1", "f2"}
    Models = {"l1", "l2", "c1"}
    Local = {"l1", "l2"}
    NoModel = NoModel
    Policies <- FirmPolicies
    Wanted = {NoModel, "c1", "l2"}
    Charges = {q1, q2}
    Profiles <- CallerSet
    NoUser = NoUser
    Limit <- LimitCents
    Bills <- MCBills
    None = None
    MaxMonth = 2
    MaxFaults = 1
    Cases <- MCCases
    Values <- MCValues
    Schemas <- MCSchemas
    Height <- MCHeight
SYMMETRY Symmetric
ACTION_CONSTRAINT AloneAtF0
SPECIFICATION Spec
INVARIANTS
    OnlyEligibleCalled
    NoProtectedEgress
    LocalPrimarySeesOriginal
    CacheIsolation
    NeverOvercharged
    ExactWithoutFaults
    AnsweredIsBilled
    HardStop
    VerdictSound
CHECK_DEADLOCK FALSE

\* A local answer fails, the cloud fallback answers and is cached.
CONSTANTS
    Requests = {r1, r2}
    Firms = {"f1", "f2"}
    Models = {"l1", "l2", "c1"}
    Local = {"l1", "l2"}
    NoModel = NoModel
    Policies <- FirmPolicies
    Wanted = {NoModel}
    Charges = {}
    Profiles <- CallerSet
    NoUser = NoUser
    Limit <- LimitCents
    Bills <- MCBills
    None = None
    MaxMonth = 2
    MaxFaults = 1
    Cases = {}
    Values <- MCValues
    Schemas <- MCSchemas
    Height <- MCHeight
SPECIFICATION Spec
INVARIANT CloudStaysUncached
CHECK_DEADLOCK FALSE

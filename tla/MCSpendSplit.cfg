\* One request whose second counter update fails.
CONSTANTS
    Requests = {}
    Firms = {"f1", "f2"}
    Models = {"l1", "l2", "c1"}
    Local = {"l1", "l2"}
    NoModel = NoModel
    Policies <- FirmPolicies
    Wanted = {NoModel}
    Charges = {q1}
    Profiles <- CallerSet
    NoUser = NoUser
    Limit <- LimitCents
    Bills <- MCBills
    None = None
    MaxMonth = 2
    MaxFaults = 1
    Cases = {}
    Values <- MCValues
    Schemas <- MCSchemas
    Height <- MCHeight
SPECIFICATION Spec
INVARIANT SpendIsAtomic
CHECK_DEADLOCK FALSE

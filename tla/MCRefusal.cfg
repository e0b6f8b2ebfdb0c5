\* A provider refuses a request for JSON.
CONSTANTS
    Requests = {}
    Firms = {"f1", "f2"}
    Models = {"l1", "l2", "c1"}
    Local = {"l1", "l2"}
    NoModel = NoModel
    Policies <- FirmPolicies
    Wanted = {NoModel}
    Charges = {}
    Profiles <- CallerSet
    NoUser = NoUser
    Limit <- LimitCents
    Bills <- MCBills
    None = None
    MaxMonth = 2
    MaxFaults = 1
    Cases <- MCCases
    Values <- MCValues
    Schemas <- MCSchemas
    Height <- MCHeight
SPECIFICATION Spec
INVARIANT RefusalIsFinal
CHECK_DEADLOCK FALSE

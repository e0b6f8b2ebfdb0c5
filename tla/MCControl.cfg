\* Vault: two handlers at a provider with two credentials.  Health: a window in
\* which each status can be reached.  Catalog: two passes that overlap.
CONSTANTS
    ProviderIds = {"p1"}
    CredIds = {"a", "b"}
    Handlers = {"h1", "h2"}
    NoCred = NoCred
    WindowSize = 4
    MinOutcomes = 2
    DownPct = 50
    DegradedPct = 20
    MaxPending = 3
    Worlds <- MCWorlds
    Caps = {"json", "vision"}
    Passes = {"p1", "p2"}
    MaxEvents <- MCMaxEvents
SPECIFICATION Spec
INVARIANTS
    SerialVault
    BootsWithPreviousKey
    RowFollowsMonitor
    BindingsHold
PROPERTIES
    GraceEnds
    PricingSettles
    SpecsAreOperators
    VanishedIsFlagged
CHECK_DEADLOCK FALSE

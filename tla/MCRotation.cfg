\* The rotation script at work beside a router that has not been restarted.
CONSTANTS
    ProviderIds = {"p1"}
    CredIds = {"a", "b"}
    Handlers = {"h1", "h2"}
    NoCred = NoCred
    WindowSize = 4
    MinOutcomes = 2
    DownPct = 50
    DegradedPct = 20
    MaxPending = 3
    Worlds <- MCWorlds
    Caps = {"json", "vision"}
    Passes = {"p1", "p2"}
    MaxEvents <- MCMaxEvents
SPECIFICATION Spec
INVARIANT OldKeyStillServes
CHECK_DEADLOCK FALSE

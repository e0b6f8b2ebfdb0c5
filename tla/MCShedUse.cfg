\* Three requests, one of them a stream, compete for one slot and one place
\* in the queue; two of them go on to the fallback.
CONSTANTS
    Requests = {r1, r2, r3}
    Streaming = {r3}
    Providers = {"p1"}
    Chain <- MCChain
    Loaded <- MCLoaded
    ProviderOf <- OneProvider
    RouteErrors = {"policy_blocked"}
    CallErrors = {"provider_unavailable"}
    MaxConcurrent = 1
    QueueCap = 1
    MaxRetries = 1
    WindowMs = 0
    MinSamples = 1
    OpenThreshold = 50
    OpenDurationMs = 1
    MaxSamples = 1
SYMMETRY SameKind
CONSTRAINT TwoBeyondPrimary
SPECIFICATION Spec
INVARIANTS
    NoSplice
PROPERTIES
    ImplementsLoadShed

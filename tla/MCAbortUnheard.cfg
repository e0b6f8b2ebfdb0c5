\* A client that leaves while a stream is being routed.
CONSTANTS
    Requests = {r1, r2}
    Streaming = {r1, r2}
    Providers = {"p1"}
    Chain <- MCChain
    Loaded <- MCLoaded
    ProviderOf <- OneProvider
    RouteErrors = {"policy_blocked"}
    CallErrors = {"provider_unavailable"}
    MaxConcurrent = 1
    QueueCap = 1
    MaxRetries = 1
    WindowMs = 0
    MinSamples = 2
    OpenThreshold = 50
    OpenDurationMs = 1
    MaxSamples = 2
SYMMETRY SameKind
SPECIFICATION Spec
INVARIANT AbortReachesUpstream

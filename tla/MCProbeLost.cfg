\* A half-open probe whose client leaves.
CONSTANTS
    Requests = {r1, r2}
    Streaming = {}
    Providers = {"p1"}
    Chain <- MCChain
    Loaded <- MCLoaded
    ProviderOf <- OneProvider
    RouteErrors = {}
    CallErrors = {"provider_unavailable"}
    MaxConcurrent = 1
    QueueCap = 1
    MaxRetries = 0
    WindowMs = 0
    MinSamples = 1
    OpenThreshold = 50
    OpenDurationMs = 1
    MaxSamples = 1
SPECIFICATION BusySpec
PROPERTY HalfOpenResolves

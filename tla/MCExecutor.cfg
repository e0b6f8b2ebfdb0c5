\* Two non-streaming requests over primary and fallback, with a retry each and
\* a breaker that opens on one sample.  Liveness: no symmetry.
CONSTANTS
    Requests = {r1, r2}
    Streaming = {}
    Providers = {"p1"}
    Chain <- MCChain
    Loaded <- MCLoaded
    ProviderOf <- OneProvider
    RouteErrors = {"policy_blocked"}
    CallErrors = {"provider_unavailable", "json_truncated"}
    MaxConcurrent = 1
    QueueCap = 1
    MaxRetries = 1
    WindowMs = 0
    MinSamples = 1
    OpenThreshold = 50
    OpenDurationMs = 1
    MaxSamples = 1
SPECIFICATION FairSpec
PROPERTIES
    PolicySkipNeverMasks
    FallbackAudited
    NoCallAfterAbort
    RequestsFinish

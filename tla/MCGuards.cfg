\* Breaker: three callers, a window of two ticks that needs three samples.
\* Limiter: a bucket refilled at a rate that does not divide a request's cost.
\* Cache: one key more than fits.  Sessions: one more than the cap, two forms.
\* Policies: two classes, a local and a third-party model, three writes: one
\* import, or an import's reads and writes around somebody else's.
CONSTANTS
    Callers = {c1, c2, c3}
    WindowMs = 2
    MinSamples = 3
    OpenThreshold = 50
    OpenDurationMs = 2
    MaxSamples = 4
    Tokens = {"t"}
    LimitedUsers = {"u"}
    Rate = 2
    Unit = 3
    Burst = 5
    MaxIdle = 3
    CacheKeys = {"a", "b", "c", "d"}
    MaxEntries = 3
    CacheTtl = 1
    Users = {"ann"}
    SessionIds = {1, 2, 3}
    Forms = {"f", "g"}
    MaxSessions = 2
    TtlTicks = 1
    MaxPasswords = 2
    Frames <- MCFrames
    MaxPiece = 4
    Answers <- MCAnswers
    Classes = {"k1", "k2"}
    Bindable = {"loc", "third"}
    LocalTier = {"loc"}
    ThirdParty = {"third"}
    Capable = {"third"}
    Levels = {0, 2}
    Needs = {TRUE}
    Files <- MCFiles
    Pack <- MCPack
    Writers = {"w1", "w2"}
    MaxWrites = 3
    Exchanges = {x1, x2}
    MaxPersists = 2
SPECIFICATION Spec
INVARIANTS
    BreakerSafe
    TokenBuckets
    OldLoginsDie
    ChunksInvisible
    StreamEqualsResponse
    ThirdPartyAcknowledged
    CleanExit
PROPERTIES
    OpensAndRests
    OpenEndsInProbe
    EvictionIsEarned
    CallsEnd
    WidenedOnlyByOperator
    EventuallyFresh
CHECK_DEADLOCK FALSE

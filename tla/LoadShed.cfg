\* Five callers over two providers: a full provider, a full queue, a shed
\* call.  Liveness needs plain model values: no symmetry.
CONSTANTS
    Requests = {r1, r2, r3, r4, r5}
    Providers = {p1, p2}
    MaxConcurrent = 2
    QueueCap = 2
SPECIFICATION FairSpec
INVARIANT ShedSafe
PROPERTIES
    NoOvertaking
    ImplementsSlotPool
    WaiterIsServed

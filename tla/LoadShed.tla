------------------------------ MODULE LoadShed ------------------------------
(***************************************************************************)
(* The load-shed guard of the router (src/resilience/shed.ts): one         *)
(* concurrency semaphore per provider with a bounded FIFO wait queue.      *)
(*                                                                         *)
(* acquire() and release() are synchronous in the event loop, so each is   *)
(* one action.  A caller's AbortSignal is the flag aborted[r]; the abort   *)
(* listener that removes a waiter exists only when the signal was still    *)
(* live when the waiter was pushed, which is what listening[r] remembers.  *)
(***************************************************************************)
EXTENDS Arrays

CONSTANTS
    Requests,       \* callers of acquire(), one outstanding call each
    Providers,      \* provider ids: the keys of the two Maps
    MaxConcurrent,  \* UPSTREAM_MAX_CONCURRENCY
    QueueCap        \* UPSTREAM_QUEUE_CAP

ASSUME LoadShedAssumption ==
    /\ IsFiniteSet(Requests)
    /\ MaxConcurrent \in Nat \ {0}
    /\ QueueCap \in Nat

VARIABLES
    inFlight,   \* provider -> slots handed out (this.inFlight)
    queue,      \* provider -> waiting callers, oldest first (this.queues)
    st,         \* caller -> "idle", "queued" or "holding" a slot
    at,         \* caller -> the provider of its latest acquire()
    aborted,    \* caller -> its AbortSignal has fired
    listening   \* caller -> its queue entry has a live abort listener

vars == <<inFlight, queue, st, at, aborted, listening>>

TypeOK ==
    /\ inFlight \in [Providers -> Nat]
    /\ queue \in [Providers -> Seq(Requests)]
    /\ st \in [Requests -> {"idle", "queued", "holding"}]
    /\ at \in [Requests -> Providers]
    /\ aborted \in [Requests -> BOOLEAN]
    /\ listening \in [Requests -> BOOLEAN]

Init ==
    /\ inFlight = [p \in Providers |-> 0]
    /\ queue = [p \in Providers |-> <<>>]
    /\ st = [r \in Requests |-> "idle"]
    /\ at \in [Requests -> Providers]
    /\ aborted = [r \in Requests |-> FALSE]
    /\ listening = [r \in Requests |-> FALSE]

-----------------------------------------------------------------------------
\* Mutant: inFlight <= maxConcurrent.
AcquireOneTooMany(r, p) ==
    /\ st[r] = "idle"
    /\ inFlight[p] <= MaxConcurrent
    /\ inFlight' = [inFlight EXCEPT ![p] = @ + 1]
    /\ st' = [st EXCEPT ![r] = "holding"]
    /\ at' = [at EXCEPT ![r] = p]
    /\ UNCHANGED <<queue, aborted, listening>>

\* acquire(): a slot is free.  The queue is not consulted.
AcquireSlot(r, p) ==
    /\ st[r] = "idle"
    /\ inFlight[p] < MaxConcurrent
    /\ inFlight' = [inFlight EXCEPT ![p] = @ + 1]
    /\ st' = [st EXCEPT ![r] = "holding"]
    /\ at' = [at EXCEPT ![r] = p]
    /\ UNCHANGED <<queue, aborted, listening>>

\* acquire(): no slot, room in the queue.  addEventListener on a signal that
\* has already fired never calls back, so such a waiter is not listening.
AcquireQueued(r, p) ==
    /\ st[r] = "idle"
    /\ inFlight[p] >= MaxConcurrent
    /\ Len(queue[p]) < QueueCap
    /\ queue' = [queue EXCEPT ![p] = Append(@, r)]
    /\ st' = [st EXCEPT ![r] = "queued"]
    /\ at' = [at EXCEPT ![r] = p]
    /\ listening' = [listening EXCEPT ![r] = ~aborted[r]]
    /\ UNCHANGED <<inFlight, aborted>>

\* acquire(): no slot and the queue is full, so the call resolves to null.
AcquireShed(r, p) ==
    /\ st[r] = "idle"
    /\ inFlight[p] >= MaxConcurrent
    /\ Len(queue[p]) >= QueueCap
    /\ at' = [at EXCEPT ![r] = p]
    /\ UNCHANGED <<inFlight, queue, st, aborted, listening>>

\* Mutant: release() returns the slot and does not look at the queue.
ReleaseForgetsWaiters(r) ==
    /\ st[r] = "holding"
    /\ inFlight' = [inFlight EXCEPT ![at[r]] = @ - 1]
    /\ st' = [st EXCEPT ![r] = "idle"]
    /\ UNCHANGED <<queue, at, aborted, listening>>

\* release() with nobody waiting.
ReleaseFree(r) ==
    /\ st[r] = "holding"
    /\ LET p == at[r] IN
        /\ ~ (Len(queue[p]) > 0 /\ inFlight[p] - 1 < MaxConcurrent)
        /\ inFlight' = [inFlight EXCEPT ![p] = @ - 1]
    /\ st' = [st EXCEPT ![r] = "idle"]
    /\ UNCHANGED <<queue, at, aborted, listening>>

\* Mutant: entry() does not count the slot that is handed over.
HandoffForgetsCount(r) ==
    /\ st[r] = "holding"
    /\ queue[at[r]] # <<>>
    /\ inFlight' = [inFlight EXCEPT ![at[r]] = @ - 1]
    /\ queue' = [queue EXCEPT ![at[r]] = Tail(@)]
    /\ st' = [st EXCEPT ![r] = "idle", ![Head(queue[at[r]])] = "holding"]
    /\ listening' = [listening EXCEPT ![Head(queue[at[r]])] = FALSE]
    /\ UNCHANGED <<at, aborted>>

\* Mutant: queue.pop() instead of queue.shift().
HandoffPops(r) ==
    LET q == queue[at[r]] IN
    /\ st[r] = "holding"
    /\ q # <<>>
    /\ queue' = [queue EXCEPT ![at[r]] = SubSeq(@, 1, Len(@) - 1)]
    /\ st' = [st EXCEPT ![r] = "idle", ![q[Len(q)]] = "holding"]
    /\ listening' = [listening EXCEPT ![q[Len(q)]] = FALSE]
    /\ UNCHANGED <<inFlight, at, aborted>>

\* release() with a waiter: the slot is given back and the oldest waiter's
\* entry() takes it again before anyone else can run.  From then on its abort
\* listener finds no entry.
ReleaseHandoff(r) ==
    /\ st[r] = "holding"
    /\ LET p == at[r]
           next == Head(queue[p])
       IN  /\ Len(queue[p]) > 0
           /\ inFlight[p] - 1 < MaxConcurrent
           /\ inFlight' = [inFlight EXCEPT ![p] = (@ - 1) + 1]
           /\ queue' = [queue EXCEPT ![p] = Tail(@)]
           /\ st' = [st EXCEPT ![r] = "idle", ![next] = "holding"]
           /\ listening' = [listening EXCEPT ![next] = FALSE]
    /\ UNCHANGED <<at, aborted>>

\* The caller's signal fires while its entry waits with a live listener: the
\* entry is spliced out and acquire() resolves to null.
AbortQueued(r) ==
    /\ ~ aborted[r]
    /\ st[r] = "queued"
    /\ listening[r]
    /\ LET p == at[r] IN
        \E i \in 1 .. Len(queue[p]) :
            /\ queue[p][i] = r
            /\ queue' = [queue EXCEPT ![p] = Splice(@, i)]
    /\ st' = [st EXCEPT ![r] = "idle"]
    /\ aborted' = [aborted EXCEPT ![r] = TRUE]
    /\ listening' = [listening EXCEPT ![r] = FALSE]
    /\ UNCHANGED <<inFlight, at>>

\* The caller's signal fires at any other time: indexOf finds no entry.
AbortElsewhere(r) ==
    /\ ~ aborted[r]
    /\ st[r] # "queued"
    /\ aborted' = [aborted EXCEPT ![r] = TRUE]
    /\ UNCHANGED <<inFlight, queue, st, at, listening>>

\* A new request, with a fresh signal, takes over an idle caller's name.
NewRequest(r) ==
    /\ st[r] = "idle"
    /\ aborted[r]
    /\ aborted' = [aborted EXCEPT ![r] = FALSE]
    /\ UNCHANGED <<inFlight, queue, st, at, listening>>

Acquire(r, p) == AcquireSlot(r, p) \/ AcquireQueued(r, p) \/ AcquireShed(r, p)
Release(r) == ReleaseFree(r) \/ ReleaseHandoff(r)

Next ==
    \E r \in Requests :
        \/ \E p \in Providers : Acquire(r, p)
        \/ Release(r)
        \/ AbortQueued(r)
        \/ AbortElsewhere(r)
        \/ NewRequest(r)

Spec == Init /\ [][Next]_vars

\* Every slot holder releases: the executor calls release() in a finally
\* block around work that the total and idle timeouts bound.
FairSpec == Spec /\ \A r \in Requests : WF_vars(Release(r))

-----------------------------------------------------------------------------
Holders(p) == {r \in Requests : st[r] = "holding" /\ at[r] = p}

\* The counter of shed.ts never drifts from the slots really held: every
\* path through acquire, release, hand-off and abort keeps them equal.
SlotAccounting == \A p \in Providers : inFlight[p] = Cardinality(Holders(p))

\* UPSTREAM_MAX_CONCURRENCY is never exceeded, the hand-off included.
WithinLimit == \A p \in Providers : inFlight[p] <= MaxConcurrent

\* No lost wake-up: while anybody waits in shed.ts's queue for a provider, all
\* of its slots are taken, so some release() will still come and serve it.
NoIdleSlotWhileQueued ==
    \A p \in Providers : queue[p] # <<>> => inFlight[p] = MaxConcurrent

\* A provider's queue holds exactly the callers that wait for it, each once,
\* and no more than UPSTREAM_QUEUE_CAP of them: shed.ts drops nobody's entry
\* and never keeps the entry of a caller that has moved on.
QueueExact ==
    \A p \in Providers :
        /\ Len(queue[p]) <= QueueCap
        /\ \A i \in 1 .. Len(queue[p]) :
            st[queue[p][i]] = "queued" /\ at[queue[p][i]] = p
        /\ \A i, j \in 1 .. Len(queue[p]) : queue[p][i] = queue[p][j] => i = j
        /\ \A r \in Requests : st[r] = "queued" /\ at[r] = p =>
            \E i \in 1 .. Len(queue[p]) : queue[p][i] = r

\* The guard's safety, which is inductive as a whole: types alone are not
\* (release() would drive the counter below zero), the counter needs the
\* holders, and the hand-off needs to know that only waiting callers queue.
ShedSafe ==
    /\ TypeOK
    /\ SlotAccounting
    /\ WithinLimit
    /\ NoIdleSlotWhileQueued
    /\ QueueExact

\* acquire() never looks at the queue before it takes a free slot, and yet
\* nobody overtakes: whoever gets a slot was first in line or found no line.
NoOvertaking ==
    [][\A r \in Requests :
        st[r] # "holding" /\ st'[r] = "holding" =>
            \/ queue[at'[r]] = <<>>
            \/ Head(queue[at'[r]]) = r]_vars

\* The counter-and-queue mechanism of shed.ts implements the slot pool.
Pool == INSTANCE SlotPool WITH held <- [p \in Providers |-> Holders(p)]
ImplementsSlotPool == Pool!Spec

\* Every waiter of shed.ts leaves the queue: it gets a slot or its abort
\* removes it, also when its signal had fired before it was queued.
WaiterIsServed == \A r \in Requests : []<>(st[r] # "queued")

=============================================================================

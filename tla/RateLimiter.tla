----------------------------- MODULE RateLimiter -----------------------------
(***************************************************************************)
(* The rate limiter (src/resilience/limiter.ts) as stageAuth() uses it     *)
(* (src/gateway/pipeline.ts): one bucket per app token and one per user,   *)
(* refilled only when they are looked at and dropped when they have been   *)
(* idle for long.  A tick is a second; Rate is what a bucket gains in it,  *)
(* a request costs Unit, so rpm = 60 * Rate / Unit.                        *)
(***************************************************************************)
EXTENDS Integers

CONSTANTS
    Tokens, LimitedUsers,   \* app tokens and users: the bucket keys
    Rate, Unit, Burst,      \* Burst in units: the capacity
    MaxIdle                 \* prune()'s maxIdleMs

\* The burst is refilled while a bucket idles: by default 600 s against
\* max(5, rpm / 4) requests.
ASSUME RateLimiterAssumption ==
    /\ Rate \in Nat \ {0} /\ Unit \in Nat \ {0} /\ Burst \in Nat /\ Burst >= Unit
    /\ MaxIdle \in Nat /\ MaxIdle * Rate >= Burst

BucketKeys == Tokens \cup LimitedUsers

VARIABLES
    bucket,     \* key -> units, and the time since updatedAt
    level,      \* history: key -> units of a bucket refilled all the time
    advised     \* history: key -> seconds of its last refusal to come, -1: none

limiterVars == <<bucket, level, advised>>

NoBucket == [units |-> Burst, idle |-> -1]
Smaller(a, b) == IF a < b THEN a ELSE b

RateLimiterTypeOK ==
    /\ bucket \in [BucketKeys -> [units : 0..Burst, idle : -1..(MaxIdle + 1)]]
    /\ level \in [BucketKeys -> 0..Burst]

RateLimiterInit ==
    /\ bucket = [k \in BucketKeys |-> NoBucket]
    /\ level = [k \in BucketKeys |-> Burst]
    /\ advised = [k \in BucketKeys |-> -1]

\* take(): the units a bucket has once it is refilled ...
Refilled(b) == IF b = NoBucket THEN Burst ELSE Smaller(Burst, b.units + b.idle * Rate)

\* Mutant: the wait is rounded down.
WaitFloor(units) == IF units >= Unit THEN 0 ELSE (Unit - units) \div Rate

\* ... and the seconds to wait, rounded up; 0 admits.
Wait(units) == IF units >= Unit THEN 0 ELSE (Unit - units + Rate - 1) \div Rate

AfterTake(units) == IF units >= Unit THEN units - Unit ELSE units

\* stageAuth(): the token's bucket and, with a user, the user's; both are
\* charged whatever the other says.
StageAuthLimits(keys) ==
    /\ bucket' = [k \in BucketKeys |->
                    IF k \in keys THEN [units |-> AfterTake(Refilled(bucket[k])), idle |-> 0] ELSE bucket[k]]
    /\ level' = [k \in BucketKeys |-> IF k \in keys THEN AfterTake(level[k]) ELSE level[k]]
    /\ advised' = [k \in BucketKeys |->
                    IF k \notin keys THEN advised[k]
                    ELSE IF Refilled(bucket[k]) >= Unit THEN -1 ELSE Wait(Refilled(bucket[k]))]

\* prune(), which a timer of server/index.ts calls on both limiters.
Pruned == [k \in BucketKeys |-> IF bucket[k].idle > MaxIdle THEN NoBucket ELSE bucket[k]]

PruneBuckets ==
    /\ bucket' = Pruned
    /\ UNCHANGED <<level, advised>>

LimiterTick ==
    /\ bucket' = [k \in BucketKeys |->
                    IF bucket[k] = NoBucket THEN NoBucket
                    ELSE [bucket[k] EXCEPT !.idle = Smaller(MaxIdle + 1, @ + 1)]]
    /\ level' = [k \in BucketKeys |-> Smaller(Burst, level[k] + Rate)]
    /\ advised' = [k \in BucketKeys |-> IF advised[k] > 0 THEN advised[k] - 1 ELSE advised[k]]

RateLimiterNext ==
    \/ \E t \in Tokens : StageAuthLimits({t}) \/ \E u \in LimitedUsers : StageAuthLimits({t, u})
    \/ PruneBuckets \/ LimiterTick

RateLimiterSpec == RateLimiterInit /\ [][RateLimiterNext]_limiterVars

-----------------------------------------------------------------------------
\* The lazily refilled and pruned buckets of limiter.ts are token buckets: each
\* holds what one refilled every second and never dropped would hold; and
\* whoever waits as long as a bucket's Retry-After says, while nobody else
\* draws on it, finds it ready.
TokenBuckets ==
    /\ RateLimiterTypeOK
    /\ \A k \in BucketKeys : Refilled(bucket[k]) = level[k]
    /\ \A k \in BucketKeys : advised[k] = 0 => level[k] >= Unit

=============================================================================

--------------------------- MODULE ResponseCache ---------------------------
(***************************************************************************)
(* The response cache (src/ops/cache.ts): a Map in insertion order, with a *)
(* TTL and a size limit.  What the pipeline stores in it, and for whom, is *)
(* in module Pipeline.                                                     *)
(***************************************************************************)
EXTENDS Arrays, Functions

CONSTANTS CacheKeys, MaxEntries, CacheTtl

ASSUME ResponseCacheAssumption == MaxEntries \in Nat \ {0} /\ CacheTtl \in Nat \ {0}

VARIABLES
    entries,    \* the keys of the Map, first inserted first
    ttl,        \* key -> ticks until expiresAt, -1: past
    since       \* history: key -> others stored or read since it was, first, last

cacheVars == <<entries, ttl, since>>

Cached(k) == k \in Range(entries)

ResponseCacheTypeOK ==
    /\ entries \in Seq(CacheKeys) /\ Len(entries) <= MaxEntries
    /\ ttl \in [CacheKeys -> -1..CacheTtl]

ResponseCacheInit ==
    /\ entries = <<>>
    /\ ttl = [k \in CacheKeys |-> -1]
    /\ since = [k \in CacheKeys |-> {}]

\* k was used: it joins what the others have seen since, and starts afresh.
Used(k, fresh) ==
    since' = [j \in CacheKeys |-> IF j \notin Range(entries') \/ (j = k /\ fresh) THEN {}
                                 ELSE since[j] \cup ({k} \ {j})]

\* Mutant: without the LRU touch.
GetUntouched(k) ==
    /\ \E i \in 1..Len(entries) :
        /\ entries[i] = k
        /\ IF ttl[k] < 0 THEN entries' = Splice(entries, i) /\ since' = [since EXCEPT ![k] = {}]
                         ELSE UNCHANGED entries /\ Used(k, TRUE)
    /\ UNCHANGED ttl

\* get() of a key that is there: expired, it goes; else it moves to the end.
CacheGet(k) ==
    /\ \E i \in 1..Len(entries) :
        /\ entries[i] = k
        /\ IF ttl[k] < 0 THEN entries' = Splice(entries, i) /\ since' = [since EXCEPT ![k] = {}]
                         ELSE entries' = Append(Splice(entries, i), k) /\ Used(k, TRUE)
    /\ UNCHANGED ttl

\* set(): at the limit the first key goes, whether or not k is there already
\* (two requests that missed answer one after the other); Map.set() of a key
\* that is there leaves it in its place.
CacheSet(k, t) ==
    LET room == IF Len(entries) >= MaxEntries THEN Tail(entries) ELSE entries
        there == k \in Range(room)
    IN  /\ t > 0
        /\ entries' = IF there THEN room ELSE Append(room, k)
        /\ ttl' = [j \in CacheKeys |-> IF j = k THEN t ELSE IF j \in Range(room) THEN ttl[j] ELSE -1]
        /\ Used(k, ~ there)

CacheTick ==
    /\ ttl' = [k \in CacheKeys |-> IF ttl[k] < 0 THEN -1 ELSE ttl[k] - 1]
    /\ UNCHANGED <<entries, since>>

ResponseCacheNext ==
    \/ \E k \in CacheKeys : CacheGet(k) \/ \E t \in 0..CacheTtl : CacheSet(k, t)
    \/ CacheTick

ResponseCacheSpec == ResponseCacheInit /\ [][ResponseCacheNext]_cacheVars

-----------------------------------------------------------------------------
\* "In-memory LRU with TTL": an answer that has not expired is thrown out only
\* after as many other keys as fit beside it were used since it was last read
\* or first stored.
EvictionIsEarned ==
    [][\A k \in CacheKeys :
        Cached(k) /\ ttl[k] >= 0 /\ k \notin Range(entries') =>
            Cardinality(since[k]) >= MaxEntries - 1]_cacheVars

=============================================================================

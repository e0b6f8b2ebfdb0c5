------------------------------ MODULE SlotPool ------------------------------
(***************************************************************************)
(* What the load-shed guard promises to the executor, with no counter and  *)
(* no queue: per provider, a set of at most MaxConcurrent requests that    *)
(* may talk to it.  A request joins when there is room, leaves, or gives   *)
(* its place to another one in a single step.                              *)
(***************************************************************************)
EXTENDS Integers, FiniteSets

CONSTANTS Requests, Providers, MaxConcurrent

VARIABLE held   \* provider -> the requests that hold one of its slots

Init == held = [p \in Providers |-> {}]

Free(r) == \A p \in Providers : r \notin held[p]

Take(r, p) ==
    /\ Free(r)
    /\ Cardinality(held[p]) < MaxConcurrent
    /\ held' = [held EXCEPT ![p] = @ \cup {r}]

Give(r, p) ==
    /\ r \in held[p]
    /\ held' = [held EXCEPT ![p] = @ \ {r}]

Hand(r, q, p) ==
    /\ r \in held[p]
    /\ Free(q)
    /\ held' = [held EXCEPT ![p] = (@ \ {r}) \cup {q}]

Next ==
    \E r \in Requests, p \in Providers :
        \/ Take(r, p)
        \/ Give(r, p)
        \/ \E q \in Requests : Hand(r, q, p)

Spec == Init /\ [][Next]_held

=============================================================================

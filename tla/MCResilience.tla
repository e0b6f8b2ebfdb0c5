---------------------------- MODULE MCResilience ----------------------------
(***************************************************************************)
(* Resilience-layer instances for TLC.  The chain has a model that is not  *)
(* loaded between the primary and the fallback.                            *)
(***************************************************************************)
EXTENDS Resilience, TLC

MCChain == <<"primary", "unloaded", "fallback">>
MCLoaded == {"primary", "fallback"}

\* Bound: the third request comes only while everybody stays at the primary.
TwoBeyondPrimary ==
    (\E r \in Requests : req[r].pc = "idle") \/ (\A r \in Requests : req[r].hop = 1)

\* Primary and fallback are models of the same provider.
OneProvider == [m \in MCLoaded |-> "p1"]

\* Requests of the same kind are interchangeable.
SameKind == Permutations(Requests \ Streaming) \cup Permutations(Streaming)

=============================================================================

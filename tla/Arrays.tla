------------------------------- MODULE Arrays -------------------------------
(***************************************************************************)
(* The two methods of Array.prototype that the router uses on breaker      *)
(* outcomes, model chains, ledger rows and queues, without recursion so    *)
(* that proofs can use them.                                               *)
(***************************************************************************)
EXTENDS Integers, Sequences, FiniteSets

\* filter(), whose test is membership in T: the elements of s that are in T, in
\* their order, the k-th of them the one with k of them up to its place.
Filter(s, T) ==
    LET kept == {i \in 1 .. Len(s) : s[i] \in T}
    IN  [k \in 1 .. Cardinality(kept) |->
            s[CHOOSE i \in kept : Cardinality(kept \cap (1 .. i)) = k]]

\* splice(i, 1): the sequence without its i-th element.
Splice(s, i) ==
    [j \in 1 .. (Len(s) - 1) |-> IF j < i THEN s[j] ELSE s[j + 1]]

=============================================================================

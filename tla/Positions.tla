----------------------------- MODULE Positions -----------------------------
(* What a loop with a condition and an append makes of a list: the elements *)
(* at the positions that meet the condition, in their order.                *)
EXTENDS Naturals, Sequences, FiniteSets

\* The k-th smallest of a set of numbers.
Nth(S, k) == CHOOSE i \in S : Cardinality({j \in S : j < i}) = k - 1

Picked(s, places) == [k \in 1 .. Cardinality(places) |-> s[Nth(places, k)]]
=============================================================================

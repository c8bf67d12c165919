------------------------------- MODULE Buffers -------------------------------
(* Ordered buffers of the collector: dicts and lists from which entries are    *)
(* taken out at any place while the others keep their order.                   *)
EXTENDS Naturals, Sequences, FiniteSets

\* The n-th of a set of places.
Nth(places, n) == CHOOSE i \in places : Cardinality({j \in places : j <= i}) = n

\* What is left of a buffer when only the entries at some places are kept.
Kept(buffer, places) == [n \in 1 .. Cardinality(places) |-> buffer[Nth(places, n)]]

==============================================================================

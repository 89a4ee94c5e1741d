------------------------------ MODULE Filters ------------------------------
(* The elements of a sequence that pass a test, in their order: the value of *)
(* SelectSeq, by the places of those elements instead of by recursion.       *)
EXTENDS Naturals, Sequences, FiniteSets

\* The number of an element of `places` among them, the least being 1.
Rank(places, i) == Cardinality({j \in places : j <= i})

\* What s has at these places.
Picked(s, places) ==
    [k \in 1 .. Cardinality(places) |-> s[CHOOSE i \in places : Rank(places, i) = k]]

Filter(s, Keep(_)) == Picked(s, {i \in DOMAIN s : Keep(s[i])})

=============================================================================

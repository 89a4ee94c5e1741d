------------------------- MODULE MC_MatchingEngine -------------------------
(* The engine with three order ids: two makers and a taker, or a queue of    *)
(* three, at two prices.  Ids are interchangeable.                           *)
EXTENDS MatchingEngine

CONSTANTS o1, o2, o3
MCOrderIds == {o1, o2, o3}
MCSymmetry == Permutations(MCOrderIds)

=============================================================================

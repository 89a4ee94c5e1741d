----------------------------- MODULE MC_Pipeline -----------------------------
(* Two users that can buy and sell, with ids that may be used again, prices  *)
(* on both sides of the configured market and a taker fee of one half, which *)
(* keeps amounts whole.                                                      *)
EXTENDS ExchangePipeline

CONSTANTS u1, u2, o1, o2, o3
MCUsers == {u1, u2}
MCOrderIds == {o1, o2, o3}
MCOpening == [availableQuote |-> 12, frozenQuote |-> 0, availableBase |-> 2, frozenBase |-> 0,
              baseCost |-> 4, realizedPnl |-> 0]
MCInitialTop == [bid |-> 2, ask |-> 4]
MCSymmetry == Permutations(MCUsers) \cup Permutations(MCOrderIds)

=============================================================================

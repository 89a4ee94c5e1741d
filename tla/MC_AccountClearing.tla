------------------------ MODULE MC_AccountClearing ------------------------
(* Two accounts, one opened with quote, the other with base it paid for; a   *)
(* taker fee of one half makes fees visible in whole units.                  *)
EXTENDS AccountClearing, TLC

CONSTANTS a1, a2, h1, h2, h3, t1, t2
MCAccounts == {a1, a2}
MCHoldIds == {h1, h2, h3}
MCFillHolds == MCHoldIds
MCTradeIds == {t1, t2}
MCOpenings == {Delta(6, 0, 0, 0, 0, 0), Delta(3, 0, 2, 0, 3, 0)}
MCSymmetry ==
    Permutations(MCAccounts) \cup Permutations(MCHoldIds) \cup Permutations(MCTradeIds)

=============================================================================

CONSTANTS
    a1 = a1
    a2 = a2
    h1 = h1
    h2 = h2
    h3 = h3
    t1 = t1
    t2 = t2
    Accounts <- MCAccounts
    HoldIds <- MCHoldIds
    NoHold = NoHold
    FillHolds <- MCFillHolds
    TradeIds <- MCTradeIds
    Openings <- MCOpenings
    Reopened = {}
    Amounts = {0, 1, 3, 6}
    Prices = {2}
    Quantities = {0, 1, 2}
    MakerFeeBps = 0
    TakerFeeBps = 5000
    Inexact = {"quote", "base"}
SYMMETRY MCSymmetry
SPECIFICATION Spec
INVARIANTS
    FrozenIsHeld
    AccountsReconcile
    JournalExplainsBalances
    EquityPreserved
    TotalsPreserved
    OneMessagePerTrade

CONSTANTS
    s1 = s1
    s2 = s2
    Sagas = {s1, s2}
    NamesOf <- MCNamesOf
    ReservationIds <- MCReservationIds
    IdsOf <- MCIdsOf
    AmountOf <- MCAmountOf
    FreeIds = {"c1"}
    MaxAttempts = 2
    Amounts = {0, 1, 2, 3}
    InitialBalance = 4
SPECIFICATION SagaSpec
INVARIANTS
    FundsConserved
    BalancesMatchRecords
    AllOrNothing
PROPERTIES
    DecisionsAreFinal

------------------------------ MODULE TccWallet ------------------------------
(* infrastructure/distributed-consistency: TccWallet, the fund side of a     *)
(* try / confirm / cancel transaction.  Every call holds mutex_ throughout,  *)
(* so a call is one step; which thread calls, and whether the call is a      *)
(* retry, a duplicate or one that was overtaken, makes no difference: any    *)
(* call may come at any time.                                                *)
EXTENDS Integers, Functions, Maps

CONSTANTS
    ReservationIds,
    Amounts,            \* amounts asked for, 0 for one that is refused
    InitialBalance      \* the constructor's argument

ASSUME AmountsAssumption == Amounts \subseteq Nat
ASSUME BalanceAssumption == InitialBalance \in Nat

VARIABLES
    available, reserved, committed,
    reservations,       \* reservations_: id -> amount and state
    answer              \* what the last call returned

vars == <<available, reserved, committed, reservations, answer>>

Init ==
    /\ available = InitialBalance
    /\ reserved = 0
    /\ committed = 0
    /\ reservations = EmptyMap
    /\ answer = FALSE

-----------------------------------------------------------------------------
Known(id) == id \in DOMAIN reservations

InState(id, s) == Known(id) /\ reservations[id].state = s

\* A retry reserves again if the first reservation was cancelled.
TryReserveAgain(id, amount) ==
    IF Known(id) /\ reservations[id].state # "cancelled"
      THEN /\ answer' = (InState(id, "reserved") /\ reservations[id].amount = amount)
           /\ UNCHANGED <<available, reserved, committed, reservations>>
      ELSE IF amount <= 0 \/ amount > available
      THEN /\ answer' = FALSE
           /\ UNCHANGED <<available, reserved, committed, reservations>>
      ELSE /\ available' = available - amount
           /\ reserved' = reserved + amount
           /\ reservations' = With(reservations, id, [amount |-> amount, state |-> "reserved"])
           /\ answer' = TRUE
           /\ UNCHANGED committed

\* A known id is answered from its record: a retry with the same amount is a
\* success, anything else a refusal, and nothing is reserved twice.
TryReserve(id, amount) ==
    IF Known(id)
      THEN /\ answer' = (InState(id, "reserved") /\ reservations[id].amount = amount)
           /\ UNCHANGED <<available, reserved, committed, reservations>>
      ELSE IF amount <= 0 \/ amount > available
      THEN /\ answer' = FALSE
           /\ UNCHANGED <<available, reserved, committed, reservations>>
      ELSE /\ available' = available - amount
           /\ reserved' = reserved + amount
           /\ reservations' = With(reservations, id, [amount |-> amount, state |-> "reserved"])
           /\ answer' = TRUE
           /\ UNCHANGED committed

\* Confirming twice moves the amount twice.
ConfirmTwice(id) ==
    IF InState(id, "reserved") \/ InState(id, "confirmed")
      THEN /\ reserved' = reserved - reservations[id].amount
           /\ committed' = committed + reservations[id].amount
           /\ reservations' = [reservations EXCEPT ![id].state = "confirmed"]
           /\ answer' = TRUE
           /\ UNCHANGED available
      ELSE /\ answer' = FALSE
           /\ UNCHANGED <<available, reserved, committed, reservations>>

Confirm(id) ==
    IF InState(id, "reserved")
      THEN /\ reserved' = reserved - reservations[id].amount
           /\ committed' = committed + reservations[id].amount
           /\ reservations' = [reservations EXCEPT ![id].state = "confirmed"]
           /\ answer' = TRUE
           /\ UNCHANGED available
      ELSE /\ answer' = InState(id, "confirmed")
           /\ UNCHANGED <<available, reserved, committed, reservations>>

\* The amount is given back but stays reserved.
CancelKeepingReserved(id) ==
    IF InState(id, "reserved")
      THEN /\ available' = available + reservations[id].amount
           /\ reservations' = [reservations EXCEPT ![id].state = "cancelled"]
           /\ answer' = TRUE
           /\ UNCHANGED <<reserved, committed>>
      ELSE /\ answer' = InState(id, "cancelled")
           /\ UNCHANGED <<available, reserved, committed, reservations>>

\* A cancel that comes before its try finds no record and leaves none.
Cancel(id) ==
    IF InState(id, "reserved")
      THEN /\ reserved' = reserved - reservations[id].amount
           /\ available' = available + reservations[id].amount
           /\ reservations' = [reservations EXCEPT ![id].state = "cancelled"]
           /\ answer' = TRUE
           /\ UNCHANGED committed
      ELSE /\ answer' = InState(id, "cancelled")
           /\ UNCHANGED <<available, reserved, committed, reservations>>

Next ==
    \E id \in ReservationIds :
        \/ \E amount \in Amounts : TryReserve(id, amount)
        \/ Confirm(id)
        \/ Cancel(id)

Spec == Init /\ [][Next]_vars

-----------------------------------------------------------------------------
(* Properties.                                                               *)

Reservation == [amount : Nat \ {0}, state : {"reserved", "confirmed", "cancelled"}]

\* The values of all variables.
TypeOK ==
    /\ available \in Int /\ reserved \in Int /\ committed \in Int
    /\ DOMAIN reservations \subseteq ReservationIds
    /\ \A id \in DOMAIN reservations : reservations[id] \in Reservation
    /\ answer \in BOOLEAN

\* Funds only move between the three balances: none is made or lost, however
\* often and in whatever order the calls are retried.
FundsConserved == available + reserved + committed = InitialBalance

\* The amounts of the reservations in state s, added up.
Total(s) ==
    SumFunctionOnSet([id \in DOMAIN reservations |-> reservations[id].amount],
                     {id \in DOMAIN reservations : reservations[id].state = s})

\* The balances are what the reservation records say: each amount counts once,
\* in the balance its state names, and nothing is overdrawn.
BalancesMatchRecords ==
    reserved = Total("reserved") /\ committed = Total("confirmed") /\ available >= 0

\* A decided transaction stays decided: once confirmed or cancelled, no late or
\* repeated try, confirm or cancel changes the record or moves its amount.
DecisionsAreFinal ==
    [][ \A id \in DOMAIN reservations :
          reservations[id].state # "reserved" =>
             /\ id \in DOMAIN reservations'
             /\ reservations'[id] = reservations[id] ]_vars

=============================================================================

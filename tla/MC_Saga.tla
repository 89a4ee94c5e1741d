------------------------------ MODULE MC_Saga ------------------------------
(* A saga of up to three steps, of distinct or equal names, and one of one   *)
(* step compete for the balance with another client.                         *)
EXTENDS Saga

CONSTANTS s1, s2
MCReservationIds == {"a1", "a2", "a3", "b1", "c1"}
MCIdsOf == [s \in Sagas |-> IF s = s1 THEN <<"a1", "a2", "a3">> ELSE <<"b1">>]
MCNamesOf == [s \in Sagas |-> IF s = s1 THEN {"reserve", "settle", "publish"} ELSE {"reserve"}]
MCAmountOf == [id \in ReservationIds |-> IF id \in {"a2", "c1"} THEN 2 ELSE 1]

=============================================================================

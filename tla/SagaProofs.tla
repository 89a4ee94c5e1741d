----------------------------- MODULE SagaProofs -----------------------------
(* The wallet's conservation law, the agreement of its balances with its     *)
(* records and the finality of its decisions, for any set of reservations,   *)
(* any amounts and any opening balance; then that the wallet under sagas is  *)
(* such a wallet, and that a saga is all or nothing.                         *)
EXTENDS Saga, LibraryTheorems, SequenceTheorems, TLAPS

\* TypeOK is inductive together with the fact that no balance is overdrawn by
\* a reservation; the conservation law needs the record's amount to be a number.
IInv == TypeOK /\ FundsConserved /\ available >= 0

\* A new wallet satisfies the invariant.
LEMMA InitIInv == Init => IInv
<1> SUFFICES ASSUME Init PROVE IInv
    OBVIOUS
<1>1. DOMAIN reservations = {}
      BY DEF Init, EmptyMap
<1>2. answer \in BOOLEAN
      BY Zenon DEF Init
<1> QED BY <1>1, <1>2, BalanceAssumption DEF Init, IInv, TypeOK, FundsConserved

\* try_reserve, confirm and cancel preserve the invariant.
LEMMA NextIInv == IInv /\ [Next]_vars => IInv'
<1> SUFFICES ASSUME IInv, [Next]_vars PROVE IInv'
    OBVIOUS
<1> USE DEF IInv, TypeOK, FundsConserved, Reservation, InState, Known
<1>1. CASE UNCHANGED vars
      BY <1>1 DEF vars
<1>2. ASSUME NEW id \in ReservationIds, NEW amount \in Amounts, TryReserve(id, amount)
      PROVE  IInv'
  <2>1. amount \in Nat
        BY AmountsAssumption
  <2>2. CASE Known(id)
        BY <1>2, <2>2 DEF TryReserve
  <2>3. CASE ~Known(id) /\ (amount <= 0 \/ amount > available)
        BY <1>2, <2>3 DEF TryReserve
  <2>4. CASE ~Known(id) /\ ~(amount <= 0 \/ amount > available)
    <3>1. /\ available' = available - amount
          /\ reserved' = reserved + amount
          /\ committed' = committed
          /\ answer' = TRUE
          BY <1>2, <2>4 DEF TryReserve
    <3>2. reservations' = With(reservations, id, [amount |-> amount, state |-> "reserved"])
          BY <1>2, <2>4 DEF TryReserve
    <3>3. /\ DOMAIN reservations' = DOMAIN reservations \cup {id}
          /\ \A x \in DOMAIN reservations' : reservations'[x] =
                IF x = id THEN [amount |-> amount, state |-> "reserved"] ELSE reservations[x]
          BY <3>2 DEF With
    <3>4. \A x \in DOMAIN reservations' : reservations'[x] \in Reservation
          BY <3>3, <2>1, <2>4
    <3> QED BY <3>1, <3>3, <3>4, <2>1, <2>4
  <2> QED BY <2>2, <2>3, <2>4
<1>3. ASSUME NEW id \in ReservationIds, Confirm(id) PROVE IInv'
  <2>1. CASE InState(id, "reserved")
    <3>1. reservations[id] \in Reservation
          BY <2>1
    <3>2. \A x \in DOMAIN reservations : reservations'[x] \in Reservation
          BY <1>3, <2>1 DEF Confirm
    <3>3. answer' \in BOOLEAN
          BY <1>3, <2>1, Zenon DEF Confirm
    <3> QED BY <1>3, <2>1, <3>1, <3>2, <3>3 DEF Confirm
  <2>2. CASE ~InState(id, "reserved")
    <3>1. answer' \in BOOLEAN
          BY <1>3, <2>2, Zenon DEF Confirm
    <3> QED BY <1>3, <2>2, <3>1 DEF Confirm
  <2> QED BY <2>1, <2>2
<1>4. ASSUME NEW id \in ReservationIds, Cancel(id) PROVE IInv'
  <2>1. CASE InState(id, "reserved")
    <3>1. reservations[id] \in Reservation
          BY <2>1
    <3>2. \A x \in DOMAIN reservations : reservations'[x] \in Reservation
          BY <1>4, <2>1 DEF Cancel
    <3>3. answer' \in BOOLEAN
          BY <1>4, <2>1, Zenon DEF Cancel
    <3> QED BY <1>4, <2>1, <3>1, <3>2, <3>3 DEF Cancel
  <2>2. CASE ~InState(id, "reserved")
    <3>1. answer' \in BOOLEAN
          BY <1>4, <2>2, Zenon DEF Cancel
    <3> QED BY <1>4, <2>2, <3>1 DEF Cancel
  <2> QED BY <2>1, <2>2
<1> QED BY <1>1, <1>2, <1>3, <1>4 DEF Next

\* The three parts of the wallet's state keep their types.
THEOREM TypeCorrectness == Spec => []TypeOK
<1>1. IInv => TypeOK
      BY DEF IInv
<1> QED BY <1>1, InitIInv, NextIInv, PTL DEF Spec

\* Whatever calls are made, repeated or reordered, available, reserved and
\* committed add up to the balance the wallet was made with.
THEOREM Conservation == Spec => []FundsConserved
<1>1. IInv => FundsConserved
      BY DEF IInv
<1> QED BY <1>1, InitIInv, NextIInv, PTL DEF Spec

\* The action property behind finality, for one step from a good state.
LEMMA StepKeepsDecisions ==
    ASSUME IInv, [Next]_vars,
           NEW id \in DOMAIN reservations, reservations[id].state # "reserved"
    PROVE  id \in DOMAIN reservations' /\ reservations'[id] = reservations[id]
<1> USE DEF IInv, TypeOK, Reservation, InState, Known
<1>1. CASE UNCHANGED vars
      BY <1>1 DEF vars
<1>2. ASSUME NEW x \in ReservationIds, NEW amount \in Amounts, TryReserve(x, amount)
      PROVE  id \in DOMAIN reservations' /\ reservations'[id] = reservations[id]
  <2>1. CASE reservations' = reservations
        BY <2>1
  <2>2. CASE /\ ~Known(x)
             /\ reservations' = With(reservations, x, [amount |-> amount, state |-> "reserved"])
        BY <2>2 DEF With
  <2> QED BY <1>2, <2>1, <2>2 DEF TryReserve
<1>3. ASSUME NEW x \in ReservationIds, Confirm(x)
      PROVE  id \in DOMAIN reservations' /\ reservations'[id] = reservations[id]
      BY <1>3 DEF Confirm
<1>4. ASSUME NEW x \in ReservationIds, Cancel(x)
      PROVE  id \in DOMAIN reservations' /\ reservations'[id] = reservations[id]
      BY <1>4 DEF Cancel
<1> QED BY <1>1, <1>2, <1>3, <1>4 DEF Next

\* A confirmed or cancelled reservation is never reopened, changed or dropped
\* by a late or repeated call.
THEOREM Finality == Spec => DecisionsAreFinal
<1>1. IInv /\ [Next]_vars =>
        [ \A id \in DOMAIN reservations :
            reservations[id].state # "reserved" =>
               /\ id \in DOMAIN reservations'
               /\ reservations'[id] = reservations[id] ]_vars
      BY StepKeepsDecisions
<1> QED BY <1>1, InitIInv, NextIInv, PTL DEF Spec, DecisionsAreFinal

-----------------------------------------------------------------------------
(* The balances and the records.                                             *)

\* The sum of the amounts of the records of rs in state s.
TotalOf(rs, s) ==
    SumFunctionOnSet([id \in DOMAIN rs |-> rs[id].amount], {id \in DOMAIN rs : rs[id].state = s})

RecordsOK(rs) == IsFiniteSet(DOMAIN rs) /\ \A id \in DOMAIN rs : rs[id] \in Reservation

\* What record r adds to the total of state s.
Share(r, s) == IF r.state = s THEN r.amount ELSE 0

\* A call that changes one record changes the totals by that record's amount.
LEMMA TotalChanges ==
    ASSUME NEW old, RecordsOK(old), NEW new, RecordsOK(new), NEW id \in DOMAIN new, NEW s,
           DOMAIN old \ {id} = DOMAIN new \ {id},
           \A x \in DOMAIN old \ {id} : new[x] = old[x]
    PROVE  TotalOf(new, s) = TotalOf(old, s) + Share(new[id], s)
                                 - (IF id \in DOMAIN old THEN Share(old[id], s) ELSE 0)
<1>1. PICK f : f = [x \in DOMAIN old |-> old[x].amount]
      OBVIOUS
<1>2. PICK h : h = [x \in DOMAIN new |-> new[x].amount]
      OBVIOUS
<1>3. PICK A : A = {x \in DOMAIN old : old[x].state = s}
      OBVIOUS
<1>4. PICK B : B = {x \in DOMAIN new : new[x].state = s}
      OBVIOUS
<1>5. IsFiniteSet(A) /\ IsFiniteSet(B)
      BY <1>3, <1>4, FS_Subset DEF RecordsOK
<1>6. (\A x \in A : f[x] \in Int) /\ (\A x \in B : h[x] \in Int)
      BY <1>1, <1>2, <1>3, <1>4 DEF RecordsOK, Reservation
<1>7. A \ {id} = B \ {id} /\ \A x \in A \ {id} : h[x] = f[x]
      BY <1>1, <1>2, <1>3, <1>4
<1>8. SumFunctionOnSet(h, B) = SumFunctionOnSet(f, A) + (IF id \in B THEN h[id] ELSE 0)
                                                     - (IF id \in A THEN f[id] ELSE 0)
      BY <1>5, <1>6, <1>7, SumChange
<1>9. /\ (IF id \in B THEN h[id] ELSE 0) = Share(new[id], s)
      /\ (IF id \in A THEN f[id] ELSE 0) = IF id \in DOMAIN old THEN Share(old[id], s) ELSE 0
      BY <1>1, <1>2, <1>3, <1>4 DEF Share
<1> QED BY <1>1, <1>2, <1>3, <1>4, <1>8, <1>9 DEF TotalOf

\* The totals are integers.
LEMMA TotalType ==
    ASSUME NEW rs, RecordsOK(rs), NEW s
    PROVE  TotalOf(rs, s) \in Int
<1>1. PICK f : f = [x \in DOMAIN rs |-> rs[x].amount]
      OBVIOUS
<1>2. PICK A : A = {x \in DOMAIN rs : rs[x].state = s}
      OBVIOUS
<1>3. IsFiniteSet(A) /\ \A x \in A : f[x] \in Int
      BY <1>1, <1>2, FS_Subset DEF RecordsOK, Reservation
<1>4. SumFunctionOnSet(f, A) \in Int
      BY <1>3, SumSplits
<1> QED BY <1>1, <1>2, <1>4 DEF TotalOf

\* The inductive invariant: beside BalancesMatchRecords and the types, that
\* there are finitely many records.
RecordsInv == IInv /\ IsFiniteSet(DOMAIN reservations) /\ BalancesMatchRecords

\* A new wallet has no records.
LEMMA InitRecords == Init => RecordsInv
<1> SUFFICES ASSUME Init PROVE RecordsInv
    OBVIOUS
<1>1. DOMAIN reservations = {} /\ reserved = 0 /\ committed = 0 /\ available = InitialBalance
      BY DEF Init, EmptyMap
<1>2. IsFiniteSet({})
      BY FS_EmptySet
<1>3. \A f : SumFunctionOnSet(f, {}) = 0
  <2> TAKE f
  <2>1. \A x \in {} : f[x] \in Int
        OBVIOUS
  <2> QED BY <1>2, <2>1, SumSplits
<1>4. \A s : {id \in DOMAIN reservations : reservations[id].state = s} = {}
      BY <1>1
<1>5. Total("reserved") = 0 /\ Total("confirmed") = 0
      BY <1>3, <1>4 DEF Total
<1> QED BY <1>1, <1>2, <1>5, InitIInv, BalanceAssumption DEF RecordsInv, BalancesMatchRecords

\* How a step of the wallet changes its records: not at all, or one of them,
\* and the balances with it.
Records(old, new, id, amount, from, to) ==
    /\ id \in DOMAIN new /\ DOMAIN new = DOMAIN old \cup {id}
    /\ new[id].amount = amount /\ new[id].state = to
    /\ \A x \in DOMAIN old \ {id} : new[x] = old[x]
    /\ IF id \in DOMAIN old THEN old[id].amount = amount /\ old[id].state = from
                            ELSE from = "none"

\* The effect of one changed record on the totals.
LEMMA RecordMoves ==
    ASSUME NEW old, RecordsOK(old), NEW new, RecordsOK(new), NEW id, NEW amount,
           NEW from, NEW to, Records(old, new, id, amount, from, to), NEW s
    PROVE  TotalOf(new, s) = TotalOf(old, s) + (IF to = s THEN amount ELSE 0)
                                 - (IF id \in DOMAIN old /\ from = s THEN amount ELSE 0)
<1>1. DOMAIN old \ {id} = DOMAIN new \ {id} /\ id \in DOMAIN new
      BY DEF Records
<1>2. TotalOf(new, s) = TotalOf(old, s) + Share(new[id], s)
                                 - (IF id \in DOMAIN old THEN Share(old[id], s) ELSE 0)
      BY <1>1, TotalChanges DEF Records
<1> QED BY <1>2 DEF Records, Share

\* Every call keeps the balances and the records in step.
LEMMA NextRecords == RecordsInv /\ [Next]_vars => RecordsInv'
<1> SUFFICES ASSUME RecordsInv, [Next]_vars PROVE RecordsInv'
    OBVIOUS
<1>1. IInv /\ IInv' /\ available' >= 0 /\ (available' \in Int)
      BY NextIInv DEF RecordsInv, IInv, TypeOK
<1>2. IsFiniteSet(DOMAIN reservations)
      BY DEF RecordsInv
<1>3. RecordsOK(reservations)
      BY <1>1, <1>2 DEF RecordsOK, IInv, TypeOK
<1>4. \A s : TotalOf(reservations, s) \in Int
      BY <1>3, TotalType
<1>5. reserved = TotalOf(reservations, "reserved") /\ committed = TotalOf(reservations, "confirmed")
      BY DEF RecordsInv, BalancesMatchRecords, Total, TotalOf
<1>6. SUFFICES /\ IsFiniteSet(DOMAIN reservations')
               /\ reserved' = TotalOf(reservations', "reserved")
               /\ committed' = TotalOf(reservations', "confirmed")
      BY <1>1 DEF RecordsInv, BalancesMatchRecords, Total, TotalOf
<1>7. CASE UNCHANGED <<reserved, committed, reservations>>
      BY <1>2, <1>5, <1>7
<1>8. ASSUME NEW id, NEW amount \in Int, NEW from, NEW to,
             Records(reservations, reservations', id, amount, from, to)
      PROVE  /\ IsFiniteSet(DOMAIN reservations')
             /\ \A s : TotalOf(reservations', s) =
                   TotalOf(reservations, s) + (IF to = s THEN amount ELSE 0)
                      - (IF id \in DOMAIN reservations /\ from = s THEN amount ELSE 0)
  <2>1. IsFiniteSet(DOMAIN reservations')
        BY <1>2, <1>8, FS_AddElement DEF Records
  <2>2. RecordsOK(reservations')
        BY <1>1, <2>1 DEF RecordsOK, IInv, TypeOK
  <2> QED BY <1>3, <1>8, <2>1, <2>2, RecordMoves
<1>9. ASSUME NEW id \in ReservationIds, NEW amount \in Amounts, TryReserve(id, amount),
             ~UNCHANGED <<reserved, committed, reservations>>
      PROVE  /\ IsFiniteSet(DOMAIN reservations')
             /\ reserved' = TotalOf(reservations', "reserved")
             /\ committed' = TotalOf(reservations', "confirmed")
  <2>1. /\ id \notin DOMAIN reservations /\ amount \in Int
        /\ reserved' = reserved + amount /\ committed' = committed
        /\ reservations' = With(reservations, id, [amount |-> amount, state |-> "reserved"])
        BY <1>9, AmountsAssumption DEF TryReserve, Known
  <2>2. Records(reservations, reservations', id, amount, "none", "reserved")
        BY <2>1 DEF Records, With
  <2>3. /\ IsFiniteSet(DOMAIN reservations')
        /\ \A s : TotalOf(reservations', s) =
              TotalOf(reservations, s) + (IF "reserved" = s THEN amount ELSE 0)
                 - (IF id \in DOMAIN reservations /\ "none" = s THEN amount ELSE 0)
        BY <1>8, <2>1, <2>2
  <2> QED BY <1>4, <1>5, <2>1, <2>3
<1>10. ASSUME NEW id \in ReservationIds, Confirm(id) \/ Cancel(id),
             ~UNCHANGED <<reserved, committed, reservations>>
      PROVE  /\ IsFiniteSet(DOMAIN reservations')
             /\ reserved' = TotalOf(reservations', "reserved")
             /\ committed' = TotalOf(reservations', "confirmed")
  <2>1. PICK r : r = reservations[id]
        OBVIOUS
  <2>2. /\ id \in DOMAIN reservations /\ r.state = "reserved"
        /\ reserved' = reserved - r.amount
        /\ \/ /\ committed' = committed + r.amount
              /\ reservations' = [reservations EXCEPT ![id].state = "confirmed"]
           \/ /\ committed' = committed
              /\ reservations' = [reservations EXCEPT ![id].state = "cancelled"]
        BY <1>10, <2>1 DEF Confirm, Cancel, InState, Known
  <2>3. r \in Reservation /\ r.amount \in Int
        BY <1>3, <2>1, <2>2 DEF RecordsOK, Reservation
  <2>4. PICK n : n = r.amount
        OBVIOUS
  <2>5. ASSUME NEW to, reservations' = [reservations EXCEPT ![id].state = to]
        PROVE  /\ IsFiniteSet(DOMAIN reservations')
               /\ \A s : TotalOf(reservations', s) =
                     TotalOf(reservations, s) + (IF to = s THEN n ELSE 0)
                        - (IF id \in DOMAIN reservations /\ "reserved" = s THEN n ELSE 0)
    <3>1. reservations' = [reservations EXCEPT ![id] = [r EXCEPT !.state = to]]
          BY <2>1, <2>2, <2>5
    <3>2. [r EXCEPT !.state = to].amount = n /\ [r EXCEPT !.state = to].state = to
          BY <2>3, <2>4 DEF Reservation
    <3>3. Records(reservations, reservations', id, n, "reserved", to)
          BY <2>1, <2>2, <2>4, <3>1, <3>2 DEF Records
    <3>4. n \in Int
          BY <2>3, <2>4
    <3> QED BY <1>8, <3>3, <3>4
  <2>6. n \in Int /\ reserved' = reserved - n
        BY <2>2, <2>3, <2>4
  <2>7. CASE /\ committed' = committed + r.amount
             /\ reservations' = [reservations EXCEPT ![id].state = "confirmed"]
    <3>1. /\ IsFiniteSet(DOMAIN reservations')
          /\ \A s : TotalOf(reservations', s) =
                TotalOf(reservations, s) + (IF "confirmed" = s THEN n ELSE 0)
                   - (IF id \in DOMAIN reservations /\ "reserved" = s THEN n ELSE 0)
          BY <2>5, <2>7
    <3>2. /\ TotalOf(reservations', "reserved") = TotalOf(reservations, "reserved") - n
          /\ TotalOf(reservations', "confirmed") = TotalOf(reservations, "confirmed") + n
          BY <1>4, <2>2, <2>6, <3>1
    <3> QED BY <1>5, <2>4, <2>6, <2>7, <3>1, <3>2
  <2>8. CASE /\ committed' = committed
             /\ reservations' = [reservations EXCEPT ![id].state = "cancelled"]
    <3>1. /\ IsFiniteSet(DOMAIN reservations')
          /\ \A s : TotalOf(reservations', s) =
                TotalOf(reservations, s) + (IF "cancelled" = s THEN n ELSE 0)
                   - (IF id \in DOMAIN reservations /\ "reserved" = s THEN n ELSE 0)
          BY <2>5, <2>8
    <3>2. /\ TotalOf(reservations', "reserved") = TotalOf(reservations, "reserved") - n
          /\ TotalOf(reservations', "confirmed") = TotalOf(reservations, "confirmed")
          BY <1>4, <2>2, <2>6, <3>1
    <3> QED BY <1>5, <2>6, <2>8, <3>1, <3>2
  <2> QED BY <2>2, <2>7, <2>8
<1> QED BY <1>7, <1>9, <1>10 DEF Next, vars

\* In every state what is reserved and what is committed is the sum of the
\* amounts of the records that say so, and nothing is overdrawn.
THEOREM BalancesAreRecorded == Spec => []BalancesMatchRecords
<1>1. RecordsInv => BalancesMatchRecords
      BY DEF RecordsInv
<1> QED BY <1>1, InitRecords, NextRecords, PTL DEF Spec

-----------------------------------------------------------------------------
(* Sagas.                                                                    *)

AllNames == UNION {NamesOf[s] : s \in Sagas}
StepRecords == [name : AllNames, id : ReservationIds, amount : Amounts]
Phases == {"building", "running", "compensating", "committed", "failed"}
Reports == [completed : Seq(AllNames), compensated : Seq(AllNames), failed : AllNames \cup {NoName}]

SagaTypes ==
    /\ steps \in [Sagas -> Seq(StepRecords)]
    /\ phase \in [Sagas -> Phases]
    /\ report \in [Sagas -> Reports]
    /\ undo \in [Sagas -> Nat]
    /\ late \subseteq ReservationIds

\* The state of a reservation in the records rs.
StateOf(rs, id) == IF id \in DOMAIN rs THEN rs[id].state ELSE "none"

(* What holds of a saga s with steps st, in phase ph, with report rep, un     *)
(* completed steps to undo, when lt are the tries given up on and rs the      *)
(* wallet's records.                                                          *)

\* Its steps are those it was given, in their order.
StepsOK(s, st) ==
    /\ Len(st) <= Len(IdsOf[s])
    /\ \A k \in 1..Len(st) : st[k].id = IdsOf[s][k]

\* The report's completed steps are its first ones.
CompletedOK(st, ph, rep) ==
    /\ Len(rep.completed) <= Len(st)
    /\ \A k \in 1..Len(rep.completed) : rep.completed[k] = st[k].name
    /\ ph = "building" => rep.completed = << >>
    /\ ph = "committed" => Len(rep.completed) = Len(st)

\* Completed steps from the last down to number un + 1 have been compensated.
Undone(rep, un) ==
    /\ un <= Len(rep.completed)
    /\ Len(rep.compensated) = Len(rep.completed) - un
    /\ \A i \in 1..Len(rep.compensated) :
          rep.compensated[i] = rep.completed[Len(rep.completed) + 1 - i]

CompensatedOK(ph, rep, un) ==
    /\ ph \in {"building", "running"} => rep.compensated = << >>
    /\ ph = "compensating" => Undone(rep, un)
    /\ ph = "failed" => Undone(rep, 0)

\* While it runs and when it has committed, a saga has the reservations of its
\* completed steps.
KeptOK(s, ph, rep, rs) ==
    ph \in {"running", "committed"} =>
        \A k \in 1..Len(rep.completed) : StateOf(rs, IdsOf[s][k]) \in {"reserved", "confirmed"}

\* Steps st have names that tell them apart.
Distinct(st) == \A j, k \in DOMAIN st : st[j].name = st[k].name => j = k

\* Whatever of a saga's is reserved belongs to a completed step, one not undone
\* yet, or to a try given up on.
Accounted(s, k, ph, rep, un, lt) ==
    \/ IdsOf[s][k] \in lt
    \/ ph \in {"running", "committed"} /\ k <= Len(rep.completed)
    \/ ph = "compensating" /\ k <= un

FreedOK(s, st, ph, rep, un, lt, rs) ==
    Distinct(st) =>
        \A k \in 1..Len(IdsOf[s]) :
            StateOf(rs, IdsOf[s][k]) = "reserved" => Accounted(s, k, ph, rep, un, lt)

\* The first three parts concern the saga alone, the others the wallet too.
BaseOK(s, st, ph, rep, un) ==
    StepsOK(s, st) /\ CompletedOK(st, ph, rep) /\ CompensatedOK(ph, rep, un)

BaseInv ==
    SagaTypes /\ \A s \in Sagas : BaseOK(s, steps[s], phase[s], report[s], undo[s])

-----------------------------------------------------------------------------
(* What a step of a saga does to the saga.                                   *)

\* Saga s moves on to the given values; the other sagas stay.
Moves(s, st, ph, rep, un) ==
    /\ steps' = [steps EXCEPT ![s] = st]
    /\ phase' = [phase EXCEPT ![s] = ph]
    /\ report' = [report EXCEPT ![s] = rep]
    /\ undo' = [undo EXCEPT ![s] = un]

\* The given values are typed and satisfy the invariant.
Fits(s, st, ph, rep, un) ==
    /\ st \in Seq(StepRecords) /\ ph \in Phases /\ rep \in Reports /\ un \in Nat
    /\ BaseOK(s, st, ph, rep, un)

\* A step to values that satisfy the invariant preserves it.
LEMMA MoveKeepsBase ==
    ASSUME BaseInv, NEW s \in Sagas, NEW st, NEW ph, NEW rep, NEW un, Moves(s, st, ph, rep, un),
           Fits(s, st, ph, rep, un), late' \subseteq ReservationIds
    PROVE  BaseInv'
<1>1. SagaTypes'
      BY DEF BaseInv, SagaTypes, Moves, Fits
<1>2. ASSUME NEW t \in Sagas PROVE BaseOK(t, steps'[t], phase'[t], report'[t], undo'[t])
  <2>1. CASE t = s
    <3>1. steps'[t] = st /\ phase'[t] = ph /\ report'[t] = rep /\ undo'[t] = un
          BY <2>1 DEF BaseInv, SagaTypes, Moves
    <3> QED BY <2>1, <3>1 DEF Fits
  <2>2. CASE t # s
    <3>1. steps'[t] = steps[t] /\ phase'[t] = phase[t] /\ report'[t] = report[t] /\ undo'[t] = undo[t]
          BY <2>2 DEF BaseInv, SagaTypes, Moves
    <3> QED BY <3>1 DEF BaseInv
  <2> QED BY <2>1, <2>2
<1> QED BY <1>1, <1>2 DEF BaseInv

\* Values that do not change.
LEMMA Unmoved ==
    ASSUME SagaTypes, NEW s \in Sagas
    PROVE  /\ steps = [steps EXCEPT ![s] = steps[s]]
           /\ phase = [phase EXCEPT ![s] = phase[s]]
           /\ report = [report EXCEPT ![s] = report[s]]
           /\ undo = [undo EXCEPT ![s] = undo[s]]
  BY DEF SagaTypes

\* A saga in an invariant state, by parts.
LEMMA SagaParts ==
    ASSUME BaseInv, NEW s \in Sagas
    PROVE  /\ Fits(s, steps[s], phase[s], report[s], undo[s])
           /\ report[s].completed \in Seq(AllNames) /\ report[s].compensated \in Seq(AllNames)
           /\ Len(steps[s]) \in Nat /\ Len(report[s].completed) \in Nat
           /\ Len(report[s].compensated) \in Nat
<1>1. Fits(s, steps[s], phase[s], report[s], undo[s])
      BY DEF BaseInv, SagaTypes, Fits
<1>2. report[s].completed \in Seq(AllNames) /\ report[s].compensated \in Seq(AllNames)
      BY <1>1 DEF Fits, Reports
<1> QED BY <1>1, <1>2, LenProperties DEF Fits

\* add_step.
LEMMA AddStepMoves ==
    ASSUME BaseInv, NEW s \in Sagas, NEW name \in NamesOf[s], AddStep(s, name)
    PROVE  \E st : /\ Moves(s, st, phase[s], report[s], undo[s])
                   /\ Fits(s, st, phase[s], report[s], undo[s])
                   /\ Len(st) = Len(steps[s]) + 1
                   /\ \A k \in 1..Len(steps[s]) : st[k] = steps[s][k]
<1>1. PICK old : old = steps[s]
      OBVIOUS
<1>2. PICK n : n = Len(old)
      OBVIOUS
<1>3. PICK r : r = [name |-> name, id |-> IdsOf[s][n + 1], amount |-> AmountOf[IdsOf[s][n + 1]]]
      OBVIOUS
<1>4. PICK st : st = Append(old, r)
      OBVIOUS
<1>5. /\ Fits(s, old, phase[s], report[s], undo[s])
      /\ old \in Seq(StepRecords) /\ n \in Nat
      /\ report[s].completed \in Seq(AllNames)
      BY <1>1, <1>2, SagaParts DEF Fits
<1>6. /\ phase[s] = "building" /\ n + 1 <= Len(IdsOf[s])
      /\ steps' = [steps EXCEPT ![s] = st] /\ phase' = phase /\ report' = report /\ undo' = undo
  <2>1. DOMAIN steps = Sagas
        BY DEF BaseInv, SagaTypes
  <2> QED BY <1>1, <1>2, <1>3, <1>4, <2>1 DEF AddStep
<1>7. Moves(s, st, phase[s], report[s], undo[s])
      BY <1>6, Unmoved DEF BaseInv, Moves
<1>8. IdsOf[s] \in Seq(ReservationIds) /\ n + 1 \in 1..Len(IdsOf[s])
      BY <1>5, <1>6, SagaAssumption, LenProperties
<1>9. IdsOf[s][n + 1] \in ReservationIds
      BY <1>8, ElementOfSeq
<1>10. AmountOf[IdsOf[s][n + 1]] \in Amounts
      BY <1>9, SagaAssumption
<1>11. r \in StepRecords /\ r.id = IdsOf[s][n + 1]
      BY <1>3, <1>9, <1>10 DEF StepRecords, AllNames
<1>12. /\ st \in Seq(StepRecords) /\ Len(st) = n + 1
       /\ \A k \in 1..n : st[k] = old[k]
       /\ st[n + 1] = r
      BY <1>2, <1>4, <1>5, <1>11, AppendProperties
<1>13. StepsOK(s, st)
  <2>1. StepsOK(s, old)
        BY <1>5 DEF Fits, BaseOK
  <2>2. \A k \in 1..n + 1 : st[k].id = IdsOf[s][k]
    <3> TAKE k \in 1..n + 1
    <3>1. CASE k \in 1..n
          BY <1>2, <1>12, <2>1, <3>1 DEF StepsOK
    <3>2. CASE k = n + 1
          BY <1>11, <1>12, <3>2
    <3> QED BY <1>5, <3>1, <3>2
  <2> QED BY <1>6, <1>12, <2>2 DEF StepsOK
<1>14. CompletedOK(st, phase[s], report[s])
  <2>1. report[s].completed = << >>
        BY <1>5, <1>6 DEF Fits, BaseOK, CompletedOK
  <2>2. Len(report[s].completed) = 0
        BY <2>1
  <2> QED BY <1>5, <1>6, <1>12, <2>1, <2>2 DEF CompletedOK
<1>15. Fits(s, st, phase[s], report[s], undo[s])
      BY <1>5, <1>12, <1>13, <1>14 DEF Fits, BaseOK
<1> QED BY <1>1, <1>2, <1>7, <1>12, <1>15

\* execute starts.
LEMMA ExecuteMoves ==
    ASSUME BaseInv, NEW s \in Sagas, Execute(s)
    PROVE  /\ Moves(s, steps[s], "running", EmptyReport, undo[s])
           /\ Fits(s, steps[s], "running", EmptyReport, undo[s])
<1>1. Moves(s, steps[s], "running", EmptyReport, undo[s])
      BY Unmoved DEF BaseInv, Moves, Execute, Goto
<1>2. /\ EmptyReport \in Reports /\ EmptyReport.completed = << >>
      /\ EmptyReport.compensated = << >> /\ Len(EmptyReport.completed) = 0
      BY DEF EmptyReport, Reports
<1>3. Fits(s, steps[s], phase[s], report[s], undo[s]) /\ Len(steps[s]) \in Nat
      BY SagaParts
<1>4. CompletedOK(steps[s], "running", EmptyReport) /\ CompensatedOK("running", EmptyReport, undo[s])
      BY <1>2, <1>3 DEF CompletedOK, CompensatedOK
<1> QED BY <1>1, <1>2, <1>3, <1>4 DEF Fits, BaseOK, Phases

\* The step that execute is at.
LEMMA CurrentStep ==
    ASSUME BaseInv, NEW s \in Sagas, Running(s)
    PROVE  /\ Current(s) \in 1..Len(steps[s]) /\ Current(s) = Len(report[s].completed) + 1
           /\ steps[s][Current(s)] \in StepRecords
           /\ steps[s][Current(s)].id = IdsOf[s][Current(s)]
           /\ Current(s) \in 1..Len(IdsOf[s])
<1>1. /\ Fits(s, steps[s], phase[s], report[s], undo[s])
      /\ Len(steps[s]) \in Nat /\ Len(report[s].completed) \in Nat
      BY SagaParts
<1>2. Current(s) \in 1..Len(steps[s]) /\ Current(s) = Len(report[s].completed) + 1
      BY <1>1 DEF Running, Current
<1>3. steps[s][Current(s)] \in StepRecords
      BY <1>1, <1>2, ElementOfSeq DEF Fits
<1>4. IdsOf[s] \in Seq(ReservationIds) /\ Len(IdsOf[s]) \in Nat
      BY SagaAssumption, LenProperties
<1> QED BY <1>1, <1>2, <1>3, <1>4 DEF Fits, BaseOK, StepsOK

\* The saga's step succeeds.
LEMMA CompleteMoves ==
    ASSUME BaseInv, NEW s \in Sagas, Running(s), Complete(s)
    PROVE  \E rep : /\ Moves(s, steps[s], "running", rep, undo[s])
                    /\ Fits(s, steps[s], "running", rep, undo[s])
                    /\ Len(rep.completed) = Current(s)
<1>1. PICK old : old = report[s]
      OBVIOUS
<1>2. PICK name : name = steps[s][Current(s)].name
      OBVIOUS
<1>3. PICK done : done = Append(old.completed, name)
      OBVIOUS
<1>4. PICK rep : rep = [old EXCEPT !.completed = done]
      OBVIOUS
<1>5. PICK n : n = Len(old.completed)
      OBVIOUS
<1>6. /\ Fits(s, steps[s], phase[s], old, undo[s]) /\ old \in Reports
      /\ old.completed \in Seq(AllNames) /\ n \in Nat /\ Len(steps[s]) \in Nat
      BY <1>1, <1>5, SagaParts DEF Fits
<1>7. /\ Current(s) = n + 1 /\ n + 1 <= Len(steps[s]) /\ name \in AllNames
      /\ phase[s] = "running"
      BY <1>1, <1>2, <1>5, <1>6, CurrentStep DEF StepRecords, Running
<1>8. /\ done \in Seq(AllNames) /\ Len(done) = n + 1
      /\ (\A k \in 1..n : done[k] = old.completed[k]) /\ done[n + 1] = name
      BY <1>3, <1>5, <1>6, <1>7, AppendProperties
<1>9. rep \in Reports /\ rep.completed = done /\ rep.compensated = old.compensated
      BY <1>4, <1>6, <1>8 DEF Reports
<1>10. report' = [report EXCEPT ![s] = rep]
  <2>1. report \in [Sagas -> Reports]
        BY DEF BaseInv, SagaTypes
  <2> QED BY <1>1, <1>2, <1>3, <1>4, <2>1 DEF Complete
<1>11. Moves(s, steps[s], "running", rep, undo[s])
      BY <1>7, <1>10, Unmoved DEF BaseInv, Moves, Complete
<1>12. CompletedOK(steps[s], "running", rep)
  <2>1. \A k \in 1..n + 1 : done[k] = steps[s][k].name
    <3> TAKE k \in 1..n + 1
    <3>1. CASE k \in 1..n
          BY <1>5, <1>6, <1>8, <3>1 DEF Fits, BaseOK, CompletedOK
    <3>2. CASE k = n + 1
          BY <1>2, <1>7, <1>8, <3>2
    <3> QED BY <1>6, <3>1, <3>2
  <2> QED BY <1>7, <1>8, <1>9, <2>1 DEF CompletedOK
<1>13. CompensatedOK("running", rep, undo[s])
      BY <1>6, <1>7, <1>9 DEF Fits, BaseOK, CompensatedOK
<1>14. Fits(s, steps[s], "running", rep, undo[s])
      BY <1>6, <1>9, <1>12, <1>13 DEF Fits, BaseOK, Phases
<1>15. Len(rep.completed) = Current(s)
      BY <1>7, <1>8, <1>9
<1> QED BY <1>11, <1>14, <1>15

\* The saga's step fails or times out.
LEMMA FailMoves ==
    ASSUME BaseInv, NEW s \in Sagas, Running(s), Fail(s)
    PROVE  \E rep : /\ Moves(s, steps[s], "compensating", rep, Len(report[s].completed))
                    /\ Fits(s, steps[s], "compensating", rep, Len(report[s].completed))
                    /\ rep.completed = report[s].completed
<1>1. PICK old : old = report[s]
      OBVIOUS
<1>2. PICK name : name = steps[s][Current(s)].name
      OBVIOUS
<1>3. PICK rep : rep = [old EXCEPT !.failed = name]
      OBVIOUS
<1>4. PICK n : n = Len(old.completed)
      OBVIOUS
<1>5. /\ Fits(s, steps[s], phase[s], old, undo[s]) /\ old \in Reports
      /\ old.completed \in Seq(AllNames) /\ n \in Nat
      BY <1>1, <1>4, SagaParts DEF Fits
<1>6. name \in AllNames /\ phase[s] = "running"
      BY <1>2, CurrentStep DEF StepRecords, Running
<1>7. rep \in Reports /\ rep.completed = old.completed /\ rep.compensated = old.compensated
      BY <1>3, <1>5, <1>6 DEF Reports
<1>8. report' = [report EXCEPT ![s] = rep]
  <2>1. report \in [Sagas -> Reports]
        BY DEF BaseInv, SagaTypes
  <2> QED BY <1>1, <1>2, <1>3, <2>1 DEF Fail
<1>9. Moves(s, steps[s], "compensating", rep, n)
      BY <1>1, <1>4, <1>8, Unmoved DEF BaseInv, Moves, Fail, Goto
<1>10. CompletedOK(steps[s], "compensating", rep)
      BY <1>5, <1>7 DEF Fits, BaseOK, CompletedOK
<1>11. CompensatedOK("compensating", rep, n)
  <2>1. rep.compensated = << >> /\ Len(rep.compensated) = 0
        BY <1>5, <1>6, <1>7 DEF Fits, BaseOK, CompensatedOK
  <2>2. Undone(rep, n)
        BY <1>4, <1>5, <1>7, <2>1 DEF Undone
  <2> QED BY <2>2 DEF CompensatedOK
<1>12. Fits(s, steps[s], "compensating", rep, n)
      BY <1>5, <1>7, <1>10, <1>11 DEF Fits, BaseOK, Phases
<1> QED BY <1>1, <1>4, <1>7, <1>9, <1>12

\* execute returns with every step completed.
LEMMA CommitMoves ==
    ASSUME BaseInv, NEW s \in Sagas, Commit(s)
    PROVE  /\ Moves(s, steps[s], "committed", report[s], undo[s])
           /\ Fits(s, steps[s], "committed", report[s], undo[s])
<1>1. Moves(s, steps[s], "committed", report[s], undo[s])
      BY Unmoved DEF BaseInv, Moves, Commit, Goto
<1>2. /\ Fits(s, steps[s], phase[s], report[s], undo[s])
      /\ Len(steps[s]) \in Nat /\ Len(report[s].completed) \in Nat
      BY SagaParts
<1>3. Len(report[s].completed) = Len(steps[s])
      BY <1>2 DEF Commit, Current, Fits, BaseOK, CompletedOK
<1>4. CompletedOK(steps[s], "committed", report[s]) /\ CompensatedOK("committed", report[s], undo[s])
      BY <1>2, <1>3 DEF Fits, BaseOK, CompletedOK, CompensatedOK
<1> QED BY <1>1, <1>2, <1>4 DEF Fits, BaseOK, Phases

\* execute returns after its compensations.
LEMMA ReturnMoves ==
    ASSUME BaseInv, NEW s \in Sagas, Return(s)
    PROVE  /\ Moves(s, steps[s], "failed", report[s], undo[s])
           /\ Fits(s, steps[s], "failed", report[s], undo[s])
<1>1. Moves(s, steps[s], "failed", report[s], undo[s])
      BY Unmoved DEF BaseInv, Moves, Return, Goto
<1>2. Fits(s, steps[s], phase[s], report[s], undo[s])
      BY SagaParts
<1>3. phase[s] = "compensating" /\ undo[s] = 0
      BY DEF Return
<1>4. CompletedOK(steps[s], "failed", report[s]) /\ CompensatedOK("failed", report[s], undo[s])
      BY <1>2, <1>3 DEF Fits, BaseOK, CompletedOK, CompensatedOK
<1> QED BY <1>1, <1>2, <1>4 DEF Fits, BaseOK, Phases

\* The step whose compensation is called: the first with the name of the one
\* to undo.
Named(st, name) == SelectInSeq(st, LAMBDA step : step.name = name)

\* It is a step, and the one to undo if the names tell the steps apart.
LEMMA NamedStep ==
    ASSUME NEW st \in Seq(StepRecords), NEW k \in 1..Len(st)
    PROVE  /\ Named(st, st[k].name) \in 1..Len(st)
           /\ Distinct(st) => Named(st, st[k].name) = k
<1>1. PICK I : I = {i \in 1..Len(st) : st[i].name = st[k].name}
      OBVIOUS
<1>2. k \in I /\ I \in SUBSET Nat /\ I # {}
      BY <1>1
<1>3. \E x \in I : \A y \in I : x <= y
      BY <1>2, LeastNumber
<1>4. Min(I) \in I
      BY <1>3 DEF Min
<1>5. Named(st, st[k].name) = Min(I)
      BY <1>1, <1>2 DEF Named, SelectInSeq
<1>6. Distinct(st) => I = {k}
      BY <1>1 DEF Distinct
<1> QED BY <1>1, <1>4, <1>5, <1>6

\* One turn of compensate.
LEMMA CompensateMoves ==
    ASSUME BaseInv, NEW s \in Sagas, Compensate(s)
    PROVE  \E rep, k :
              /\ Moves(s, steps[s], "compensating", rep, undo[s] - 1)
              /\ Fits(s, steps[s], "compensating", rep, undo[s] - 1)
              /\ k \in 1..Len(steps[s])
              /\ Distinct(steps[s]) => k = undo[s]
              /\ Cancel(steps[s][k].id)
              /\ phase[s] = "compensating"
<1>1. PICK old : old = report[s]
      OBVIOUS
<1>2. PICK un : un = undo[s]
      OBVIOUS
<1>3. PICK name : name = old.completed[un]
      OBVIOUS
<1>4. PICK undone : undone = Append(old.compensated, name)
      OBVIOUS
<1>5. PICK rep : rep = [old EXCEPT !.compensated = undone]
      OBVIOUS
<1>6. PICK n : n = Len(old.completed)
      OBVIOUS
<1>7. PICK k : k = Named(steps[s], name)
      OBVIOUS
<1>8. /\ Fits(s, steps[s], phase[s], old, un) /\ old \in Reports
      /\ old.completed \in Seq(AllNames) /\ old.compensated \in Seq(AllNames)
      /\ n \in Nat /\ Len(old.compensated) \in Nat /\ un \in Nat /\ Len(steps[s]) \in Nat
      /\ steps[s] \in Seq(StepRecords)
      BY <1>1, <1>2, <1>6, SagaParts DEF Fits
<1>9. phase[s] = "compensating" /\ un > 0
      BY <1>2 DEF Compensate
<1>10. Undone(old, un) /\ un \in 1..n /\ un \in 1..Len(steps[s]) /\ name = steps[s][un].name
      BY <1>3, <1>6, <1>8, <1>9 DEF Fits, BaseOK, CompensatedOK, CompletedOK, Undone
<1>11. k \in 1..Len(steps[s]) /\ (Distinct(steps[s]) => k = un)
      BY <1>7, <1>8, <1>10, NamedStep
<1>12. Cancel(steps[s][k].id) /\ report' = [report EXCEPT ![s].compensated = Append(@, name)]
      BY <1>1, <1>2, <1>3, <1>7 DEF Compensate, Named
<1>13. name \in AllNames
      BY <1>3, <1>6, <1>8, <1>10, ElementOfSeq
<1>14. /\ undone \in Seq(AllNames) /\ Len(undone) = Len(old.compensated) + 1
       /\ \A i \in 1..Len(old.compensated) : undone[i] = old.compensated[i]
       /\ undone[Len(old.compensated) + 1] = name
      BY <1>4, <1>8, <1>13, AppendProperties
<1>15. rep \in Reports /\ rep.completed = old.completed /\ rep.compensated = undone
      BY <1>5, <1>8, <1>14 DEF Reports
<1>16. report' = [report EXCEPT ![s] = rep]
  <2>1. report \in [Sagas -> Reports]
        BY DEF BaseInv, SagaTypes
  <2> QED BY <1>1, <1>4, <1>5, <1>12, <2>1
<1>17. Moves(s, steps[s], "compensating", rep, un - 1)
  <2>1. undo' = [undo EXCEPT ![s] = un - 1] /\ steps' = steps /\ phase' = phase
    <3>1. DOMAIN undo = Sagas
          BY DEF BaseInv, SagaTypes
    <3> QED BY <1>2, <3>1 DEF Compensate
  <2> QED BY <1>9, <1>16, <2>1, Unmoved DEF BaseInv, Moves
<1>18. CompletedOK(steps[s], "compensating", rep)
      BY <1>8, <1>15 DEF Fits, BaseOK, CompletedOK
<1>19. Undone(rep, un - 1)
  <2>1. Len(old.compensated) = n - un
        BY <1>6, <1>10 DEF Undone
  <2>2. ASSUME NEW i \in 1..Len(undone) PROVE undone[i] = old.completed[n + 1 - i]
    <3>1. CASE i \in 1..Len(old.compensated)
          BY <1>6, <1>10, <1>14, <3>1 DEF Undone
    <3>2. CASE i = Len(old.compensated) + 1
      <4>1. n + 1 - i = un
            BY <1>8, <2>1, <3>2
      <4> QED BY <1>3, <1>14, <3>2, <4>1
    <3> QED BY <1>8, <1>14, <3>1, <3>2
  <2>3. un - 1 <= n /\ Len(undone) = n - (un - 1)
        BY <1>8, <1>10, <1>14, <2>1
  <2> QED BY <1>6, <1>15, <2>2, <2>3 DEF Undone
<1>20. CompensatedOK("compensating", rep, un - 1)
      BY <1>19 DEF CompensatedOK
<1>21. Fits(s, steps[s], "compensating", rep, un - 1)
      BY <1>8, <1>9, <1>15, <1>18, <1>20 DEF Fits, BaseOK, Phases
<1> QED BY <1>2, <1>9, <1>11, <1>12, <1>17, <1>21

-----------------------------------------------------------------------------
(* The sagas alone, and their calls of the wallet.                           *)

\* No saga has been built.
LEMMA InitBase == SagaInit => BaseInv
<1> SUFFICES ASSUME SagaInit PROVE BaseInv
    OBVIOUS
<1>1. /\ EmptyReport \in Reports /\ EmptyReport.completed = << >>
      /\ EmptyReport.compensated = << >>
      BY DEF EmptyReport, Reports
<1>2. SagaTypes
      BY <1>1 DEF SagaInit, SagaTypes, Phases
<1>3. ASSUME NEW s \in Sagas PROVE BaseOK(s, steps[s], phase[s], report[s], undo[s])
  <2>1. steps[s] = << >> /\ phase[s] = "building" /\ report[s] = EmptyReport
        BY DEF SagaInit
  <2>2. IdsOf[s] \in Seq(ReservationIds) /\ Len(IdsOf[s]) \in Nat
        BY SagaAssumption, LenProperties
  <2> QED BY <1>1, <2>1, <2>2 DEF BaseOK, StepsOK, CompletedOK, CompensatedOK
<1> QED BY <1>2, <1>3 DEF BaseInv

\* Steps that are the wallet's alone leave the sagas as they are.
LEMMA StillBase ==
    ASSUME BaseInv, UNCHANGED <<steps, phase, report, undo, late>>
    PROVE  BaseInv'
  BY DEF BaseInv, SagaTypes

\* Every step preserves what holds of the sagas alone.
LEMMA NextBase == BaseInv /\ [SagaNext]_allVars => BaseInv'
<1> SUFFICES ASSUME BaseInv, [SagaNext]_allVars PROVE BaseInv'
    OBVIOUS
<1>1. late \subseteq ReservationIds
      BY DEF BaseInv, SagaTypes
<1>2. CASE UNCHANGED <<steps, phase, report, undo, late>>
      BY <1>2, StillBase
<1>3. ASSUME NEW s \in Sagas, NEW name \in NamesOf[s], AddStep(s, name) PROVE BaseInv'
  <2>1. late' = late
        BY <1>3 DEF AddStep
  <2> QED BY <1>1, <1>3, <2>1, AddStepMoves, MoveKeepsBase
<1>4. ASSUME NEW s \in Sagas, Execute(s) PROVE BaseInv'
  <2>1. late' = late
        BY <1>4 DEF Execute
  <2> QED BY <1>1, <1>4, <2>1, ExecuteMoves, MoveKeepsBase
<1>5. ASSUME NEW s \in Sagas, RunStep(s) PROVE BaseInv'
  <2>1. late' = late /\ Running(s) /\ (Complete(s) \/ Fail(s))
        BY <1>5 DEF RunStep
  <2> QED BY <1>1, <2>1, CompleteMoves, FailMoves, MoveKeepsBase
<1>6. ASSUME NEW s \in Sagas, StepTimesOut(s) PROVE BaseInv'
  <2>1. Running(s) /\ Fail(s) /\ late' = late \cup {steps[s][Current(s)].id}
        BY <1>6 DEF StepTimesOut
  <2>2. steps[s][Current(s)].id \in ReservationIds
        BY <2>1, CurrentStep DEF StepRecords
  <2>3. late' \subseteq ReservationIds
        BY <1>1, <2>1, <2>2
  <2> QED BY <2>1, <2>3, FailMoves, MoveKeepsBase
<1>7. ASSUME NEW s \in Sagas, Commit(s) PROVE BaseInv'
  <2>1. late' = late
        BY <1>7 DEF Commit
  <2> QED BY <1>1, <1>7, <2>1, CommitMoves, MoveKeepsBase
<1>8. ASSUME NEW s \in Sagas, Compensate(s) PROVE BaseInv'
  <2>1. late' = late
        BY <1>8 DEF Compensate
  <2> QED BY <1>1, <1>8, <2>1, CompensateMoves, MoveKeepsBase
<1>9. ASSUME NEW s \in Sagas, Return(s) PROVE BaseInv'
  <2>1. late' = late
        BY <1>9 DEF Return
  <2> QED BY <1>1, <1>9, <2>1, ReturnMoves, MoveKeepsBase
<1>10. ASSUME NEW s \in Sagas, ConfirmStep(s) PROVE BaseInv'
      BY <1>2, <1>10 DEF ConfirmStep, sagaVars
<1>11. ASSUME NEW id \in ReservationIds, LateTry(id) PROVE BaseInv'
      BY <1>2, <1>11 DEF LateTry, sagaVars
<1>12. ASSUME NEW id \in FreeIds, OtherClients(id) PROVE BaseInv'
      BY <1>2, <1>12 DEF OtherClients, sagaVars
<1>13. CASE UNCHANGED allVars
      BY <1>2, <1>13 DEF allVars, sagaVars
<1> QED BY <1>3, <1>4, <1>5, <1>6, <1>7, <1>8, <1>9, <1>10, <1>11, <1>12, <1>13 DEF SagaNext

\* Whatever a saga does, the wallet takes a step of its own or none.
LEMMA SagaStepIsWalletStep == BaseInv /\ [SagaNext]_allVars => [Next]_vars
<1> SUFFICES ASSUME BaseInv, [SagaNext]_allVars PROVE [Next]_vars
    OBVIOUS
<1>1. ASSUME UNCHANGED walletVars PROVE UNCHANGED vars
      BY <1>1 DEF walletVars, vars
<1>2. ASSUME NEW id \in ReservationIds, NEW amount \in Amounts, TryReserve(id, amount) PROVE Next
      BY <1>2 DEF Next
<1>3. ASSUME NEW id \in ReservationIds, Confirm(id) \/ Cancel(id) PROVE Next
      BY <1>3 DEF Next
<1>4. ASSUME NEW s \in Sagas, NEW name \in NamesOf[s], AddStep(s, name) PROVE UNCHANGED vars
      BY <1>1, <1>4 DEF AddStep
<1>5. ASSUME NEW s \in Sagas, Execute(s) \/ StepTimesOut(s) \/ Commit(s) \/ Return(s)
      PROVE  UNCHANGED vars
      BY <1>1, <1>5 DEF Execute, StepTimesOut, Commit, Return
<1>6. ASSUME NEW s \in Sagas, RunStep(s) PROVE Next
  <2>1. Running(s) /\ TryReserve(steps[s][Current(s)].id, steps[s][Current(s)].amount)
        BY <1>6 DEF RunStep
  <2>2. steps[s][Current(s)].id \in ReservationIds /\ steps[s][Current(s)].amount \in Amounts
        BY <2>1, CurrentStep DEF StepRecords
  <2> QED BY <1>2, <2>1, <2>2
<1>7. ASSUME NEW s \in Sagas, NEW k \in 1..Len(steps[s]) PROVE steps[s][k].id \in ReservationIds
  <2>1. steps[s] \in Seq(StepRecords)
        BY SagaParts DEF Fits
  <2>2. steps[s][k] \in StepRecords
        BY <2>1, ElementOfSeq
  <2> QED BY <2>2 DEF StepRecords
<1>8. ASSUME NEW s \in Sagas, Compensate(s) PROVE Next
  <2>1. PICK k \in 1..Len(steps[s]) : Cancel(steps[s][k].id)
        BY <1>8, CompensateMoves
  <2> QED BY <1>3, <1>7, <2>1
<1>9. ASSUME NEW s \in Sagas, ConfirmStep(s) PROVE Next
  <2>1. PICK k \in DOMAIN steps[s] : Confirm(steps[s][k].id)
        BY <1>9 DEF ConfirmStep
  <2>2. DOMAIN steps[s] = 1..Len(steps[s])
        BY SagaParts, LenProperties DEF Fits
  <2> QED BY <1>3, <1>7, <2>1, <2>2
<1>10. ASSUME NEW id \in ReservationIds, LateTry(id) PROVE Next
  <2>1. AmountOf[id] \in Amounts /\ TryReserve(id, AmountOf[id])
        BY <1>10, SagaAssumption DEF LateTry
  <2> QED BY <1>2, <2>1
<1>11. ASSUME NEW id \in FreeIds, OtherClients(id) PROVE Next
  <2>1. id \in ReservationIds
        BY SagaAssumption
  <2> QED BY <1>2, <1>3, <1>11, <2>1 DEF OtherClients
<1>12. CASE UNCHANGED allVars
      BY <1>1, <1>12 DEF allVars
<1> QED BY <1>4, <1>5, <1>6, <1>8, <1>9, <1>10, <1>11, <1>12 DEF SagaNext

\* The wallet that sagas and other clients share behaves as a wallet alone:
\* the composition implements the wallet's own specification.
THEOREM SagaImplementsWallet == SagaSpec => Spec
<1>1. SagaInit => Init
      BY DEF SagaInit
<1> QED BY <1>1, InitBase, NextBase, SagaStepIsWalletStep, PTL DEF SagaSpec, Spec

\* So no saga, late try or other client makes or loses funds.
THEOREM SagaConservesFunds == SagaSpec => []FundsConserved
  BY SagaImplementsWallet, Conservation, PTL

\* The balances under sagas are what the records say, and none is overdrawn.
THEOREM SagaBalancesAreRecorded == SagaSpec => []BalancesMatchRecords
  BY SagaImplementsWallet, BalancesAreRecorded, PTL

\* No retry of a saga and no late try reopens a decided reservation.
THEOREM SagaDecisionsAreFinal == SagaSpec => DecisionsAreFinal
  BY SagaImplementsWallet, Finality, PTL

-----------------------------------------------------------------------------
(* All or nothing.                                                           *)

OwnOK(s, st, ph, rep, un, lt, rs) == KeptOK(s, ph, rep, rs) /\ FreedOK(s, st, ph, rep, un, lt, rs)

OwnInv ==
    /\ IInv /\ BaseInv
    /\ \A s \in Sagas : OwnOK(s, steps[s], phase[s], report[s], undo[s], late, reservations)

\* No two steps, of one saga or of two, and no other client share a reservation.
OwnIds ==
    /\ \A s, t \in Sagas : \A j \in 1..Len(IdsOf[s]), k \in 1..Len(IdsOf[t]) :
          IdsOf[s][j] = IdsOf[t][k] => s = t /\ j = k
    /\ \A s \in Sagas : \A k \in 1..Len(IdsOf[s]) : IdsOf[s][k] \notin FreeIds

\* The records of every reservation but id's are the same.
Elsewhere(rs, rs2, id) == \A x : x # id => StateOf(rs2, x) = StateOf(rs, x)

\* try_reserve: it succeeds with a reservation, or it changes nothing.
LEMMA TryEffect ==
    ASSUME NEW id, NEW amount, TryReserve(id, amount)
    PROVE  /\ Elsewhere(reservations, reservations', id)
           /\ \/ StateOf(reservations', id) = StateOf(reservations, id)
              \/ StateOf(reservations, id) = "none" /\ StateOf(reservations', id) = "reserved"
           /\ answer' => StateOf(reservations', id) = "reserved"
           /\ ~answer' => reservations' = reservations
<1>1. CASE Known(id)
  <2>1. /\ reservations' = reservations
        /\ answer' => InState(id, "reserved")
        BY <1>1 DEF TryReserve
  <2> QED BY <2>1 DEF InState, Known, StateOf, Elsewhere
<1>2. CASE ~Known(id) /\ (amount <= 0 \/ amount > available)
  <2>1. reservations' = reservations /\ ~answer'
        BY <1>2 DEF TryReserve
  <2> QED BY <2>1 DEF StateOf, Elsewhere
<1>3. CASE ~Known(id) /\ ~(amount <= 0 \/ amount > available)
  <2>1. /\ reservations' = With(reservations, id, [amount |-> amount, state |-> "reserved"])
        /\ answer'
        BY <1>3 DEF TryReserve
  <2>2. /\ DOMAIN reservations' = DOMAIN reservations \cup {id}
        /\ \A x \in DOMAIN reservations' : reservations'[x] =
              IF x = id THEN [amount |-> amount, state |-> "reserved"] ELSE reservations[x]
        BY <2>1 DEF With
  <2>3. StateOf(reservations, id) = "none" /\ StateOf(reservations', id) = "reserved"
        BY <1>3, <2>2 DEF StateOf, Known
  <2>4. Elsewhere(reservations, reservations', id)
        BY <2>2 DEF Elsewhere, StateOf
  <2> QED BY <2>1, <2>3, <2>4
<1> QED BY <1>1, <1>2, <1>3

\* cancel: nothing is left reserved under the id.
LEMMA CancelEffect ==
    ASSUME IInv, NEW id, Cancel(id)
    PROVE  /\ Elsewhere(reservations, reservations', id)
           /\ StateOf(reservations', id) # "reserved"
<1>1. CASE InState(id, "reserved")
  <2>1. id \in DOMAIN reservations /\ reservations[id] \in Reservation
        BY <1>1 DEF InState, Known, IInv, TypeOK
  <2>2. reservations' = [reservations EXCEPT ![id].state = "cancelled"]
        BY <1>1 DEF Cancel
  <2>3. Elsewhere(reservations, reservations', id) /\ StateOf(reservations', id) = "cancelled"
    <3>1. PICK rs : rs = reservations
          OBVIOUS
    <3>2. PICK r : r = [rs[id] EXCEPT !.state = "cancelled"]
          OBVIOUS
    <3>3. PICK rs2 : rs2 = [rs EXCEPT ![id] = r]
          OBVIOUS
    <3>4. r.state = "cancelled"
          BY <2>1, <3>1, <3>2 DEF Reservation
    <3>5. Elsewhere(rs, rs2, id) /\ StateOf(rs2, id) = r.state
      <4>1. /\ DOMAIN rs2 = DOMAIN rs /\ id \in DOMAIN rs /\ rs2[id] = r
            /\ \A x \in DOMAIN rs : x # id => rs2[x] = rs[x]
            BY <2>1, <3>1, <3>3
      <4> QED BY <4>1 DEF Elsewhere, StateOf
    <3>6. reservations' = rs2
          BY <2>1, <2>2, <3>1, <3>2, <3>3
    <3> QED BY <3>1, <3>4, <3>5, <3>6
  <2> QED BY <2>3
<1>2. CASE ~InState(id, "reserved")
  <2>1. reservations' = reservations
        BY <1>2 DEF Cancel
  <2> QED BY <1>2, <2>1 DEF InState, Known, StateOf, Elsewhere
<1> QED BY <1>1, <1>2

\* confirm: what is reserved becomes confirmed.
LEMMA ConfirmEffect ==
    ASSUME IInv, NEW id, Confirm(id)
    PROVE  /\ Elsewhere(reservations, reservations', id)
           /\ \/ StateOf(reservations', id) = StateOf(reservations, id)
              \/ StateOf(reservations, id) = "reserved" /\ StateOf(reservations', id) = "confirmed"
<1>1. CASE InState(id, "reserved")
  <2>1. /\ id \in DOMAIN reservations /\ reservations[id] \in Reservation
        /\ StateOf(reservations, id) = "reserved"
        BY <1>1 DEF InState, Known, IInv, TypeOK, StateOf
  <2>2. reservations' = [reservations EXCEPT ![id].state = "confirmed"]
        BY <1>1 DEF Confirm
  <2>3. Elsewhere(reservations, reservations', id) /\ StateOf(reservations', id) = "confirmed"
    <3>1. PICK rs : rs = reservations
          OBVIOUS
    <3>2. PICK r : r = [rs[id] EXCEPT !.state = "confirmed"]
          OBVIOUS
    <3>3. PICK rs2 : rs2 = [rs EXCEPT ![id] = r]
          OBVIOUS
    <3>4. r.state = "confirmed"
          BY <2>1, <3>1, <3>2 DEF Reservation
    <3>5. Elsewhere(rs, rs2, id) /\ StateOf(rs2, id) = r.state
      <4>1. /\ DOMAIN rs2 = DOMAIN rs /\ id \in DOMAIN rs /\ rs2[id] = r
            /\ \A x \in DOMAIN rs : x # id => rs2[x] = rs[x]
            BY <2>1, <3>1, <3>3
      <4> QED BY <4>1 DEF Elsewhere, StateOf
    <3>6. reservations' = rs2
          BY <2>1, <2>2, <3>1, <3>2, <3>3
    <3> QED BY <3>1, <3>4, <3>5, <3>6
  <2> QED BY <2>1, <2>3
<1>2. CASE ~InState(id, "reserved")
  <2>1. reservations' = reservations
        BY <1>2 DEF Confirm
  <2> QED BY <2>1 DEF StateOf, Elsewhere
<1> QED BY <1>1, <1>2

\* What may happen to the records of saga s at any time: a late try reserves,
\* the caller confirms.
Harmless(s, lt, rs, rs2) ==
    \A k \in 1..Len(IdsOf[s]) :
        \/ StateOf(rs2, IdsOf[s][k]) = StateOf(rs, IdsOf[s][k])
        \/ /\ StateOf(rs, IdsOf[s][k]) = "none" /\ StateOf(rs2, IdsOf[s][k]) = "reserved"
           /\ IdsOf[s][k] \in lt
        \/ StateOf(rs, IdsOf[s][k]) = "reserved" /\ StateOf(rs2, IdsOf[s][k]) = "confirmed"

\* It does not disturb the saga.
LEMMA HarmlessKeeps ==
    ASSUME NEW s \in Sagas, NEW st, NEW ph, NEW rep, NEW un, NEW lt, NEW rs,
           OwnOK(s, st, ph, rep, un, lt, rs), Fits(s, st, ph, rep, un),
           NEW lt2, lt \subseteq lt2, NEW rs2, Harmless(s, lt2, rs, rs2)
    PROVE  OwnOK(s, st, ph, rep, un, lt2, rs2)
<1>1. 1..Len(rep.completed) \subseteq 1..Len(IdsOf[s])
  <2>1. /\ Len(rep.completed) \in Nat /\ Len(st) \in Nat /\ Len(IdsOf[s]) \in Nat
        BY SagaAssumption, LenProperties DEF Fits, Reports
  <2>2. Len(rep.completed) <= Len(st) /\ Len(st) <= Len(IdsOf[s])
        BY DEF Fits, BaseOK, StepsOK, CompletedOK
  <2> QED BY <2>1, <2>2
<1>2. KeptOK(s, ph, rep, rs2)
      BY <1>1 DEF OwnOK, KeptOK, Harmless
<1>3. FreedOK(s, st, ph, rep, un, lt2, rs2)
  <2>1. ASSUME Distinct(st), NEW k \in 1..Len(IdsOf[s]), StateOf(rs2, IdsOf[s][k]) = "reserved"
        PROVE  Accounted(s, k, ph, rep, un, lt2)
    <3>1. StateOf(rs, IdsOf[s][k]) = "reserved" \/ IdsOf[s][k] \in lt2
          BY <2>1 DEF Harmless
    <3>2. StateOf(rs, IdsOf[s][k]) = "reserved" => Accounted(s, k, ph, rep, un, lt)
          BY <2>1 DEF OwnOK, FreedOK
    <3> QED BY <3>1, <3>2 DEF Accounted
  <2> QED BY <2>1 DEF FreedOK
<1> QED BY <1>2, <1>3 DEF OwnOK

\* A step of saga s that leaves it in order and does the others no harm.
LEMMA MoveKeepsOwn ==
    ASSUME OwnInv, NEW s \in Sagas, NEW st, NEW ph, NEW rep, NEW un, Moves(s, st, ph, rep, un),
           IInv', BaseInv', late \subseteq late',
           OwnOK(s, st, ph, rep, un, late', reservations'),
           \A t \in Sagas \ {s} : Harmless(t, late', reservations, reservations')
    PROVE  OwnInv'
<1>1. ASSUME NEW t \in Sagas
      PROVE  OwnOK(t, steps'[t], phase'[t], report'[t], undo'[t], late', reservations')
  <2>1. CASE t = s
    <3>1. steps'[t] = st /\ phase'[t] = ph /\ report'[t] = rep /\ undo'[t] = un
          BY <2>1 DEF OwnInv, BaseInv, SagaTypes, Moves
    <3> QED BY <2>1, <3>1
  <2>2. CASE t # s
    <3>1. steps'[t] = steps[t] /\ phase'[t] = phase[t] /\ report'[t] = report[t] /\ undo'[t] = undo[t]
          BY <2>2 DEF OwnInv, BaseInv, SagaTypes, Moves
    <3>2. Fits(t, steps[t], phase[t], report[t], undo[t])
          BY SagaParts DEF OwnInv
    <3>3. OwnOK(t, steps[t], phase[t], report[t], undo[t], late, reservations)
          BY DEF OwnInv
    <3>4. OwnOK(t, steps[t], phase[t], report[t], undo[t], late', reservations')
          BY <2>2, <3>2, <3>3, HarmlessKeeps
    <3> QED BY <3>1, <3>4
  <2> QED BY <2>1, <2>2
<1> QED BY <1>1 DEF OwnInv

\* A call for a reservation of saga s is no business of the others.
LEMMA ForeignIsHarmless ==
    ASSUME OwnIds, NEW s \in Sagas, NEW k \in 1..Len(IdsOf[s]), NEW rs, NEW rs2,
           Elsewhere(rs, rs2, IdsOf[s][k]), NEW lt
    PROVE  /\ \A t \in Sagas \ {s} : Harmless(t, lt, rs, rs2)
           /\ \A j \in 1..Len(IdsOf[s]) :
                 j # k => StateOf(rs2, IdsOf[s][j]) = StateOf(rs, IdsOf[s][j])
  BY DEF OwnIds, Elsewhere, Harmless

\* No change of the records harms nobody.
LEMMA StillIsHarmless ==
    ASSUME NEW rs, NEW lt
    PROVE  \A t \in Sagas : Harmless(t, lt, rs, rs)
  BY DEF Harmless

\* add_step leaves the wallet alone; what it adds has not been tried.
LEMMA AddStepOwn ==
    ASSUME OwnInv, NEW s \in Sagas, NEW name \in NamesOf[s], AddStep(s, name), IInv', BaseInv'
    PROVE  OwnInv'
<1>1. PICK st : /\ Moves(s, st, phase[s], report[s], undo[s])
                /\ Len(st) = Len(steps[s]) + 1 /\ st \in Seq(StepRecords)
                /\ \A k \in 1..Len(steps[s]) : st[k] = steps[s][k]
      BY AddStepMoves DEF OwnInv, Fits
<1>2. late' = late /\ reservations' = reservations
      BY DEF AddStep, walletVars
<1>3. Distinct(st) => Distinct(steps[s])
  <2>1. /\ DOMAIN st = 1..Len(st) /\ DOMAIN steps[s] = 1..Len(steps[s]) /\ Len(steps[s]) \in Nat
        BY <1>1, SagaParts, LenProperties DEF OwnInv, Fits
  <2>2. DOMAIN steps[s] \subseteq DOMAIN st
        BY <1>1, <2>1
  <2> QED BY <1>1, <2>1, <2>2 DEF Distinct
<1>4. OwnOK(s, steps[s], phase[s], report[s], undo[s], late, reservations)
      BY DEF OwnInv
<1>5. OwnOK(s, st, phase[s], report[s], undo[s], late, reservations)
      BY <1>3, <1>4 DEF OwnOK, FreedOK
<1>6. \A t \in Sagas \ {s} : Harmless(t, late', reservations, reservations')
      BY <1>2, StillIsHarmless
<1> QED BY <1>1, <1>2, <1>5, <1>6, MoveKeepsOwn

\* A step that leaves the wallet alone and changes the phase or the report.
LEMMA QuietOwn ==
    ASSUME OwnInv, NEW s \in Sagas, NEW ph, NEW rep, NEW un, Moves(s, steps[s], ph, rep, un),
           reservations' = reservations, late \subseteq late', IInv', BaseInv',
           ph \in {"running", "committed"} =>
              (phase[s] \in {"running", "committed"} /\ rep = report[s]) \/ Len(rep.completed) = 0,
           \A k \in 1..Len(IdsOf[s]) :
              Accounted(s, k, phase[s], report[s], undo[s], late) => Accounted(s, k, ph, rep, un, late')
    PROVE  OwnInv'
<1>1. OwnOK(s, steps[s], phase[s], report[s], undo[s], late, reservations)
      BY DEF OwnInv
<1>2. KeptOK(s, ph, rep, reservations)
      BY <1>1 DEF OwnOK, KeptOK
<1>3. FreedOK(s, steps[s], ph, rep, un, late', reservations)
      BY <1>1 DEF OwnOK, FreedOK
<1>4. OwnOK(s, steps[s], ph, rep, un, late', reservations')
      BY <1>2, <1>3 DEF OwnOK
<1>5. \A t \in Sagas \ {s} : Harmless(t, late', reservations, reservations')
      BY StillIsHarmless
<1> QED BY <1>4, <1>5, MoveKeepsOwn

\* execute starts with nothing reserved but by late tries.
LEMMA ExecuteOwn ==
    ASSUME OwnInv, NEW s \in Sagas, Execute(s), IInv', BaseInv'
    PROVE  OwnInv'
<1>1. Moves(s, steps[s], "running", EmptyReport, undo[s])
      BY ExecuteMoves DEF OwnInv
<1>2. /\ late' = late /\ reservations' = reservations /\ phase[s] \in {"building", "failed"}
      BY DEF Execute, walletVars
<1>3. Len(EmptyReport.completed) = 0
      BY DEF EmptyReport
<1>4. \A k : Accounted(s, k, phase[s], report[s], undo[s], late)
                => Accounted(s, k, "running", EmptyReport, undo[s], late')
      BY <1>2 DEF Accounted
<1> QED BY <1>1, <1>2, <1>3, <1>4, QuietOwn

\* A failing step passes the completed ones on to the compensation.
LEMMA FailOwn ==
    ASSUME OwnInv, NEW s \in Sagas, Running(s), Fail(s), reservations' = reservations,
           late \subseteq late', IInv', BaseInv'
    PROVE  OwnInv'
<1>1. PICK rep : /\ Moves(s, steps[s], "compensating", rep, Len(report[s].completed))
                 /\ rep.completed = report[s].completed
      BY FailMoves DEF OwnInv
<1>2. phase[s] = "running"
      BY DEF Running
<1>3. \A k : Accounted(s, k, phase[s], report[s], undo[s], late)
                => Accounted(s, k, "compensating", rep, Len(report[s].completed), late')
      BY <1>2 DEF Accounted
<1> QED BY <1>1, <1>3, QuietOwn

\* A step that succeeds has its reservation.
LEMMA CompleteOwn ==
    ASSUME OwnInv, OwnIds, NEW s \in Sagas, Running(s), Complete(s), late' = late, IInv', BaseInv',
           answer', TryReserve(steps[s][Current(s)].id, steps[s][Current(s)].amount)
    PROVE  OwnInv'
<1>1. PICK rep : /\ Moves(s, steps[s], "running", rep, undo[s])
                 /\ Len(rep.completed) = Current(s)
      BY CompleteMoves DEF OwnInv
<1>2. PICK k : k = Current(s)
      OBVIOUS
<1>3. /\ k \in 1..Len(IdsOf[s]) /\ steps[s][Current(s)].id = IdsOf[s][k]
      /\ k = Len(report[s].completed) + 1 /\ Len(report[s].completed) \in Nat
      BY <1>2, CurrentStep, SagaParts DEF OwnInv
<1>4. /\ Elsewhere(reservations, reservations', IdsOf[s][k])
      /\ StateOf(reservations', IdsOf[s][k]) = "reserved"
      BY <1>3, TryEffect
<1>5. /\ \A t \in Sagas \ {s} : Harmless(t, late', reservations, reservations')
      /\ \A j \in 1..Len(IdsOf[s]) :
            j # k => StateOf(reservations', IdsOf[s][j]) = StateOf(reservations, IdsOf[s][j])
      BY <1>3, <1>4, ForeignIsHarmless
<1>6. OwnOK(s, steps[s], phase[s], report[s], undo[s], late, reservations) /\ phase[s] = "running"
      BY DEF OwnInv, Running
<1>7. Len(IdsOf[s]) \in Nat
      BY SagaAssumption, LenProperties
<1>8. KeptOK(s, "running", rep, reservations')
  <2>1. ASSUME NEW j \in 1..k PROVE StateOf(reservations', IdsOf[s][j]) \in {"reserved", "confirmed"}
    <3>1. CASE j = k
          BY <1>4, <3>1
    <3>2. CASE j # k
      <4>1. j \in 1..Len(report[s].completed) /\ j \in 1..Len(IdsOf[s])
            BY <1>3, <1>7, <3>2
      <4> QED BY <1>5, <1>6, <3>2, <4>1 DEF OwnOK, KeptOK
    <3> QED BY <3>1, <3>2
  <2> QED BY <1>1, <1>2, <2>1 DEF KeptOK
<1>9. FreedOK(s, steps[s], "running", rep, undo[s], late', reservations')
  <2>1. ASSUME Distinct(steps[s]), NEW j \in 1..Len(IdsOf[s]),
               StateOf(reservations', IdsOf[s][j]) = "reserved"
        PROVE  Accounted(s, j, "running", rep, undo[s], late')
    <3>1. CASE j <= k
          BY <1>1, <1>2, <3>1 DEF Accounted
    <3>2. CASE j > k
      <4>1. StateOf(reservations, IdsOf[s][j]) = "reserved"
            BY <1>3, <1>5, <2>1, <3>2
      <4>2. Accounted(s, j, phase[s], report[s], undo[s], late)
            BY <1>6, <2>1, <4>1 DEF OwnOK, FreedOK
      <4>3. ~(j <= Len(report[s].completed))
            BY <1>3, <3>2
      <4> QED BY <1>6, <4>2, <4>3 DEF Accounted
    <3> QED BY <1>3, <3>1, <3>2
  <2> QED BY <2>1 DEF FreedOK
<1>10. OwnOK(s, steps[s], "running", rep, undo[s], late', reservations')
      BY <1>8, <1>9 DEF OwnOK
<1> QED BY <1>1, <1>5, <1>10, MoveKeepsOwn

\* execute returns.
LEMMA CommitOwn ==
    ASSUME OwnInv, NEW s \in Sagas, Commit(s), IInv', BaseInv'
    PROVE  OwnInv'
<1>1. Moves(s, steps[s], "committed", report[s], undo[s])
      BY CommitMoves DEF OwnInv
<1>2. late' = late /\ reservations' = reservations /\ phase[s] = "running"
      BY DEF Commit, walletVars
<1>3. \A k : Accounted(s, k, phase[s], report[s], undo[s], late)
                => Accounted(s, k, "committed", report[s], undo[s], late')
      BY <1>2 DEF Accounted
<1> QED BY <1>1, <1>2, <1>3, QuietOwn

\* execute returns when all completed steps have been undone.
LEMMA ReturnOwn ==
    ASSUME OwnInv, NEW s \in Sagas, Return(s), IInv', BaseInv'
    PROVE  OwnInv'
<1>1. Moves(s, steps[s], "failed", report[s], undo[s])
      BY ReturnMoves DEF OwnInv
<1>2. late' = late /\ reservations' = reservations /\ phase[s] = "compensating" /\ undo[s] = 0
      BY DEF Return, walletVars
<1>3. \A k \in 1..Len(IdsOf[s]) :
         Accounted(s, k, phase[s], report[s], undo[s], late)
            => Accounted(s, k, "failed", report[s], undo[s], late')
      BY <1>2 DEF Accounted
<1> QED BY <1>1, <1>2, <1>3, QuietOwn

\* A compensation cancels the reservation of the step it undoes.
LEMMA CompensateOwn ==
    ASSUME OwnInv, OwnIds, NEW s \in Sagas, Compensate(s), IInv', BaseInv'
    PROVE  OwnInv'
<1>1. PICK rep, k :
         /\ Moves(s, steps[s], "compensating", rep, undo[s] - 1)
         /\ k \in 1..Len(steps[s])
         /\ Distinct(steps[s]) => k = undo[s]
         /\ Cancel(steps[s][k].id)
         /\ phase[s] = "compensating"
      BY CompensateMoves DEF OwnInv
<1>2. late' = late
      BY DEF Compensate
<1>3. k \in 1..Len(IdsOf[s]) /\ steps[s][k].id = IdsOf[s][k] /\ undo[s] \in Nat
  <2>1. Fits(s, steps[s], phase[s], report[s], undo[s]) /\ Len(steps[s]) \in Nat
        BY SagaParts DEF OwnInv
  <2>2. Len(IdsOf[s]) \in Nat
        BY SagaAssumption, LenProperties
  <2> QED BY <1>1, <2>1, <2>2 DEF Fits, BaseOK, StepsOK
<1>4. /\ Elsewhere(reservations, reservations', IdsOf[s][k])
      /\ StateOf(reservations', IdsOf[s][k]) # "reserved"
      BY <1>1, <1>3, CancelEffect DEF OwnInv
<1>5. /\ \A t \in Sagas \ {s} : Harmless(t, late', reservations, reservations')
      /\ \A j \in 1..Len(IdsOf[s]) :
            j # k => StateOf(reservations', IdsOf[s][j]) = StateOf(reservations, IdsOf[s][j])
      BY <1>3, <1>4, ForeignIsHarmless
<1>6. OwnOK(s, steps[s], phase[s], report[s], undo[s], late, reservations)
      BY DEF OwnInv
<1>7. KeptOK(s, "compensating", rep, reservations')
      BY DEF KeptOK
<1>8. FreedOK(s, steps[s], "compensating", rep, undo[s] - 1, late', reservations')
  <2>1. ASSUME Distinct(steps[s]), NEW j \in 1..Len(IdsOf[s]),
               StateOf(reservations', IdsOf[s][j]) = "reserved"
        PROVE  Accounted(s, j, "compensating", rep, undo[s] - 1, late')
    <3>1. j # k /\ k = undo[s]
          BY <1>1, <1>4, <2>1
    <3>2. StateOf(reservations, IdsOf[s][j]) = "reserved"
          BY <1>5, <2>1, <3>1
    <3>3. Accounted(s, j, phase[s], report[s], undo[s], late)
          BY <1>6, <2>1, <3>2 DEF OwnOK, FreedOK
    <3>4. j <= undo[s] => j <= undo[s] - 1
          BY <1>3, <3>1
    <3> QED BY <1>1, <1>2, <3>3, <3>4 DEF Accounted
  <2> QED BY <2>1 DEF FreedOK
<1>9. OwnOK(s, steps[s], "compensating", rep, undo[s] - 1, late', reservations')
      BY <1>7, <1>8 DEF OwnOK
<1> QED BY <1>1, <1>2, <1>5, <1>9, MoveKeepsOwn

\* Calls of the wallet outside execute.
LEMMA HarmlessOwn ==
    ASSUME OwnInv, UNCHANGED <<steps, phase, report, undo, late>>, IInv', BaseInv',
           \A t \in Sagas : Harmless(t, late, reservations, reservations')
    PROVE  OwnInv'
<1>1. ASSUME NEW t \in Sagas
      PROVE  OwnOK(t, steps[t], phase[t], report[t], undo[t], late, reservations')
  <2>1. /\ Fits(t, steps[t], phase[t], report[t], undo[t])
        /\ OwnOK(t, steps[t], phase[t], report[t], undo[t], late, reservations)
        BY SagaParts DEF OwnInv
  <2> QED BY <2>1, HarmlessKeeps
<1> QED BY <1>1 DEF OwnInv

\* Every step preserves the ownership of the reservations.
LEMMA NextOwn == OwnIds => (OwnInv /\ [SagaNext]_allVars => OwnInv')
<1> SUFFICES ASSUME OwnIds, OwnInv, [SagaNext]_allVars PROVE OwnInv'
    OBVIOUS
<1>1. BaseInv' /\ IInv' /\ IInv /\ BaseInv
      BY NextBase, SagaStepIsWalletStep, NextIInv DEF OwnInv
<1>2. CASE UNCHANGED allVars
  <2>1. UNCHANGED <<steps, phase, report, undo, late>> /\ reservations' = reservations
        BY <1>2 DEF allVars, sagaVars, walletVars
  <2> QED BY <1>1, <2>1, StillIsHarmless, HarmlessOwn
<1>3. ASSUME NEW s \in Sagas, NEW name \in NamesOf[s], AddStep(s, name) PROVE OwnInv'
      BY <1>1, <1>3, AddStepOwn
<1>4. ASSUME NEW s \in Sagas, Execute(s) PROVE OwnInv'
      BY <1>1, <1>4, ExecuteOwn
<1>5. ASSUME NEW s \in Sagas, RunStep(s) PROVE OwnInv'
  <2>1. /\ late' = late /\ Running(s)
        /\ TryReserve(steps[s][Current(s)].id, steps[s][Current(s)].amount)
        /\ IF answer' THEN Complete(s) ELSE Fail(s)
        BY <1>5 DEF RunStep
  <2>2. CASE answer'
        BY <1>1, <2>1, <2>2, CompleteOwn
  <2>3. CASE ~answer'
    <3>1. reservations' = reservations
          BY <2>1, <2>3, TryEffect
    <3> QED BY <1>1, <2>1, <2>3, <3>1, FailOwn
  <2> QED BY <2>2, <2>3
<1>6. ASSUME NEW s \in Sagas, StepTimesOut(s) PROVE OwnInv'
  <2>1. Running(s) /\ Fail(s) /\ late \subseteq late' /\ reservations' = reservations
        BY <1>6 DEF StepTimesOut, walletVars
  <2> QED BY <1>1, <2>1, FailOwn
<1>7. ASSUME NEW s \in Sagas, Commit(s) \/ Return(s) \/ Compensate(s) PROVE OwnInv'
      BY <1>1, <1>7, CommitOwn, ReturnOwn, CompensateOwn
<1>8. ASSUME NEW s \in Sagas, ConfirmStep(s) PROVE OwnInv'
  <2>1. UNCHANGED <<steps, phase, report, undo, late>>
        BY <1>8 DEF ConfirmStep, sagaVars
  <2>2. PICK id : Confirm(id)
        BY <1>8 DEF ConfirmStep
  <2>3. \A t \in Sagas : Harmless(t, late, reservations, reservations')
        BY <1>1, <2>2, ConfirmEffect DEF Harmless, Elsewhere
  <2> QED BY <1>1, <2>1, <2>3, HarmlessOwn
<1>9. ASSUME NEW id \in ReservationIds, LateTry(id) PROVE OwnInv'
  <2>1. UNCHANGED <<steps, phase, report, undo, late>> /\ id \in late /\ TryReserve(id, AmountOf[id])
        BY <1>9 DEF LateTry, sagaVars
  <2>2. \A t \in Sagas : Harmless(t, late, reservations, reservations')
        BY <2>1, TryEffect DEF Harmless, Elsewhere
  <2> QED BY <1>1, <2>1, <2>2, HarmlessOwn
<1>10. ASSUME NEW id \in FreeIds, OtherClients(id) PROVE OwnInv'
  <2>1. UNCHANGED <<steps, phase, report, undo, late>>
        BY <1>10 DEF OtherClients, sagaVars
  <2>2. Elsewhere(reservations, reservations', id)
        BY <1>1, <1>10, TryEffect, ConfirmEffect, CancelEffect DEF OtherClients
  <2>3. \A t \in Sagas : Harmless(t, late, reservations, reservations')
        BY <1>10, <2>2 DEF Harmless, Elsewhere, OwnIds
  <2> QED BY <1>1, <2>1, <2>3, HarmlessOwn
<1> QED BY <1>2, <1>3, <1>4, <1>5, <1>6, <1>7, <1>8, <1>9, <1>10 DEF SagaNext

\* No saga has been built and nothing is reserved.
LEMMA InitOwn == SagaInit => OwnInv
<1> SUFFICES ASSUME SagaInit PROVE OwnInv
    OBVIOUS
<1>1. Init /\ DOMAIN reservations = {}
      BY DEF SagaInit, Init, EmptyMap
<1>2. IInv /\ BaseInv
      BY <1>1, InitIInv, InitBase
<1>3. ASSUME NEW s \in Sagas
      PROVE  OwnOK(s, steps[s], phase[s], report[s], undo[s], late, reservations)
  <2>1. phase[s] = "building"
        BY DEF SagaInit
  <2> QED BY <1>1, <2>1 DEF OwnOK, KeptOK, FreedOK, StateOf
<1> QED BY <1>2, <1>3 DEF OwnInv

\* What the invariant says of a saga that has returned.
LEMMA OwnMeans == OwnInv => AllOrNothing
<1> SUFFICES ASSUME OwnInv, NEW s \in Sagas
             PROVE  /\ phase[s] = "committed" =>
                          \A id \in IdsIn(s) : InState(id, "reserved") \/ InState(id, "confirmed")
                    /\ phase[s] = "failed" =>
                          /\ report[s].compensated = Reverse(report[s].completed)
                          /\ DistinctNames(s) =>
                                \A id \in IdsIn(s) : InState(id, "reserved") => id \in late
    BY DEF AllOrNothing
<1>1. /\ Fits(s, steps[s], phase[s], report[s], undo[s])
      /\ OwnOK(s, steps[s], phase[s], report[s], undo[s], late, reservations)
      /\ report[s].completed \in Seq(AllNames) /\ report[s].compensated \in Seq(AllNames)
      /\ Len(steps[s]) \in Nat /\ Len(report[s].completed) \in Nat
      /\ Len(IdsOf[s]) \in Nat
      BY SagaParts, SagaAssumption, LenProperties DEF OwnInv
<1>2. DOMAIN steps[s] = 1..Len(steps[s])
      BY <1>1, LenProperties DEF Fits
<1>3. \A id \in IdsIn(s) : \E k \in 1..Len(steps[s]) : id = IdsOf[s][k]
      BY <1>1, <1>2 DEF IdsIn, Fits, BaseOK, StepsOK
<1>4. Len(steps[s]) <= Len(IdsOf[s])
      BY <1>1 DEF Fits, BaseOK, StepsOK
<1>5. ASSUME phase[s] = "committed", NEW id \in IdsIn(s)
      PROVE  InState(id, "reserved") \/ InState(id, "confirmed")
  <2>1. PICK k \in 1..Len(steps[s]) : id = IdsOf[s][k]
        BY <1>3
  <2>2. Len(report[s].completed) = Len(steps[s])
        BY <1>1, <1>5 DEF Fits, BaseOK, CompletedOK
  <2>3. StateOf(reservations, id) \in {"reserved", "confirmed"}
        BY <1>1, <1>5, <2>1, <2>2 DEF OwnOK, KeptOK
  <2> QED BY <2>3 DEF StateOf, InState, Known
<1>6. ASSUME phase[s] = "failed" PROVE report[s].compensated = Reverse(report[s].completed)
  <2>1. Undone(report[s], 0)
        BY <1>1, <1>6 DEF Fits, BaseOK, CompensatedOK
  <2>2. PICK n : n = Len(report[s].completed)
        OBVIOUS
  <2>3. PICK c : c = report[s].compensated
        OBVIOUS
  <2>4. n \in Nat /\ c \in Seq(AllNames) /\ Len(c) = n
        BY <1>1, <2>1, <2>2, <2>3 DEF Undone
  <2>5. c = [i \in 1..n |-> c[i]]
        BY <2>4
  <2>6. \A i \in 1..n : c[i] = report[s].completed[(n - i) + 1]
    <3> TAKE i \in 1..n
    <3>1. n + 1 - i = (n - i) + 1
          BY <2>4
    <3> QED BY <2>1, <2>2, <2>3, <2>4, <3>1 DEF Undone
  <2> QED BY <2>2, <2>3, <2>5, <2>6 DEF Reverse
<1>7. ASSUME phase[s] = "failed", DistinctNames(s), NEW id \in IdsIn(s), InState(id, "reserved")
      PROVE  id \in late
  <2>1. PICK k \in 1..Len(IdsOf[s]) : id = IdsOf[s][k]
        BY <1>1, <1>3, <1>4
  <2>2. StateOf(reservations, id) = "reserved" /\ Distinct(steps[s])
        BY <1>7 DEF StateOf, InState, Known, DistinctNames, Distinct
  <2>3. Accounted(s, k, phase[s], report[s], undo[s], late)
        BY <1>1, <2>1, <2>2 DEF OwnOK, FreedOK
  <2> QED BY <1>7, <2>1, <2>3 DEF Accounted
<1> QED BY <1>5, <1>6, <1>7

\* Where steps and clients do not share reservations: when execute has returned,
\* a committed saga has every reservation and a failed one has undone its
\* completed steps in reverse and holds nothing, but for tries it gave up on,
\* for any sagas, balance and order of late, repeated and foreign calls.
THEOREM SagasAreAllOrNothing ==
    ASSUME OwnIds
    PROVE  SagaSpec => []AllOrNothing
<1>1. OwnInv /\ [SagaNext]_allVars => OwnInv'
      BY NextOwn
<1> QED BY <1>1, InitOwn, OwnMeans, PTL DEF SagaSpec

=============================================================================

-------------------------------- MODULE Saga --------------------------------
(* infrastructure/distributed-consistency: SagaCoordinator, with steps that  *)
(* reserve funds in a TccWallet and compensations that cancel them.  The     *)
(* steps are callbacks of the caller; here a step's action is a try_reserve  *)
(* that may be refused or time out, a timed out try being one that may still *)
(* arrive, once, twice or never.  Each saga runs on a thread of its own, and *)
(* the wallet has other clients.                                             *)
EXTENDS TccWallet, Sequences, SequencesExt

CONSTANTS
    Sagas,
    NamesOf,        \* saga -> the names its steps may be given
    IdsOf,          \* saga -> the reservation ids of its steps, in order
    AmountOf,       \* reservation id -> amount
    FreeIds,        \* reservations of other clients
    MaxAttempts     \* bound: executions of one saga

ASSUME SagaAssumption ==
    /\ IdsOf \in [Sagas -> Seq(ReservationIds)]
    /\ AmountOf \in [ReservationIds -> Amounts]
    /\ FreeIds \subseteq ReservationIds

VARIABLES
    steps,          \* steps_: name, reservation and amount
    phase,          \* of the saga: being built, in execute, in compensate, returned
    report,         \* SagaExecutionReport
    undo,           \* compensate: completed steps its iterator has not reached
    attempts,       \* executions so far, up to MaxAttempts
    late            \* tries given up on, which may still arrive

sagaVars == <<steps, phase, report, undo, attempts, late>>
walletVars == <<available, reserved, committed, reservations, answer>>
allVars == <<sagaVars, walletVars>>

NoName == "none"
EmptyReport == [completed |-> << >>, compensated |-> << >>, failed |-> NoName]

SagaInit ==
    /\ Init
    /\ steps = [s \in Sagas |-> << >>]
    /\ phase = [s \in Sagas |-> "building"]
    /\ report = [s \in Sagas |-> EmptyReport]
    /\ undo = [s \in Sagas |-> 0]
    /\ attempts = [s \in Sagas |-> 0]
    /\ late = {}

Goto(s, p) == phase' = [phase EXCEPT ![s] = p]

-----------------------------------------------------------------------------
\* add_step: names are not compared with those already there.
AddStep(s, name) ==
    LET k == Len(steps[s]) + 1
    IN  /\ phase[s] = "building"
        /\ k <= Len(IdsOf[s])
        /\ steps' = [steps EXCEPT ![s] = Append(@,
                        [name |-> name, id |-> IdsOf[s][k], amount |-> AmountOf[IdsOf[s][k]]])]
        /\ UNCHANGED <<phase, report, undo, attempts, late, walletVars>>

\* execute is called, or called again after it failed: a new report.
Execute(s) ==
    /\ phase[s] \in {"building", "failed"}
    /\ attempts[s] < MaxAttempts
    /\ attempts' = [attempts EXCEPT ![s] = @ + 1]
    /\ report' = [report EXCEPT ![s] = EmptyReport]
    /\ Goto(s, "running")
    /\ UNCHANGED <<steps, undo, late, walletVars>>

\* The step that execute's loop is at.
Current(s) == Len(report[s].completed) + 1
Running(s) == phase[s] = "running" /\ Current(s) <= Len(steps[s])

\* The step's action succeeded.
Complete(s) ==
    /\ report' = [report EXCEPT ![s].completed = Append(@, steps[s][Current(s)].name)]
    /\ UNCHANGED <<steps, phase, undo, attempts>>

\* Any other result: the failing step itself is not compensated.
Fail(s) ==
    /\ report' = [report EXCEPT ![s].failed = steps[s][Current(s)].name]
    /\ undo' = [undo EXCEPT ![s] = Len(report[s].completed)]
    /\ Goto(s, "compensating")
    /\ UNCHANGED <<steps, attempts>>

\* The action calls the wallet and passes on its answer.
RunStep(s) ==
    /\ Running(s)
    /\ LET step == steps[s][Current(s)] IN TryReserve(step.id, step.amount)
    /\ IF answer' THEN Complete(s) ELSE Fail(s)
    /\ UNCHANGED late

\* The action gives up waiting (kRetryableFailure); its try is under way.
StepTimesOut(s) ==
    /\ Running(s)
    /\ late' = late \cup {steps[s][Current(s)].id}
    /\ Fail(s)
    /\ UNCHANGED walletVars

\* A try nobody waits for any more arrives, perhaps not for the first time.
LateTry(id) ==
    /\ id \in late
    /\ TryReserve(id, AmountOf[id])
    /\ UNCHANGED sagaVars

\* execute returns with committed set.
Commit(s) ==
    /\ phase[s] = "running" /\ Current(s) > Len(steps[s])
    /\ Goto(s, "committed")
    /\ UNCHANGED <<steps, report, undo, attempts, late, walletVars>>

\* The oldest completed step is undone first.
CompensateForwards(s) ==
    /\ phase[s] = "compensating" /\ undo[s] > 0
    /\ LET name == report[s].completed[Len(report[s].completed) + 1 - undo[s]]
           k == SelectInSeq(steps[s], LAMBDA step : step.name = name)
       IN  /\ Cancel(steps[s][k].id)
           /\ report' = [report EXCEPT ![s].compensated = Append(@, name)]
    /\ undo' = [undo EXCEPT ![s] = @ - 1]
    /\ UNCHANGED <<steps, phase, attempts, late>>

\* compensate, one turn of its loop: the latest completed step not undone yet,
\* looked up by name, which finds the first step of that name.
Compensate(s) ==
    /\ phase[s] = "compensating" /\ undo[s] > 0
    /\ LET name == report[s].completed[undo[s]]
           k == SelectInSeq(steps[s], LAMBDA step : step.name = name)
       IN  /\ Cancel(steps[s][k].id)
           /\ report' = [report EXCEPT ![s].compensated = Append(@, name)]
    /\ undo' = [undo EXCEPT ![s] = @ - 1]
    /\ UNCHANGED <<steps, phase, attempts, late>>

\* execute returns with the failed step in the report.
Return(s) ==
    /\ phase[s] = "compensating" /\ undo[s] = 0
    /\ Goto(s, "failed")
    /\ UNCHANGED <<steps, report, undo, attempts, late, walletVars>>

\* The caller of a saga that committed confirms its reservations.
ConfirmStep(s) ==
    /\ phase[s] = "committed"
    /\ \E k \in DOMAIN steps[s] : Confirm(steps[s][k].id)
    /\ UNCHANGED sagaVars

\* Calls of other clients, in any order and repetition, with any amounts.
OtherClients(id) ==
    /\ \/ \E amount \in Amounts : TryReserve(id, amount)
       \/ Confirm(id)
       \/ Cancel(id)
    /\ UNCHANGED sagaVars

SagaNext ==
    \/ \E s \in Sagas :
          \/ \E name \in NamesOf[s] : AddStep(s, name)
          \/ Execute(s) \/ RunStep(s) \/ StepTimesOut(s) \/ Commit(s)
          \/ Compensate(s) \/ Return(s) \/ ConfirmStep(s)
    \/ \E id \in ReservationIds : LateTry(id)
    \/ \E id \in FreeIds : OtherClients(id)

SagaSpec == SagaInit /\ [][SagaNext]_allVars

-----------------------------------------------------------------------------
(* Properties.                                                               *)

IdsIn(s) == {steps[s][k].id : k \in DOMAIN steps[s]}
DistinctNames(s) == \A j, k \in DOMAIN steps[s] : steps[s][j].name = steps[s][k].name => j = k

\* All or nothing: once execute has returned, a committed saga has every one of
\* its reservations, confirmed or still reserved, and a failed one has undone
\* its completed steps, the latest first, and holds nothing but what a try it
\* gave up on may have reserved, now or in an earlier attempt.  Steps of one
\* name are the exception, since compensations are looked up by name.
AllOrNothing ==
    \A s \in Sagas :
        /\ phase[s] = "committed" =>
              \A id \in IdsIn(s) : InState(id, "reserved") \/ InState(id, "confirmed")
        /\ phase[s] = "failed" =>
              /\ report[s].compensated = Reverse(report[s].completed)
              /\ DistinctNames(s) => \A id \in IdsIn(s) : InState(id, "reserved") => id \in late

=============================================================================

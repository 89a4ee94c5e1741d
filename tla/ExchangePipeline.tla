-------------------------- MODULE ExchangePipeline --------------------------
(* integration/exchange-pipeline: ExchangePipeline, which takes an order     *)
(* from the gateway through the risk rules, a hold in the clearing system    *)
(* and the matching engine to settlement and the release of what is left.    *)
(* It composes PreTradeRisk, MatchingEngine and AccountClearing, whose       *)
(* variables it owns.                                                        *)
(*                                                                           *)
(* submit runs on one thread.  Its steps are actions, so that every early    *)
(* return leaves the state the next submit finds.  The pipeline exposes no   *)
(* cancel and nobody polls the engine's events.                              *)
EXTENDS Integers, Sequences, SequencesExt, FiniteSetsExt, Maps, PreTradeRisk

CONSTANTS
    Users,          \* registered users
    OrderIds, NoId, NoHold,
    Prices, Quantities,
    OrderTifs,      \* times in force in use
    Opening,        \* the snapshot every user is registered with
    InitialTop,     \* best bid and ask given to configure_market
    MakerFeeBps, TakerFeeBps,
    Inexact,        \* assets whose amounts the code's doubles may round
    EventCapacity,
    MaxOrders       \* bound: orders that get as far as a hold

\* Holds are taken at the taker's rate: a maker's rate above it is not covered.
ASSUME FeesAssumption == MakerFeeBps <= TakerFeeBps

\* hold_id_for, and the trade id settle_trades puts together.
HoldOf(id) == <<"hold", id>>
TradeId(maker, taker) == <<maker, taker>>

VARIABLES
    live, book, depth, events, pc, call, remaining, trades, result, pending,
    published, arrival,                                       \* matching_
    accounts, holds, settled, journal, outbox, status, opening, fees, \* clearing_
    registry,       \* order_registry_
    restingUsers,   \* resting_users_
    top,            \* best_bid_, best_ask_ and the risk engine's copy
    riskAccounts,   \* the risk engine's accounts_
    riskResting,    \* the risk engine's resting_orders_
    stage,          \* where submit is
    order,          \* the parsed order
    reference,      \* (history) the price its hold was taken at
    fills,          \* trades of match_result not settled yet
    settlements,    \* statuses of workflow.settlements
    outcome,        \* workflow.status of the last submit
    submitted       \* orders that got a hold, up to MaxOrders

E == INSTANCE MatchingEngine

C == INSTANCE AccountClearing WITH
        Accounts <- Users,
        HoldIds <- {HoldOf(id) : id \in OrderIds},
        FillHolds <- {HoldOf(id) : id \in OrderIds},
        TradeIds <- {TradeId(m, t) : m, t \in OrderIds},
        Openings <- {Opening}, Reopened <- {}, Amounts <- {}

\* What MatchingEngine and AccountClearing assume of their constants.
ASSUME EngineAssumption ==
    /\ NoId \notin OrderIds /\ OrderTifs \subseteq E!Tifs
    /\ Prices \subseteq Nat \ {0} /\ Quantities \subseteq Nat
    /\ EventCapacity \in Nat \ {0, 1}
ASSUME ClearingAssumption ==
    /\ NoHold \notin {HoldOf(id) : id \in OrderIds}
    /\ Opening \in C!Balance
    /\ Opening.availableQuote >= 0 /\ Opening.availableBase >= 0 /\ Opening.baseCost >= 0
    /\ Opening.frozenQuote = 0 /\ Opening.frozenBase = 0
    /\ MakerFeeBps \in Nat /\ TakerFeeBps \in Nat
    /\ Inexact \subseteq C!Assets
\* The market is configured with prices, and with a price band that lets no
\* limit order in whose price is not positive.
ASSUME MarketAssumption ==
    /\ InitialTop \in [bid : Nat, ask : Nat] /\ InitialTop # NoTop
    /\ BandNum < BandDen

engineVars == <<live, book, depth, events, pc, call, remaining, trades, result, pending,
                published, arrival>>
clearingVars == <<accounts, holds, settled, journal, outbox, status, opening, fees>>
viewVars == <<restingUsers, top, riskAccounts, riskResting>>
flowVars == <<registry, stage, order, reference, fills, settlements, outcome, submitted>>
vars == <<engineVars, clearingVars, viewVars, flowVars>>

NoOrder == [user |-> "none"]

\* ParsedOrder; gateway_ has authenticated the user.  Price 0 stands for every
\* price that is not positive.
Orders ==
    [user : Users, id : OrderIds, side : E!Sides, type : {"limit"}, tif : OrderTifs,
     price : Prices \cup {0}, qty : Quantities]
    \cup
    [user : Users, id : OrderIds, side : E!Sides, type : {"market"}, tif : OrderTifs,
     price : {0}, qty : Quantities]

-----------------------------------------------------------------------------
(* What the pipeline tells the risk engine.                                  *)

\* sync_account_state
View(a) == [quote |-> a.availableQuote, base |-> a.availableBase]
Synced(users) == [u \in Users |-> IF u \in users THEN View(accounts'[u]) ELSE riskAccounts[u]]

\* sync_resting_orders: forget the orders of the users it told the risk engine
\* of, then tell it of every live order whose owner is known.
Kept == {o \in riskResting : o.user \notin restingUsers}
Tracked(reg) ==
    {[user |-> reg[id].user, side |-> reg[id].side, price |-> live[id].price,
      qty |-> live[id].open] : id \in DOMAIN live \cap DOMAIN reg}

SyncRestingOrders(reg) ==
    /\ riskResting' = Kept \cup Tracked(reg)
    /\ restingUsers' = {reg[id].user : id \in DOMAIN live \cap DOMAIN reg}

\* snapshot(1): the best published level of a side, or the price remembered.
Shown(s) == {p \in Prices : depth[s][p] > 0}
BestBid == IF Shown("buy") = {} THEN top.bid ELSE Max(Shown("buy"))
BestAsk == IF Shown("sell") = {} THEN top.ask ELSE Min(Shown("sell"))

-----------------------------------------------------------------------------
\* After configure_market and a register_user for every user.
Init ==
    /\ E!Init
    /\ accounts = [u \in Users |-> Opening] /\ opening = accounts
    /\ journal = [u \in Users |-> C!Nothing]
    /\ holds = EmptyMap /\ settled = {} /\ outbox = << >> /\ status = "applied" /\ fees = 0
    /\ registry = EmptyMap
    /\ restingUsers = {}
    /\ top = InitialTop
    /\ riskAccounts = [u \in Users |-> View(Opening)]
    /\ riskResting = {}
    /\ stage = "idle" /\ order = NoOrder /\ reference = 0 /\ fills = << >> /\ settlements = << >>
    /\ outcome = "completed"
    /\ submitted = 0

\* submit returns.
Answer(answer) ==
    /\ stage' = "idle"
    /\ outcome' = answer
    /\ order' = NoOrder
    /\ reference' = 0
    /\ fills' = << >>

-----------------------------------------------------------------------------
\* route_request, parse_forwarded_request: the gateway refuses the request, has
\* none to hand over after it took one (OrderIngress says when), or the payload
\* has no order in it.
TurnedAway ==
    /\ stage = "idle"
    /\ \E answer \in {"route_rejected", "invariant_violation", "parse_rejected"} : Answer(answer)
    /\ settlements' = << >>
    /\ UNCHANGED <<engineVars, clearingVars, viewVars, registry, submitted>>

\* evaluate_risk_stage refuses the order.
RiskRejects(r) ==
    /\ stage = "idle"
    /\ \E limited \in BOOLEAN :
          Verdict(r, top, riskAccounts[r.user], riskResting, limited) # "none"
    /\ Answer("risk_rejected")
    /\ settlements' = << >>
    /\ UNCHANGED <<engineVars, clearingVars, viewVars, registry, submitted>>

RiskAccepts(r) == Verdict(r, top, riskAccounts[r.user], riskResting, FALSE) = "none"

\* The price a buy is reserved at: its limit, or the best ask of the moment.
ReferencePrice(r) == IF r.type = "market" \/ r.price <= 0 THEN BestAsk ELSE r.price

\* The fee is left out of the reservation.
ReserveAmountNoFee(r) == IF r.side = "sell" THEN r.qty ELSE ReferencePrice(r) * r.qty

\* reserve_amount: the whole quantity, of a buy at the reference price with the
\* taker's fee.  The code multiplies with 1 + fee where clearing adds the fee to
\* the notional, so that the two agree only up to rounding.
ReserveAmount(r) ==
    IF r.side = "sell" THEN r.qty
    ELSE LET notional == ReferencePrice(r) * r.qty
         IN  notional + C!FeeAmount(notional, TakerFeeBps)

Freeze(r) ==
    C!Freeze(r.user, HoldOf(r.id), IF r.side = "buy" THEN "quote" ELSE "base", ReserveAmount(r))

\* reserve_order_hold fails: no balance for price and fee, or the hold of an
\* order with this id exists.
ReserveFails(r) ==
    /\ stage = "idle"
    /\ RiskAccepts(r)
    /\ Freeze(r)
    /\ status' # "applied"
    /\ Answer("clearing_rejected")
    /\ settlements' = << >>
    /\ UNCHANGED <<engineVars, viewVars, registry, submitted>>

\* reserve_order_hold, track_managed_order
Reserve(r) ==
    /\ stage = "idle"
    /\ submitted < MaxOrders
    /\ RiskAccepts(r)
    /\ Freeze(r)
    /\ status' = "applied"
    /\ registry' = With(registry, r.id, [user |-> r.user, side |-> r.side])
    /\ riskAccounts' = Synced({r.user})
    /\ stage' = "submit"
    /\ order' = r
    /\ reference' = ReferencePrice(r)
    /\ settlements' = << >>
    /\ submitted' = submitted + 1
    /\ UNCHANGED <<engineVars, restingUsers, top, riskResting, fills, outcome>>

-----------------------------------------------------------------------------
(* The engine's submit.                                                      *)

MatchingRequest(r) ==
    [id |-> r.id, side |-> r.side, type |-> r.type, tif |-> r.tif, price |-> r.price, qty |-> r.qty]

SubmitToEngine ==
    /\ stage = "submit"
    /\ E!Submit(MatchingRequest(order))
    /\ stage' = "matching"
    /\ UNCHANGED <<clearingVars, viewVars, registry, order, reference, fills, settlements, outcome,
                   submitted>>

EngineSteps ==
    /\ stage = "matching"
    /\ E!Match \/ E!Finish \/ E!EmitEvent
    /\ UNCHANGED <<clearingVars, viewVars, flowVars>>

Matched ==
    /\ stage = "matching"
    /\ E!Return
    /\ fills' = trades
    /\ stage' = IF ~result.accepted /\ trades = << >> THEN "rejected" ELSE "settle"
    /\ UNCHANGED <<clearingVars, viewVars, registry, order, reference, settlements, outcome, submitted>>

-----------------------------------------------------------------------------
(* After matching.                                                           *)

\* release_residual_hold: a hold that is used up is no longer there, which is
\* no failure.
ReleaseResidual(h) == IF h \in DOMAIN holds THEN C!ReleaseHold(h) ELSE UNCHANGED clearingVars
Released(h) == h \in DOMAIN holds => status' = "applied"

\* handle_rejected_match
ReleaseRejected ==
    /\ stage = "rejected"
    /\ ReleaseResidual(HoldOf(order.id))
    /\ IF Released(HoldOf(order.id))
         THEN /\ registry' = Without(registry, order.id)
              /\ riskAccounts' = Synced({order.user})
              /\ SyncRestingOrders(registry')
              /\ Answer("matching_rejected")
         ELSE /\ Answer("invariant_violation")
              /\ UNCHANGED <<registry, riskAccounts, riskResting, restingUsers>>
    /\ UNCHANGED <<engineVars, top, settlements, submitted>>

\* The TradeFill of a trade; hold ids come from the registry.
FillOf(t) ==
    LET taker == registry[order.id]
        maker == registry[t.maker]
        takerBuys == taker.side = "buy"
    IN  [trade |-> TradeId(t.maker, order.id),
         buyer |-> IF takerBuys THEN taker.user ELSE maker.user,
         seller |-> IF takerBuys THEN maker.user ELSE taker.user,
         buyerHold |-> HoldOf(IF takerBuys THEN order.id ELSE t.maker),
         sellerHold |-> HoldOf(IF takerBuys THEN t.maker ELSE order.id),
         price |-> t.price, qty |-> t.qty, buyerIsTaker |-> takerBuys]

\* The risk engine learns of the taker's balances only.
SettledViewsTakerOnly(f) == Synced({order.user})

SettledViews(f) == Synced({f.buyer, f.seller})

\* settle_trades, one trade between orders whose owners are known: a duplicate
\* counts as settled, anything else but success ends the submit there, with no
\* more trades settled, no hold released and the views of the risk engine as
\* they are.
SettleOwned(f) ==
    /\ C!SettleSpotTrade(f)
    /\ settlements' = Append(settlements, status')
    /\ IF status' \in {"applied", "duplicate"}
         THEN /\ riskAccounts' = SettledViews(f)
              /\ fills' = Tail(fills)
              /\ UNCHANGED <<stage, order, reference, outcome>>
         ELSE /\ Answer("settlement_rejected")
              /\ UNCHANGED riskAccounts

SettleTrade ==
    /\ stage = "settle" /\ fills # << >>
    /\ IF {order.id, fills[1].maker} \subseteq DOMAIN registry
         THEN SettleOwned(FillOf(fills[1]))
         ELSE /\ Answer("invariant_violation")
              /\ UNCHANGED <<clearingVars, riskAccounts, settlements>>
    /\ UNCHANGED <<engineVars, registry, restingUsers, top, riskResting, submitted>>

\* Only the order just submitted is looked at.
ClosedTakerOnly == ({order.id} \cap DOMAIN registry) \ DOMAIN live

\* The order just submitted counts as closed though part of it rests.
ClosedWithTaker == (DOMAIN registry \ DOMAIN live) \cup ({order.id} \cap DOMAIN registry)

\* Tracked orders that are not in the book any more.
Closed == DOMAIN registry \ DOMAIN live

\* release_closed_orders, one order; the map is walked in no particular order.
ReleaseClosed(id) ==
    /\ stage = "settle" /\ fills = << >>
    /\ id \in Closed
    /\ ReleaseResidual(HoldOf(id))
    /\ IF Released(HoldOf(id))
         THEN /\ riskAccounts' = Synced({registry[id].user})
              /\ registry' = Without(registry, id)
              /\ UNCHANGED <<stage, order, reference, fills, outcome>>
         ELSE /\ Answer("invariant_violation")
              /\ UNCHANGED <<registry, riskAccounts>>
    /\ UNCHANGED <<engineVars, restingUsers, top, riskResting, settlements, submitted>>

\* sync_resting_orders, refresh_market_reference, and the answer.
Complete ==
    /\ stage = "settle" /\ fills = << >>
    /\ Closed = {}
    /\ SyncRestingOrders(registry)
    /\ top' = [bid |-> BestBid, ask |-> BestAsk]
    /\ Answer("completed")
    /\ UNCHANGED <<engineVars, clearingVars, riskAccounts, registry, settlements, submitted>>

-----------------------------------------------------------------------------
Next ==
    \/ TurnedAway
    \/ \E r \in Orders : RiskRejects(r) \/ ReserveFails(r) \/ Reserve(r)
    \/ SubmitToEngine
    \/ EngineSteps
    \/ Matched
    \/ ReleaseRejected
    \/ SettleTrade
    \/ \E id \in OrderIds : ReleaseClosed(id)
    \/ Complete

Spec == Init /\ [][Next]_vars

-----------------------------------------------------------------------------
(* Properties.                                                               *)

Fee(notional) == C!FeeAmount(notional, MakerFeeBps)

\* Every order in the book can be settled in full at any time: its owner is
\* known, and its hold, in the owner's account and in the right asset, still
\* covers what is open at the order's price and the maker's fee.  It survives
\* partial fills, submits that stop half-way and ids that are used again.
RestingOrdersBacked ==
    stage \in {"idle", "submit"} =>
        \A id \in DOMAIN live :
            LET o == live[id]
                h == HoldOf(id)
            IN  /\ id \in DOMAIN registry /\ h \in DOMAIN holds
                /\ holds[h].account = registry[id].user
                /\ holds[h].asset = (IF o.side = "buy" THEN "quote" ELSE "base")
                /\ holds[h].amount >=
                     IF o.side = "buy" THEN o.price * o.open + Fee(o.price * o.open) ELSE o.open

\* No user trades with themselves, though the risk engine sees the book only
\* through the copy of the resting orders it was last given.
NoSelfTrade ==
    stage = "settle" /\ SelfTradePrevention =>
        \A i \in DOMAIN fills :
            {order.id, fills[i].maker} \subseteq DOMAIN registry =>
                registry[order.id].user # registry[fills[i].maker].user

\* When submit has returned, whichever way, the balances the risk engine
\* decides on are the spendable balances of the clearing system, and every live
\* order is among the resting orders it knows, with its owner, side and price.
RiskViewsFresh ==
    stage = "idle" =>
        /\ \A u \in Users : riskAccounts[u] = View(accounts[u])
        /\ \A id \in DOMAIN live : \E o \in riskResting :
              /\ o.user = registry[id].user /\ o.side = live[id].side
              /\ o.price = live[id].price /\ o.qty >= live[id].open

\* A submit that completes leaves no money reserved for an order that is gone
\* (README: "Residual hold release after fully matched or cancelled orders"),
\* the leftovers of earlier submits that stopped half-way included.
CompletionReleasesHolds ==
    stage = "idle" /\ outcome = "completed" =>
        /\ DOMAIN holds = {HoldOf(id) : id \in DOMAIN live}
        /\ DOMAIN registry = DOMAIN live

\* The hold taken before matching is enough for the trades that matching makes,
\* price improvement, partial fills, fees of both sides and the makers' holds
\* included: a submit that has its hold never answers invariant_violation, and
\* clearing refuses only a trade of a buy above the price its hold was taken at,
\* which only a market order makes, or a trade that takes the last of what is
\* frozen or held for it, where rounding decides.
HoldsSufficeForTrades ==
    [][ stage # "idle" /\ stage' = "idle" =>
          /\ outcome' # "invariant_violation"
          /\ outcome' = "settlement_rejected" =>
                \/ order.side = "buy" /\ fills[1].price > reference
                \/ C!DecidedByRounding(FillOf(fills[1])) ]_vars

\* A submit that completes has settled each of its fills (exchange_pipeline.hpp:
\* "Clearing results for every fill that required settlement").
EveryFillSettled ==
    stage = "idle" /\ outcome = "completed" =>
        \A i \in DOMAIN settlements : settlements[i] = "applied"

=============================================================================

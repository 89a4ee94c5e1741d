----------------------- MODULE ExchangePipelineProofs -----------------------
(* What holds of the pipeline for any users, orders, prices, quantities,     *)
(* times in force, balances and fees: resting orders stay backed, nobody     *)
(* trades with themselves, the risk engine decides on current data, holds    *)
(* suffice and none is left behind.  The proofs rest on those about the      *)
(* engine and the ledger, of which the pipeline's steps are steps.           *)
EXTENDS ExchangePipeline, LibraryTheorems, SequenceTheorems, TLAPS

EP == INSTANCE MatchingEngineProofs

\* The ledger with fills and holds of any size.
CP == INSTANCE AccountClearingProofs WITH
        Accounts <- Users,
        HoldIds <- {HoldOf(id) : id \in OrderIds},
        FillHolds <- {HoldOf(id) : id \in OrderIds},
        TradeIds <- {TradeId(m, t) : m, t \in OrderIds},
        Openings <- {Opening}, Reopened <- {}, Amounts <- Nat, Quantities <- Nat

-----------------------------------------------------------------------------
(* What orders, trades and holds owe each other.                             *)

Trades == [maker : OrderIds, price : Prices, qty : Nat \ {0}]

HoldAsset(side) == IF side = "buy" THEN "quote" ELSE "base"

\* What hold h still has.
Left(hs, h) == IF h \in DOMAIN hs THEN hs[h].amount ELSE 0

\* What is open of order id.
OpenOf(lv, id) == IF id \in DOMAIN lv THEN lv[id].open ELSE 0

\* What it takes to trade a quantity at a price, fee included.
Cost(price, qty, bps) == price * qty + C!FeeAmount(price * qty, bps)
Need(side, price, qty, bps) == IF side = "buy" THEN Cost(price, qty, bps) ELSE qty

\* The sum of the quantities of trades, no two of which are the same.
Owed(due) == SumFunctionOnSet([t \in ToSet(due) |-> t.qty], ToSet(due))

\* The orders that get past the price band.
PricedOrders == {r \in Orders : r.type = "limit" => r.price # 0}

\* Rounding never decides the settlement of an order of which something rests:
\* amounts are exact, or base is and a maker pays less than was reserved.
RoundingSpares ==
    \/ Inexact = {}
    \/ /\ Inexact \subseteq {"quote"}
       /\ \A p \in Prices : \A q \in Nat \ {0} :
             C!FeeAmount(p * q, MakerFeeBps) < C!FeeAmount(p * q, TakerFeeBps)

-----------------------------------------------------------------------------
(* The inductive invariant.                                                  *)

\* Every hold is that of an order the pipeline tracks, in its owner's name.
TrackedOK(hs, reg) ==
    /\ DOMAIN reg \subseteq OrderIds /\ \A id \in DOMAIN reg : reg[id] \in [user : Users, side : E!Sides]
    /\ \A h \in DOMAIN hs : \E id \in DOMAIN reg : h = HoldOf(id)
    /\ \A id \in DOMAIN reg : HoldOf(id) \in DOMAIN hs =>
          /\ hs[HoldOf(id)].account = reg[id].user
          /\ hs[HoldOf(id)].asset = HoldAsset(reg[id].side)

\* Every order in the book is tracked and has a hold that covers it, still at
\* the taker's rate it was taken at.
RestingOK(lv, reg, hs) ==
    \A id \in DOMAIN lv :
        /\ id \in DOMAIN reg /\ reg[id].side = lv[id].side
        /\ Left(hs, HoldOf(id)) >= Need(lv[id].side, lv[id].price, lv[id].open, TakerFeeBps)

\* The trades of order r that are due to be settled: each with another maker,
\* whose hold covers the trade and what is open of it, a buy's cheapest first.
DueOK(due, lv, reg, hs, r) ==
    /\ due \in Seq(Trades)
    /\ \A i, j \in DOMAIN due : due[i].maker = due[j].maker => i = j
    /\ r.side = "buy" => \A i, j \in DOMAIN due : i <= j => due[i].price <= due[j].price
    /\ \A i \in DOMAIN due :
          LET t == due[i]
          IN  /\ t.maker # r.id /\ t.maker \in DOMAIN reg
              /\ reg[t.maker].side = E!Opposite(r.side)
              /\ E!PriceAllows(r, t.price)
              /\ SelfTradePrevention /\ RoundingSpares => reg[t.maker].user # r.user
              /\ t.maker \in DOMAIN lv => lv[t.maker].price = t.price
              /\ Left(hs, HoldOf(t.maker)) >=
                    Need(E!Opposite(r.side), t.price, t.qty + OpenOf(lv, t.maker), TakerFeeBps)

\* The hold of order r covers a quantity at the price it was taken at.
TakerCovered(hs, r, ref, qty) ==
    Left(hs, HoldOf(r.id)) >= Need(r.side, ref, qty, TakerFeeBps)

\* The next trade of order r is a buy above the price its hold was taken at.
Dearer(r, ref, due) == r.side = "buy" /\ due # << >> /\ due[1].price > ref

\* What a buy has traded was not dearer than what is for sale.
CheapestFirst(done, lv, r) ==
    r.side = "buy" =>
        \A i \in DOMAIN done : \A id \in DOMAIN lv :
            lv[id].side = "sell" => done[i].price <= lv[id].price

\* No order that r could trade with is its user's own.
NoneOwn(lv, reg, r) ==
    SelfTradePrevention /\ RoundingSpares =>
        \A id \in DOMAIN lv :
            id # r.id /\ lv[id].side # r.side /\ E!PriceAllows(r, lv[id].price)
            => reg[id].user # r.user

\* The risk engine knows the orders of the book but for the given ones.
KnownOK(lv, reg, known, but) ==
    RoundingSpares =>
        \A id \in DOMAIN lv \ but : \E o \in known :
            /\ o.user = reg[id].user /\ o.side = lv[id].side
            /\ o.price = lv[id].price /\ o.qty \in Nat /\ o.qty >= lv[id].open

\* Order r is tracked.
IsTracked(r, reg) == r.id \in DOMAIN reg /\ reg[r.id] = [user |-> r.user, side |-> r.side]

SubmitOK ==
    stage = "submit" =>
        /\ IsTracked(order, registry) /\ order.id \notin DOMAIN live
        /\ TakerCovered(holds, order, reference, order.qty)
        /\ NoneOwn(live, registry, order)

MatchingStageOK ==
    stage = "matching" =>
        /\ pc \in {"match", "return"} /\ call = MatchingRequest(order)
        /\ IsTracked(order, registry)
        /\ TakerCovered(holds, order, reference, order.qty)
        /\ NoneOwn(live, registry, order)
        /\ DueOK(trades, live, registry, holds, order)
        /\ pc = "match" => Owed(trades) + remaining = order.qty
        /\ pc = "match" /\ remaining > 0 => \A i \in DOMAIN trades : trades[i].maker \notin DOMAIN live
        /\ pc = "match" => CheapestFirst(trades, live, order)
        /\ pc = "return" => Owed(trades) + OpenOf(live, order.id) <= order.qty
        /\ pc = "return" /\ order.id \in DOMAIN live =>
              result.accepted /\ order.type = "limit" /\ live[order.id].price = order.price

RejectedOK ==
    stage = "rejected" => IsTracked(order, registry) /\ order.id \notin DOMAIN live

SettleOK ==
    stage = "settle" =>
        /\ fills # << >> => IsTracked(order, registry)
        /\ DueOK(fills, live, registry, holds, order)
        /\ \/ Dearer(order, reference, fills)
           \/ TakerCovered(holds, order, reference, Owed(fills) + OpenOf(live, order.id))
        /\ order.id \in DOMAIN live => order.type = "limit" /\ live[order.id].price = order.price

\* The price an order's hold is taken at.
ReferenceOK(r, ref) == ref \in Nat /\ (r.type = "limit" => ref = r.price)

StageOK ==
    /\ stage \in {"idle", "submit", "matching", "rejected", "settle"}
    /\ stage # "idle" => order \in PricedOrders /\ ReferenceOK(order, reference)
    /\ stage # "matching" => pc = "idle"
    /\ stage # "settle" => fills = << >>

\* The order that came to rest since the risk engine was told of the book.
Newcomer == IF stage \in {"matching", "settle"} THEN {order.id} ELSE {}

ViewsOK ==
    /\ riskAccounts = [u \in Users |-> View(accounts[u])]
    /\ KnownOK(live, registry, riskResting, Newcomer)
    /\ top \in [bid : Nat, ask : Nat] /\ top # NoTop

FlowInv ==
    /\ StageOK
    /\ TrackedOK(holds, registry) /\ RestingOK(live, registry, holds)
    /\ SubmitOK /\ MatchingStageOK /\ RejectedOK /\ SettleOK
    /\ ViewsOK
    /\ CompletionReleasesHolds
-----------------------------------------------------------------------------
(* The engine's and the ledger's proofs speak of the engine and the ledger   *)
(* of the pipeline.                                                          *)

\* What the proofs about the engine assume.
LEMMA EngineParts ==
    /\ NoId \notin OrderIds
    /\ Prices \subseteq Nat \ {0}
    /\ Quantities \subseteq Nat
    /\ EventCapacity \in Nat \ {0, 1}
  BY EngineAssumption

\* What the proofs about the ledger assume.
LEMMA ClearingParts ==
    /\ NoHold \notin {HoldOf(id) : id \in OrderIds}
       /\ {HoldOf(id) : id \in OrderIds} \subseteq {HoldOf(id) : id \in OrderIds} \cup {NoHold}
    /\ {Opening} \subseteq CP!Balance
       /\ \A o \in {Opening} :
             /\ o.availableQuote >= 0 /\ o.availableBase >= 0 /\ o.baseCost >= 0
             /\ o.frozenQuote = 0 /\ o.frozenBase = 0
    /\ {} \subseteq Users
    /\ Nat \subseteq Nat /\ Prices \subseteq Nat \ {0} /\ Nat \subseteq Nat
       /\ MakerFeeBps \in Nat /\ TakerFeeBps \in Nat
    /\ Inexact \subseteq CP!Assets
  BY EngineAssumption, ClearingAssumption DEF C!Balance, CP!Balance, C!Assets, CP!Assets

\* The operators with folds and least elements.
LEMMA SameSums ==
    /\ \A f, S : E!SumFunctionOnSet(f, S) = SumFunctionOnSet(f, S)
    /\ \A f, S : EP!SumFunctionOnSet(f, S) = SumFunctionOnSet(f, S)
<1>1. ASSUME NEW f, NEW S PROVE E!SumFunctionOnSet(f, S) = SumFunctionOnSet(f, S)
      BY DEF SumFunctionOnSet, E!SumFunctionOnSet, FoldFunctionOnSet, E!FoldFunctionOnSet,
         MapThenFoldSet, E!MapThenFoldSet
<1>2. ASSUME NEW f, NEW S PROVE EP!SumFunctionOnSet(f, S) = SumFunctionOnSet(f, S)
      BY DEF SumFunctionOnSet, EP!SumFunctionOnSet, FoldFunctionOnSet, EP!FoldFunctionOnSet,
         MapThenFoldSet, EP!MapThenFoldSet
<1> QED BY <1>1, <1>2

\* What rests in the book, and at which prices.
LEMMA SameBook ==
    /\ \A f, q : E!Open(f, q) = EP!Open(f, q)
    /\ \A S : E!Min(S) = EP!Min(S) /\ E!Max(S) = EP!Max(S)
    /\ \A s : E!Levels(s) = EP!Levels(s) /\ E!BestPrice(s) = EP!BestPrice(s) /\ E!Opposite(s) = EP!Opposite(s)
    /\ \A r, p : E!PriceAllows(r, p) <=> EP!PriceAllows(r, p)
<1>1. ASSUME NEW f, NEW q PROVE E!Open(f, q) = EP!Open(f, q)
      BY SameSums DEF E!Open, EP!Open, E!ToSet, EP!ToSet
<1>2. ASSUME NEW S PROVE E!Min(S) = EP!Min(S) /\ E!Max(S) = EP!Max(S)
      BY DEF E!Min, EP!Min, E!Max, EP!Max
<1>3. ASSUME NEW s PROVE E!Levels(s) = EP!Levels(s) /\ E!Opposite(s) = EP!Opposite(s)
      BY DEF E!Levels, EP!Levels, E!Opposite, EP!Opposite
<1>4. ASSUME NEW s PROVE E!BestPrice(s) = EP!BestPrice(s)
      BY <1>2, <1>3 DEF E!BestPrice, EP!BestPrice
<1>5. ASSUME NEW r, NEW p PROVE E!PriceAllows(r, p) <=> EP!PriceAllows(r, p)
      BY DEF E!PriceAllows, EP!PriceAllows
<1> QED BY <1>1, <1>2, <1>3, <1>4, <1>5

\* The ledger's calls.
LEMMA SameLedger ==
    /\ \A a, h, asset, n : C!Freeze(a, h, asset, n) => CP!Freeze(a, h, asset, n)
    /\ \A h : C!ReleaseHold(h) => CP!ReleaseHold(h)
    /\ \A f : C!SettleSpotTrade(f) => CP!SettleSpotTrade(f)
<1> C!Roundings = CP!Roundings
    BY DEF C!Roundings, CP!Roundings
<1>1. ASSUME NEW a, NEW h, NEW asset, NEW n, C!Freeze(a, h, asset, n) PROVE CP!Freeze(a, h, asset, n)
  <2>1. ASSUME NEW rounding
        PROVE  C!FreezeStatus(a, h, asset, n, rounding) = CP!FreezeStatus(a, h, asset, n, rounding)
        BY DEF C!FreezeStatus, CP!FreezeStatus, C!Less, CP!Less
  <2> QED BY <1>1, <2>1 DEF C!Freeze, CP!Freeze, C!FreezeDelta, CP!FreezeDelta,
         C!Post, CP!Post, C!Plus, CP!Plus, C!Delta, CP!Delta, C!With, CP!With
<1>2. ASSUME NEW h, C!ReleaseHold(h) PROVE CP!ReleaseHold(h)
      BY <1>2 DEF C!ReleaseHold, CP!ReleaseHold, C!Post, CP!Post, C!Plus, CP!Plus,
         C!ReleaseDelta, CP!ReleaseDelta, C!Delta, CP!Delta, C!Without, CP!Without
<1>3. ASSUME NEW f, C!SettleSpotTrade(f) PROVE CP!SettleSpotTrade(f)
  <2>1. /\ C!Notional(f) = CP!Notional(f) /\ C!BuyerFee(f) = CP!BuyerFee(f)
        /\ C!SellerFee(f) = CP!SellerFee(f) /\ C!BuyerConsumes(f) = CP!BuyerConsumes(f)
        BY DEF C!BuyerConsumes, CP!BuyerConsumes, C!BuyerFee, CP!BuyerFee, C!SellerFee, CP!SellerFee,
           C!FeeAmount, CP!FeeAmount, C!Notional, CP!Notional
  <2>2. C!CostReleased(f) = CP!CostReleased(f)
        BY DEF C!CostReleased, CP!CostReleased
  <2>3. /\ C!BuyerDelta(f) = CP!BuyerDelta(f) /\ C!SellerDelta(f) = CP!SellerDelta(f)
        /\ C!BuyerEntry(f) = CP!BuyerEntry(f) /\ C!SellerEntry(f) = CP!SellerEntry(f)
        BY <2>1, <2>2 DEF C!BuyerDelta, CP!BuyerDelta, C!SellerDelta, CP!SellerDelta,
           C!BuyerEntry, CP!BuyerEntry, C!SellerEntry, CP!SellerEntry, C!Delta, CP!Delta
  <2>4. ASSUME NEW g, NEW a, NEW d PROVE C!Post(g, a, d) = CP!Post(g, a, d)
        BY DEF C!Post, CP!Post, C!Plus, CP!Plus, C!Delta, CP!Delta
  <2>5. ASSUME NEW hs, NEW h, NEW n PROVE C!Consume(hs, h, n) = CP!Consume(hs, h, n)
        BY DEF C!Consume, CP!Consume, C!Without, CP!Without
  <2>6. ASSUME NEW rounding PROVE C!SettleStatus(f, rounding) = CP!SettleStatus(f, rounding)
        BY <2>1 DEF C!SettleStatus, CP!SettleStatus, C!HoldCovers, CP!HoldCovers, C!Less, CP!Less
  <2>7. C!Message(f.trade) = CP!Message(f.trade)
        BY DEF C!Message, CP!Message
  <2> QED BY <1>3, <2>1, <2>3, <2>4, <2>5, <2>6, <2>7 DEF C!SettleSpotTrade, CP!SettleSpotTrade
<1> QED BY <1>1, <1>2, <1>3

\* The engine's steps.
LEMMA SameEngine ==
    /\ E!Init => EP!Init
    /\ \A r : E!Submit(r) => EP!Submit(r)
    /\ E!Match => EP!Match
    /\ E!Finish => EP!Finish
    /\ E!EmitEvent => EP!EmitEvent
    /\ E!Return => EP!Return
<1>1. E!Init => EP!Init
      BY DEF E!Init, EP!Init, E!Sides, EP!Sides, E!Idle, EP!Idle, E!EmptyMap, EP!EmptyMap
<1>2. E!Return => EP!Return
      BY DEF E!Return, EP!Return, E!Idle, EP!Idle, E!bookVars, EP!bookVars
<1>3. E!EmitEvent => EP!EmitEvent
      BY DEF E!EmitEvent, EP!EmitEvent, E!bookVars, EP!bookVars, E!callVars, EP!callVars
<1>4. ASSUME NEW r PROVE /\ E!WouldCross(r) <=> EP!WouldCross(r)
                         /\ E!CanFillFully(r) <=> EP!CanFillFully(r)
  <2>1. E!WouldCross(r) <=> EP!WouldCross(r)
        BY SameBook DEF E!WouldCross, EP!WouldCross
  <2>2. E!Reachable(r) = EP!Reachable(r)
        BY SameBook DEF E!Reachable, EP!Reachable
  <2>3. ASSUME NEW s, NEW ps PROVE E!Resting(s, ps) = EP!Resting(s, ps)
        BY SameBook, SameSums DEF E!Resting, EP!Resting
  <2>4. E!CanFillFully(r) <=> EP!CanFillFully(r)
        BY <2>2, <2>3, SameBook DEF E!CanFillFully, EP!CanFillFully
  <2> QED BY <2>1, <2>4
<1>5. ASSUME NEW r, E!Submit(r) PROVE EP!Submit(r)
  <2>1. E!Refusal(r) = EP!Refusal(r)
        BY <1>4 DEF E!Refusal, EP!Refusal
  <2> QED BY <1>5, <2>1 DEF E!Submit, EP!Submit, E!SubmitInvalid, EP!SubmitInvalid,
          E!SubmitRefused, EP!SubmitRefused, E!SubmitAccepted, EP!SubmitAccepted, E!Answer, EP!Answer,
          E!Rejected, EP!Rejected, E!Result, EP!Result, E!OrderEvent, EP!OrderEvent,
          E!bookVars, EP!bookVars
<1>6. /\ E!CanMatch <=> EP!CanMatch
      /\ E!Maker = EP!Maker /\ E!Fill = EP!Fill
      BY SameBook DEF E!CanMatch, EP!CanMatch, E!Maker, EP!Maker, E!Fill, EP!Fill
<1>7. ASSUME NEW d PROVE E!DepthEvent(d) = EP!DepthEvent(d)
  <2>1. ASSUME NEW S PROVE E!Cardinality(S) = EP!Cardinality(S)
        BY DEF E!Cardinality, EP!Cardinality
  <2> QED BY <2>1, SameBook DEF E!DepthEvent, EP!DepthEvent
<1>8. E!Match => EP!Match
  <2>1. ASSUME NEW q, NEW id PROVE E!RemoveFirst(q, id) = EP!RemoveFirst(q, id)
        BY SameBook DEF E!RemoveFirst, EP!RemoveFirst, E!RemoveAt, EP!RemoveAt,
           E!SelectInSeq, EP!SelectInSeq
  <2>2. ASSUME NEW id PROVE E!RemoveResting(id) => EP!RemoveResting(id)
        BY <2>1, SameBook DEF E!RemoveResting, EP!RemoveResting, E!Without, EP!Without,
           E!DepthUpdate, EP!DepthUpdate
  <2>3. ASSUME NEW t PROVE E!TradeEvent(t) = EP!TradeEvent(t)
        BY DEF E!TradeEvent, EP!TradeEvent
  <2>4. E!FillMaker => EP!FillMaker
        BY <1>6, <1>7, <2>2, <2>3 DEF E!FillMaker, EP!FillMaker, E!Execute, EP!Execute,
           E!OrderEvent, EP!OrderEvent
  <2>5. E!FillPartly => EP!FillPartly
        BY <1>6, <1>7, SameBook DEF E!FillPartly, EP!FillPartly, E!Execute, EP!Execute,
           E!DepthUpdate, EP!DepthUpdate, E!TradeEvent, EP!TradeEvent, E!OrderEvent, EP!OrderEvent
  <2> QED BY <2>4, <2>5 DEF E!Match, EP!Match
<1>9. E!Finish => EP!Finish
  <2>1. (E!Finishing <=> EP!Finishing) /\ E!Executed = EP!Executed
        BY <1>6 DEF E!Finishing, EP!Finishing, E!Executed, EP!Executed
  <2>2. ASSUME NEW r, NEW res PROVE E!Answer(r, res) <=> EP!Answer(r, res)
        BY DEF E!Answer, EP!Answer
  <2>3. ASSUME NEW a, NEW b, NEW c, NEW d, NEW e PROVE E!Result(a, b, c, d, e) = EP!Result(a, b, c, d, e)
        BY DEF E!Result, EP!Result
  <2>4. ASSUME NEW a, NEW b, NEW c, NEW d PROVE E!OrderEvent(a, b, c, d) = EP!OrderEvent(a, b, c, d)
        BY DEF E!OrderEvent, EP!OrderEvent
  <2>5. ASSUME NEW r, NEW n PROVE E!AddResting(r, n) => EP!AddResting(r, n)
        BY DEF E!AddResting, EP!AddResting, E!DepthUpdate, EP!DepthUpdate, E!With, EP!With
  <2> QED BY <2>1, <2>2, <2>3, <2>4, <2>5, <1>7 DEF E!Finish, EP!Finish, E!FinishFilled, EP!FinishFilled,
             E!FinishDropped, EP!FinishDropped, E!FinishMarketRejected, EP!FinishMarketRejected,
             E!FinishResting, EP!FinishResting, E!bookVars, EP!bookVars
<1> QED BY <1>1, <1>2, <1>3, <1>5, <1>8, <1>9

-----------------------------------------------------------------------------
(* What a step of the engine does, as far as the pipeline is concerned.      *)

\* A parsed order is a request the engine knows.
LEMMA RequestType ==
    ASSUME NEW r \in PricedOrders
    PROVE  MatchingRequest(r) \in EP!Requests
  BY EngineAssumption DEF PricedOrders, Orders, MatchingRequest, EP!Requests, E!Tifs, EP!Tifs, E!Sides, EP!Sides

\* The engine's invariant holds at first and is kept by the steps of the pipeline.
LEMMA EngineKeeps ==
    /\ E!Init => EP!IInv
    /\ EP!IInv /\ UNCHANGED engineVars => EP!IInv'
    /\ \A r \in PricedOrders : EP!IInv /\ E!Submit(MatchingRequest(r)) => EP!IInv'
    /\ EP!IInv /\ (E!Match \/ E!Finish \/ E!EmitEvent \/ E!Return) => EP!IInv'
<1>1. E!Init => EP!IInv
      BY SameEngine, EngineParts, EP!InitInv
<1>2. EP!IInv /\ [EP!Next]_EP!vars => EP!IInv'
      BY EngineParts, EP!NextInv
<1>3. EP!IInv /\ UNCHANGED engineVars => EP!IInv'
      BY <1>2 DEF engineVars, EP!vars, EP!bookVars, EP!callVars
<1>4. ASSUME NEW r \in PricedOrders, E!Submit(MatchingRequest(r)) PROVE EP!Next
      BY <1>4, RequestType, SameEngine DEF EP!Next
<1>5. E!Match \/ E!Finish \/ E!EmitEvent \/ E!Return => EP!Next
      BY SameEngine DEF EP!Next
<1> QED BY <1>1, <1>2, <1>3, <1>4, <1>5

\* What the pipeline uses of the engine's invariant.
LEMMA LiveFacts ==
    ASSUME EP!IInv
    PROVE  /\ DOMAIN live \subseteq OrderIds
           /\ \A id \in DOMAIN live : live[id] \in [side : E!Sides, price : Prices, open : Nat \ {0}]
           /\ depth \in [E!Sides -> [Prices -> Nat]]
           /\ pc = "idle" => trades = << >>
  BY DEF EP!IInv, EP!BookInv, EP!BookTypes, EP!Orders, EP!CallInv, EP!IdleOK, E!Sides, EP!Sides

\* submit begins.
LEMMA SubmitEffect ==
    ASSUME NEW r, E!Submit(r)
    PROVE  /\ pc = "idle" /\ pc' \in {"match", "return"} /\ call' = r
           /\ live' = live /\ trades' = trades
           /\ pc' = "match" => remaining' = r.qty
  BY DEF E!Submit, E!SubmitInvalid, E!SubmitRefused, E!SubmitAccepted, E!Answer, E!bookVars

\* A fill of q with maker m, than which no order is better.
Filled(m, q) ==
    /\ m \in DOMAIN live /\ q \in Nat \ {0} /\ q <= remaining
    /\ live[m].side = E!Opposite(call.side) /\ E!PriceAllows(call, live[m].price)
    /\ call.side = "buy" =>
          \A id \in DOMAIN live : live[id].side = "sell" => live[m].price <= live[id].price
    /\ trades' = Append(trades, [maker |-> m, price |-> live[m].price, qty |-> q])
    /\ remaining' = remaining - q
    /\ \/ q = live[m].open /\ live' = [id \in DOMAIN live \ {m} |-> live[id]]
       \/ q = remaining /\ q < live[m].open /\ live' = [live EXCEPT ![m].open = @ - q]

\* One fill of the matching loop.
LEMMA FillEffect ==
    ASSUME EP!IInv, E!Match
    PROVE  /\ pc = "match" /\ pc' = "match" /\ call' = call
           /\ remaining \in Nat /\ call.id \notin DOMAIN live
           /\ \E m, q : Filled(m, q)
<1>1. pc = "match" /\ pc' = "match" /\ call' = call
      BY DEF E!Match, E!FillMaker, E!FillPartly
<1>2. EP!BookInv /\ call \in EP!Requests /\ remaining \in Nat /\ call.id \notin DOMAIN live
      BY <1>1, EngineParts, EP!MatchingFacts
<1>3. EP!Match
      BY SameEngine
<1>4. EP!CanMatch
      BY <1>3 DEF EP!Match, EP!FillMaker, EP!FillPartly
<1>5. PICK m, q : m = EP!Maker /\ q = EP!Fill
      OBVIOUS
<1>6. /\ m \in DOMAIN live /\ live[m] \in EP!Orders /\ q \in Nat \ {0} /\ q <= remaining
      /\ live[m].side = EP!Opposite(call.side)
      /\ live[m].price \in EP!Reachable(call)
      /\ q = (IF remaining <= live[m].open THEN remaining ELSE live[m].open)
      BY <1>2, <1>4, <1>5, EngineParts, EP!MakerFacts
<1>7. live[m].side = E!Opposite(call.side) /\ E!PriceAllows(call, live[m].price)
      BY <1>6, SameBook DEF EP!Reachable
<1>8. /\ trades' = Append(trades, [maker |-> m, price |-> live[m].price, qty |-> q])
      /\ remaining' = remaining - q
      BY <1>3, <1>5 DEF EP!Match, EP!FillMaker, EP!FillPartly, EP!Execute
<1>9. \/ q = live[m].open /\ live' = [id \in DOMAIN live \ {m} |-> live[id]]
      \/ q < live[m].open /\ live' = [live EXCEPT ![m].open = @ - q]
      BY <1>3, <1>5 DEF EP!Match, EP!FillMaker, EP!FillPartly, EP!RemoveResting, EP!Without
<1>10. live[m].open \in Nat
      BY <1>6 DEF EP!Orders
<1>11. q < live[m].open => q = remaining
      BY <1>2, <1>6, <1>10
<1>12. ASSUME call.side = "buy", NEW id \in DOMAIN live, live[id].side = "sell"
       PROVE  live[m].price <= live[id].price
  <2>1. EP!Opposite(call.side) = "sell" /\ "sell" \in EP!Sides
        BY <1>12 DEF EP!Opposite, EP!Sides
  <2>2. live[m].price = EP!BestPrice("sell")
        BY <1>2, <1>4, <1>5, <2>1, EngineParts, EP!MakerFacts
  <2>3. live[id].price \in Prices /\ id \in EP!At(live, "sell", live[id].price)
        BY <1>2, <1>12 DEF EP!BookInv, EP!BookTypes, EP!Orders, EP!At
  <2>4. id \in EP!ToSet(book["sell"][live[id].price])
        BY <1>2, <2>1, <2>3 DEF EP!BookInv, EP!QueuesOK
  <2>5. live[id].price \in EP!Levels("sell")
        BY <2>3, <2>4 DEF EP!Levels, EP!ToSet
  <2>6. EP!BookTypes /\ EP!QueuesOK /\ EP!ArrivalOK
        BY <1>2 DEF EP!BookInv
  <2>7. \A p \in EP!Levels("sell") : EP!BestPrice("sell") <= p
        BY <2>1, <2>5, <2>6, EngineParts, EP!BestIsBest
  <2> QED BY <2>2, <2>5, <2>7
<1>13. Filled(m, q)
      BY <1>6, <1>7, <1>8, <1>9, <1>11, <1>12 DEF Filled
<1> QED BY <1>1, <1>2, <1>13

\* The end of the matching: what is left of a limit order may come to rest.
LEMMA FinishEffect ==
    ASSUME E!Finish
    PROVE  /\ pc = "match" /\ pc' = "return" /\ call' = call /\ trades' = trades
           /\ \/ live' = live
              \/ /\ remaining > 0 /\ call.type = "limit" /\ result'.accepted
                 /\ live' = With(live, call.id, [side |-> call.side, price |-> call.price, open |-> remaining])
<1>1. /\ pc = "match" /\ pc' = "return" /\ call' = call /\ trades' = trades
      /\ live' = live \/ E!FinishResting
      BY DEF E!Finish, E!FinishFilled, E!FinishDropped, E!FinishMarketRejected, E!FinishResting,
         E!Finishing, E!Answer, E!bookVars
<1>2. ASSUME E!FinishResting
      PROVE  /\ remaining > 0 /\ call.type = "limit" /\ result'.accepted
             /\ live' = With(live, call.id, [side |-> call.side, price |-> call.price, open |-> remaining])
      BY <1>2 DEF E!FinishResting, E!AddResting, E!Answer, E!Result, E!With, With
<1> QED BY <1>1, <1>2

\* Publishing changes nothing that the pipeline looks at.
LEMMA EmitEffect ==
    ASSUME E!EmitEvent
    PROVE  UNCHANGED <<live, pc, call, remaining, trades, result>>
  BY DEF E!EmitEvent, E!bookVars, E!callVars

\* submit returns.
LEMMA ReturnEffect ==
    ASSUME E!Return
    PROVE  pc = "return" /\ pc' = "idle" /\ live' = live /\ trades' = << >>
  BY DEF E!Return, E!bookVars

-----------------------------------------------------------------------------
(* Fees and sums.                                                            *)

\* Division by a positive number.
LEMMA Quotients ==
    ASSUME NEW a \in Nat, NEW b \in Nat, NEW n \in Nat \ {0}
    PROVE  /\ a \div n \in Nat
           /\ a <= b => a \div n <= b \div n
           /\ a \div n + b \div n <= (a + b) \div n
<1>1. /\ a = n * (a \div n) + (a % n) /\ a \div n \in Int /\ a % n \in 0..n - 1
      /\ b = n * (b \div n) + (b % n) /\ b \div n \in Int /\ b % n \in 0..n - 1
      /\ a + b = n * ((a + b) \div n) + ((a + b) % n) /\ (a + b) \div n \in Int /\ (a + b) % n \in 0..n - 1
      OBVIOUS
<1>2. PICK x, y, z \in Int : x = a \div n /\ y = b \div n /\ z = (a + b) \div n
      BY <1>1
<1>3. PICK u, v, w \in 0..n - 1 : a = n * x + u /\ b = n * y + v /\ a + b = n * z + w
      BY <1>1, <1>2
<1>4. x \in Nat
  <2>1. ASSUME x <= -1 PROVE FALSE
    <3>1. n * x <= -n
          BY <2>1
    <3> QED BY <3>1, <1>3
  <2> QED BY <2>1
<1>5. ASSUME a <= b PROVE x <= y
  <2>1. ASSUME y + 1 <= x PROVE FALSE
    <3>1. n * (y + 1) <= n * x /\ n * (y + 1) = n * y + n /\ n * y \in Int /\ n * x \in Int
          BY <2>1
    <3> QED BY <3>1, <1>3, <1>5
  <2> QED BY <2>1
<1>6. x + y <= z
  <2>1. ASSUME z + 1 <= x + y PROVE FALSE
    <3>1. /\ n * (z + 1) <= n * (x + y) /\ n * (z + 1) = n * z + n /\ n * (x + y) = n * x + n * y
          /\ n * y \in Int /\ n * x \in Int /\ n * z \in Int
          BY <2>1
    <3> QED BY <3>1, <1>3
  <2> QED BY <2>1
<1> QED BY <1>2, <1>4, <1>5, <1>6

\* Products of natural numbers.
LEMMA Products ==
    ASSUME NEW a \in Nat, NEW b \in Nat, NEW c \in Nat, NEW d \in Nat
    PROVE  /\ a * b \in Nat
           /\ a <= c /\ b <= d => a * b <= c * d
           /\ a * (b + c) = a * b + a * c /\ (a + b) * c = a * c + b * c
<1>1. a * b \in Nat /\ a * (b + c) = a * b + a * c /\ (a + b) * c = a * c + b * c
      OBVIOUS
<1>2. ASSUME a <= c, b <= d PROVE a * b <= c * d
  <2>1. a * b <= c * b
        BY <1>2
  <2>2. c * b <= c * d
        BY <1>2
  <2>3. a * b \in Int /\ c * b \in Int /\ c * d \in Int
        OBVIOUS
  <2> QED BY <2>1, <2>2, <2>3
<1> QED BY <1>1, <1>2

\* Fees grow with amount and rate, and two fees are not more than that of the sum.
LEMMA FeeFacts ==
    ASSUME NEW a \in Nat, NEW b \in Nat, NEW m \in Nat, NEW n \in Nat
    PROVE  /\ C!FeeAmount(a, m) \in Nat
           /\ a <= b /\ m <= n => C!FeeAmount(a, m) <= C!FeeAmount(b, n)
           /\ C!FeeAmount(a, m) + C!FeeAmount(b, m) <= C!FeeAmount(a + b, m)
<1>1. /\ a * m \in Nat /\ b * n \in Nat /\ b * m \in Nat /\ (a <= b /\ m <= n => a * m <= b * n)
      /\ (a + b) * m = a * m + b * m
      BY Products
<1>2. 10000 \in Nat \ {0}
      OBVIOUS
<1>3. C!FeeAmount(a, m) \in Nat
      BY <1>1, <1>2, Quotients DEF C!FeeAmount
<1>4. a <= b /\ m <= n => C!FeeAmount(a, m) <= C!FeeAmount(b, n)
      BY <1>1, <1>2, Quotients DEF C!FeeAmount
<1>5. C!FeeAmount(a, m) + C!FeeAmount(b, m) <= C!FeeAmount(a + b, m)
      BY <1>1, <1>2, Quotients DEF C!FeeAmount
<1> QED BY <1>3, <1>4, <1>5

\* What a trade of a at price p costs and what it takes for b more, at no better
\* a price or rate, is covered by what it takes for both.
LEMMA CostSplits ==
    ASSUME NEW p \in Nat, NEW l \in Nat, p <= l, NEW a \in Nat, NEW b \in Nat,
           NEW m \in Nat, NEW n \in Nat, m <= n
    PROVE  Cost(p, a, m) \in Nat /\ Cost(p, a, m) + Cost(l, b, n) <= Cost(l, a + b, n)
<1>1. PICK x, y, z \in Nat : x = p * a /\ y = l * b /\ z = l * a
      BY Products
<1>2. l * (a + b) = z + y /\ x <= z
      BY <1>1, Products
<1>3. C!FeeAmount(x, m) \in Nat /\ C!FeeAmount(x, m) <= C!FeeAmount(z, n)
      BY <1>2, FeeFacts
<1>4. /\ C!FeeAmount(z, n) \in Nat /\ C!FeeAmount(y, n) \in Nat
      /\ C!FeeAmount(z, n) + C!FeeAmount(y, n) <= C!FeeAmount(z + y, n)
      BY FeeFacts
<1>5. C!FeeAmount(z + y, n) \in Nat
  <2>1. z + y \in Nat
        OBVIOUS
  <2> QED BY <2>1, FeeFacts
<1> QED BY <1>1, <1>2, <1>3, <1>4, <1>5 DEF Cost

\* The same for either side; what a quantity needs grows with it.
LEMMA NeedFacts ==
    ASSUME NEW side, NEW p \in Nat \ {0}, NEW l \in Nat, side = "buy" => p <= l,
           NEW a \in Nat, NEW b \in Nat, NEW m \in Nat, NEW n \in Nat, m <= n
    PROVE  /\ Need(side, p, a, m) \in Nat /\ Need(side, l, b, n) \in Nat
           /\ Need(side, p, a, m) + Need(side, l, b, n) <= Need(side, l, a + b, n)
           /\ a > 0 => Need(side, p, a, m) > 0
           /\ Need(side, l, b, m) <= Need(side, l, a + b, n)
           /\ Need(side, p, a, m) >= 0
<1>1. ASSUME NEW q \in Nat, NEW x \in Nat, NEW k \in Nat PROVE Cost(x, q, k) \in Nat
  <2>1. x <= x /\ k <= k
        OBVIOUS
  <2> QED BY <2>1, CostSplits
<1>2. Cost(l, b, m) <= Cost(l, a + b, n) /\ Cost(l, b, m) \in Nat
  <2>1. l <= l /\ a + b = b + a
        OBVIOUS
  <2>2. Cost(l, b, m) \in Nat /\ Cost(l, b, m) + Cost(l, a, n) <= Cost(l, b + a, n)
        BY <2>1, CostSplits
  <2>3. Cost(l, a, n) \in Nat
        BY <1>1
  <2>4. Cost(l, a + b, n) \in Nat
    <3>1. a + b \in Nat
          OBVIOUS
    <3> QED BY <3>1, <1>1
  <2> QED BY <2>1, <2>2, <2>3, <2>4
<1>3. a > 0 => Cost(p, a, m) > 0
  <2>1. ASSUME a > 0 PROVE p * a > 0 /\ p * a \in Nat
        BY <2>1
  <2>2. ASSUME NEW x \in Nat PROVE C!FeeAmount(x, m) \in Nat
        BY FeeFacts
  <2> QED BY <2>1, <2>2 DEF Cost
<1>4. CASE side = "buy"
  <2>1. Cost(p, a, m) \in Nat /\ Cost(l, b, n) \in Nat
        BY <1>1
  <2>2. Cost(p, a, m) + Cost(l, b, n) <= Cost(l, a + b, n)
        BY <1>4, CostSplits
  <2> QED BY <1>2, <1>3, <1>4, <2>1, <2>2 DEF Need
<1>5. CASE side # "buy"
      BY <1>5 DEF Need
<1> QED BY <1>4, <1>5

\* The elements of a sequence, and of one that is longer or shorter by one.
LEMMA ElementsOf ==
    ASSUME NEW due \in Seq(Trades)
    PROVE  /\ IsFiniteSet(ToSet(due)) /\ ToSet(due) \subseteq Trades
           /\ \A t \in Trades : ToSet(Append(due, t)) = ToSet(due) \cup {t}
<1>1. IsFiniteSet(1..Len(due)) /\ DOMAIN due = 1..Len(due)
      BY FS_Interval
<1>2. PICK S : S = ToSet(due)
      OBVIOUS
<1>3. S = {due[i] : i \in 1..Len(due)}
      BY <1>1, <1>2 DEF ToSet
<1>4. [i \in 1..Len(due) |-> due[i]] \in Surjection(1..Len(due), S)
      BY <1>3 DEF Surjection
<1>5. IsFiniteSet(S)
      BY <1>1, <1>4, FS_Surjection
<1>6. S \subseteq Trades
      BY <1>3
<1>7. ASSUME NEW t \in Trades PROVE ToSet(Append(due, t)) = S \cup {t}
  <2>1. /\ DOMAIN Append(due, t) = 1..(Len(due) + 1) /\ Len(due) \in Nat
        /\ \A i \in 1..Len(due) : Append(due, t)[i] = due[i]
        /\ Append(due, t)[Len(due) + 1] = t
        OBVIOUS
  <2>2. 1..(Len(due) + 1) = 1..Len(due) \cup {Len(due) + 1}
        BY <2>1
  <2> QED BY <1>3, <2>1, <2>2 DEF ToSet
<1> QED BY <1>2, <1>5, <1>6, <1>7

\* What is owed is a number.
LEMMA OwedType ==
    /\ Owed(<< >>) = 0
    /\ \A due \in Seq(Trades) : Owed(due) \in Nat
<1>1. Owed(<< >>) = 0
  <2>1. ToSet(<< >>) = {}
        BY DEF ToSet
  <2>2. PICK f : f = [t \in {} |-> t.qty]
        OBVIOUS
  <2>3. IsFiniteSet({}) /\ \A x \in {} : f[x] \in Int
        BY FS_EmptySet
  <2>4. SumFunctionOnSet(f, {}) = 0
        BY <2>3, SumSplits
  <2> QED BY <2>1, <2>2, <2>4 DEF Owed
<1>2. ASSUME NEW due \in Seq(Trades) PROVE Owed(due) \in Nat
  <2>1. PICK S, f : S = ToSet(due) /\ f = [t \in ToSet(due) |-> t.qty]
        OBVIOUS
  <2>2. IsFiniteSet(S) /\ \A t \in S : f[t] \in Nat
        BY <2>1, ElementsOf DEF Trades
  <2>3. SumFunctionOnSet(f, S) \in Nat
        BY <2>2, SumIsNat
  <2> QED BY <2>1, <2>3 DEF Owed
<1> QED BY <1>1, <1>2

\* One more trade.
LEMMA OwedAppend ==
    ASSUME NEW due \in Seq(Trades), NEW t \in Trades, \A i \in DOMAIN due : due[i].maker # t.maker
    PROVE  Owed(Append(due, t)) = Owed(due) + t.qty
<1>1. PICK S, f, g : /\ S = ToSet(due) /\ f = [x \in ToSet(due) |-> x.qty]
                     /\ g = [x \in ToSet(due) \cup {t} |-> x.qty]
      OBVIOUS
<1>2. IsFiniteSet(S) /\ S \subseteq Trades /\ t \notin S
      BY <1>1, ElementsOf DEF ToSet
<1>3. (\A x \in S : f[x] \in Int) /\ (\A x \in S \cup {t} : g[x] \in Int) /\ g[t] = t.qty
      BY <1>1, <1>2 DEF Trades
<1>4. \A x \in S : g[x] = f[x]
      BY <1>1
<1>5. IsFiniteSet(S \cup {t}) /\ (S \cup {t}) \ {t} = S
      BY <1>2, FS_AddElement
<1>6. SumFunctionOnSet(g, S \cup {t}) = g[t] + SumFunctionOnSet(g, S)
      BY <1>3, <1>5, SumSplits
<1>7. SumFunctionOnSet(g, S) = SumFunctionOnSet(f, S)
      BY <1>2, <1>3, <1>4, SumOfEquals
<1>8. Owed(Append(due, t)) = SumFunctionOnSet(g, S \cup {t}) /\ Owed(due) = SumFunctionOnSet(f, S)
      BY <1>1, ElementsOf DEF Owed
<1>9. SumFunctionOnSet(f, S) \in Int
      BY <1>2, <1>3, SumSplits
<1> QED BY <1>3, <1>6, <1>7, <1>8, <1>9

\* The first trade is settled.
LEMMA OwedTail ==
    ASSUME NEW due \in Seq(Trades), due # << >>,
           \A i, j \in DOMAIN due : due[i].maker = due[j].maker => i = j
    PROVE  /\ 1 \in DOMAIN due /\ due[1] \in Trades
           /\ Tail(due) \in Seq(Trades) /\ Owed(due) = due[1].qty + Owed(Tail(due))
           /\ \A i \in DOMAIN Tail(due) : i + 1 \in DOMAIN due /\ Tail(due)[i] = due[i + 1] /\ i + 1 # 1
<1>1. /\ Len(due) \in Nat \ {0} /\ DOMAIN due = 1..Len(due)
      /\ Tail(due) \in Seq(Trades) /\ DOMAIN Tail(due) = 1..(Len(due) - 1)
      /\ \A i \in 1..(Len(due) - 1) : Tail(due)[i] = due[i + 1]
      BY HeadTailProperties
<1>2. 1 \in DOMAIN due /\ due[1] \in Trades
      BY <1>1
<1>3. \A i \in DOMAIN Tail(due) : i + 1 \in DOMAIN due /\ Tail(due)[i] = due[i + 1] /\ i + 1 # 1
      BY <1>1
<1>4. PICK t, rest : t = due[1] /\ rest = Tail(due)
      OBVIOUS
<1>5. \A i \in DOMAIN rest : rest[i].maker # t.maker
      BY <1>2, <1>3, <1>4
<1>6. ToSet(due) = ToSet(rest) \cup {t}
  <2>1. \A i \in DOMAIN due : i = 1 \/ (i - 1 \in DOMAIN rest /\ rest[i - 1] = due[i])
    <3>1. ASSUME NEW i \in DOMAIN due, i # 1 PROVE i - 1 \in DOMAIN rest /\ (i - 1) + 1 = i
          BY <1>1, <1>4, <3>1
    <3> QED BY <1>1, <1>4, <3>1
  <2>2. ASSUME NEW x \in ToSet(due) PROVE x \in ToSet(rest) \cup {t}
    <3>1. PICK i \in DOMAIN due : x = due[i]
          BY DEF ToSet
    <3>2. CASE i = 1
          BY <1>4, <3>1, <3>2
    <3>3. CASE i # 1
      <4>1. i - 1 \in DOMAIN rest /\ rest[i - 1] = x
            BY <2>1, <3>1, <3>3
      <4> QED BY <4>1 DEF ToSet
    <3> QED BY <3>2, <3>3
  <2>3. t \in ToSet(due) /\ ToSet(rest) \subseteq ToSet(due)
        BY <1>2, <1>3, <1>4 DEF ToSet
  <2> QED BY <2>2, <2>3
<1>7. Owed(Append(rest, t)) = Owed(due)
  <2>1. ToSet(Append(rest, t)) = ToSet(due)
        BY <1>1, <1>2, <1>4, <1>6, ElementsOf
  <2> QED BY <2>1 DEF Owed
<1>8. Owed(Append(rest, t)) = Owed(rest) + t.qty
      BY <1>1, <1>2, <1>4, <1>5, OwedAppend
<1>9. Owed(rest) \in Nat /\ t.qty \in Nat
      BY <1>1, <1>2, <1>4, OwedType DEF Trades
<1> QED BY <1>1, <1>2, <1>3, <1>4, <1>7, <1>8, <1>9

-----------------------------------------------------------------------------
(* What a call of the ledger does, as far as the pipeline is concerned.      *)

HoldIds == {HoldOf(id) : id \in OrderIds}

\* Holds are told apart by their orders.
LEMMA HoldsApart == \A a, b : HoldOf(a) = HoldOf(b) => a = b
  BY DEF HoldOf

\* Every user has an account.
LedgerInv == CP!HeldInv /\ DOMAIN accounts = Users

\* What the pipeline uses of the ledger's invariant.
LEMMA LedgerFacts ==
    ASSUME LedgerInv
    PROVE  /\ DOMAIN accounts = Users /\ \A u \in Users : accounts[u] \in C!Balance
           /\ DOMAIN holds \subseteq HoldIds
           /\ \A h \in DOMAIN holds :
                 holds[h] \in [account : Users, asset : {"quote", "base"}, amount : Nat \ {0}]
  BY DEF LedgerInv, CP!HeldInv, CP!IInv, CP!LedgerOK, CP!HoldsOK, CP!HoldRecords, CP!Assets,
     CP!Balance, C!Balance, HoldIds

\* No hold has more than its account has frozen.
LEMMA FrozenCovers ==
    ASSUME LedgerInv, NEW h \in DOMAIN holds
    PROVE  /\ holds[h].asset = "quote" => accounts[holds[h].account].frozenQuote >= holds[h].amount
           /\ holds[h].asset = "base" => accounts[holds[h].account].frozenBase >= holds[h].amount
<1>1. PICK hs, a, asset : hs = holds /\ a = holds[h].account /\ asset = holds[h].asset
      OBVIOUS
<1>2. PICK hs2 : hs2 = [x \in DOMAIN hs \ {h} |-> hs[x]]
      OBVIOUS
<1>3. CP!AmountsOK(hs)
      BY <1>1, LedgerFacts DEF LedgerInv, CP!HeldInv, CP!AmountsOK
<1>4. CP!AmountsOK(hs2)
  <2>1. \A S : CP!IsFiniteSet(S) <=> IsFiniteSet(S)
        BY DEF CP!IsFiniteSet, IsFiniteSet
  <2>2. IsFiniteSet(DOMAIN hs \ {h})
        BY <1>3, <2>1, FS_Subset DEF CP!AmountsOK
  <2> QED BY <1>2, <1>3, <2>1, <2>2 DEF CP!AmountsOK
<1>5. CP!SameBut(hs, hs2, h)
      BY <1>2 DEF CP!SameBut
<1>6. CP!HeldOf(hs2, a, asset)
         = CP!HeldOf(hs, a, asset) + CP!Share(hs2, h, a, asset) - CP!Share(hs, h, a, asset)
      BY <1>3, <1>4, <1>5, ClearingParts, CP!HeldChanges
<1>7. CP!HeldOf(hs2, a, asset) \in Nat /\ CP!HeldOf(hs, a, asset) \in Nat
      BY <1>3, <1>4, ClearingParts, CP!HeldType
<1>8. CP!Share(hs2, h, a, asset) = 0 /\ CP!Share(hs, h, a, asset) = hs[h].amount
      BY <1>1, <1>2 DEF CP!Share
<1>9. hs[h].amount \in Nat /\ a \in DOMAIN accounts
      BY <1>1, LedgerFacts
<1>10. CP!HeldOf(hs, a, asset) >= hs[h].amount
      BY <1>6, <1>7, <1>8, <1>9
<1>11. /\ accounts[a].frozenQuote = CP!HeldOf(hs, a, "quote")
       /\ accounts[a].frozenBase = CP!HeldOf(hs, a, "base")
      BY <1>1, <1>9 DEF LedgerInv, CP!HeldInv, CP!BooksAgree
<1> QED BY <1>1, <1>10, <1>11

\* A hold of the given amount is taken out of user u's account, or nothing happens.
LEMMA FreezeEffect ==
    ASSUME LedgerInv, NEW u \in Users, NEW id \in OrderIds, NEW asset \in {"quote", "base"}, NEW n \in Nat,
           C!Freeze(u, HoldOf(id), asset, n)
    PROVE  /\ LedgerInv'
           /\ status' # "applied" => UNCHANGED <<accounts, holds>>
           /\ status' = "applied" =>
                 /\ HoldOf(id) \notin DOMAIN holds
                 /\ holds' = With(holds, HoldOf(id), [account |-> u, asset |-> asset, amount |-> n])
                 /\ \A x \in Users \ {u} : accounts'[x] = accounts[x]
<1>1. CP!Freeze(u, HoldOf(id), asset, n) /\ HoldOf(id) \in {HoldOf(x) : x \in OrderIds} /\ asset \in CP!Assets
      BY SameLedger DEF CP!Assets
<1>2. CP!IInv'
      BY <1>1, ClearingParts, CP!FreezeIInv DEF LedgerInv, CP!HeldInv
<1>3. CP!HeldInv'
      BY <1>1, <1>2, ClearingParts, CP!FreezeHeld DEF LedgerInv, CP!HeldInv
<1>4. /\ status' # "applied" => UNCHANGED <<accounts, holds>>
      /\ status' = "applied" =>
            /\ HoldOf(id) \notin DOMAIN holds
            /\ holds' = With(holds, HoldOf(id), [account |-> u, asset |-> asset, amount |-> n])
            /\ DOMAIN accounts' = DOMAIN accounts
            /\ \A x \in Users \ {u} : accounts'[x] = accounts[x]
  <2>1. CASE status' # "applied"
        BY <2>1 DEF C!Freeze
  <2>2. CASE status' = "applied"
    <3>1. accounts' = C!Post(accounts, u, C!FreezeDelta(asset, n))
          BY <2>2 DEF C!Freeze
    <3>2. HoldOf(id) \notin DOMAIN holds
      <4>1. PICK rounding \in C!Roundings : C!FreezeStatus(u, HoldOf(id), asset, n, rounding) = "applied"
            BY <2>2 DEF C!Freeze
      <4> QED BY <4>1 DEF C!FreezeStatus
    <3>3. holds' = With(holds, HoldOf(id), [account |-> u, asset |-> asset, amount |-> n])
          BY <2>2 DEF C!Freeze, C!With, With
    <3>4. /\ DOMAIN accounts' = DOMAIN accounts
          /\ \A x \in Users \ {u} : accounts'[x] = accounts[x]
          BY <3>1 DEF C!Post, LedgerInv
    <3> QED BY <2>2, <3>2, <3>3, <3>4
  <2> QED BY <2>1, <2>2
<1> QED BY <1>3, <1>4 DEF LedgerInv

\* A hold that exists is always released.
LEMMA ReleaseEffect ==
    ASSUME LedgerInv, NEW id \in OrderIds, ReleaseResidual(HoldOf(id))
    PROVE  /\ LedgerInv' /\ Released(HoldOf(id))
           /\ DOMAIN holds' = DOMAIN holds \ {HoldOf(id)} /\ \A h \in DOMAIN holds' : holds'[h] = holds[h]
           /\ \A x \in Users :
                 (HoldOf(id) \in DOMAIN holds => x # holds[HoldOf(id)].account) => accounts'[x] = accounts[x]
<1>1. CASE HoldOf(id) \notin DOMAIN holds
  <2>1. UNCHANGED clearingVars /\ Released(HoldOf(id))
        BY <1>1 DEF ReleaseResidual, Released
  <2>2. UNCHANGED <<accounts, holds>> /\ UNCHANGED CP!vars
        BY <2>1 DEF clearingVars, CP!vars
  <2>3. NoHold \notin {HoldOf(x) : x \in OrderIds} /\ {} = {}
        BY ClearingAssumption
  <2>4. CP!HeldInv /\ [CP!Next]_CP!vars => CP!HeldInv'
        BY <2>3, ClearingParts, CP!HeldInductive
  <2>5. LedgerInv'
        BY <2>2, <2>4 DEF LedgerInv
  <2> QED BY <1>1, <2>1, <2>2, <2>5
<1>2. CASE HoldOf(id) \in DOMAIN holds
  <2>1. CP!ReleaseHold(HoldOf(id)) /\ C!ReleaseHold(HoldOf(id)) /\ HoldOf(id) \in {HoldOf(x) : x \in OrderIds}
        BY <1>2, SameLedger DEF ReleaseResidual
  <2>2. status' = "applied"
        BY <1>2, <2>1, LedgerFacts DEF C!ReleaseHold
  <2>3. CP!IInv'
        BY <2>1, ClearingParts, CP!ReleaseIInv DEF LedgerInv, CP!HeldInv
  <2>4. CP!HeldInv'
        BY <2>1, <2>3, ClearingParts, CP!ReleaseHeld DEF LedgerInv, CP!HeldInv
  <2>5. accounts' = C!Post(accounts, holds[HoldOf(id)].account, C!ReleaseDelta(holds[HoldOf(id)]))
        BY <2>1, <2>2 DEF C!ReleaseHold
  <2>6. /\ DOMAIN accounts' = DOMAIN accounts
        /\ \A x \in Users : x # holds[HoldOf(id)].account => accounts'[x] = accounts[x]
        BY <2>5 DEF C!Post, LedgerInv
  <2>7. DOMAIN holds' = DOMAIN holds \ {HoldOf(id)} /\ \A h \in DOMAIN holds' : holds'[h] = holds[h]
        BY <2>1, <2>2 DEF C!ReleaseHold, C!Without
  <2> QED BY <1>2, <2>2, <2>4, <2>6, <2>7 DEF LedgerInv, Released
<1> QED BY <1>1, <1>2

\* Consuming part of a hold.
LEMMA ConsumeEffect ==
    ASSUME NEW hs, NEW h \in DOMAIN hs, h # NoHold, NEW n \in Nat,
           hs[h] \in [account : Users, asset : {"quote", "base"}, amount : Nat \ {0}], hs[h].amount >= n,
           NEW hs2, hs2 = C!Consume(hs, h, n)
    PROVE  /\ DOMAIN hs2 \subseteq DOMAIN hs /\ DOMAIN hs \ {h} \subseteq DOMAIN hs2
           /\ \A x \in DOMAIN hs2 : hs2[x].account = hs[x].account /\ hs2[x].asset = hs[x].asset
           /\ \A x \in DOMAIN hs \ {h} : hs2[x] = hs[x]
           /\ Left(hs2, h) = hs[h].amount - n
<1>1. CASE hs[h].amount = n
      BY <1>1 DEF C!Consume, C!Without, Left
<1>2. CASE hs[h].amount # n
  <2>1. hs2 = [hs EXCEPT ![h].amount = @ - n]
        BY <1>2 DEF C!Consume
  <2>2. DOMAIN hs2 = DOMAIN hs /\ \A x \in DOMAIN hs \ {h} : hs2[x] = hs[x]
        BY <2>1
  <2>3. hs2[h] = [hs[h] EXCEPT !.amount = @ - n]
        BY <2>1
  <2>4. /\ hs2[h].account = hs[h].account /\ hs2[h].asset = hs[h].asset
        /\ hs2[h].amount = hs[h].amount - n
        BY <2>3
  <2> QED BY <2>2, <2>4 DEF Left
<1> QED BY <1>1, <1>2

\* Two holds are consumed, each in its account; the others are as they were.
Consumed(f, cost) ==
    /\ DOMAIN holds' \subseteq DOMAIN holds
    /\ \A h \in DOMAIN holds' : holds'[h].account = holds[h].account /\ holds'[h].asset = holds[h].asset
    /\ \A h : h \notin {f.buyerHold, f.sellerHold} => Left(holds', h) = Left(holds, h)
    /\ Left(holds', f.buyerHold) = Left(holds, f.buyerHold) - cost
    /\ Left(holds', f.sellerHold) = Left(holds, f.sellerHold) - f.qty

\* A fill is settled, or nothing happens.
LEMMA SettleEffect ==
    ASSUME LedgerInv, NEW f \in CP!Fills, C!SettleSpotTrade(f)
    PROVE  /\ LedgerInv'
           /\ status' # "applied" => UNCHANGED <<accounts, holds>>
           /\ status' = "applied" => Consumed(f, C!BuyerConsumes(f))
           /\ \A x \in Users \ {f.buyer, f.seller} : accounts'[x] = accounts[x]
<1>1. CP!SettleSpotTrade(f)
      BY SameLedger
<1>2. CP!IInv'
      BY <1>1, ClearingParts, CP!SettleIInv DEF LedgerInv, CP!HeldInv
<1>3. CP!HeldInv'
      BY <1>1, <1>2, ClearingParts, CP!SettleHeld DEF LedgerInv, CP!HeldInv
<1>4. CASE status' # "applied"
  <2>1. UNCHANGED <<accounts, holds>>
        BY <1>4 DEF C!SettleSpotTrade
  <2> QED BY <1>3, <1>4, <2>1 DEF LedgerInv
<1>5. CASE status' = "applied"
  <2>1. accounts' = C!Post(C!Post(accounts, f.buyer, C!BuyerDelta(f)), f.seller, C!SellerDelta(f))
        BY <1>5 DEF C!SettleSpotTrade
  <2>2. DOMAIN accounts' = DOMAIN accounts /\ \A x \in Users \ {f.buyer, f.seller} : accounts'[x] = accounts[x]
        BY <2>1 DEF C!Post, LedgerInv
  <2>3. PICK cost : cost = C!BuyerConsumes(f)
        OBVIOUS
  <2>4. holds' = C!Consume(C!Consume(holds, f.buyerHold, cost), f.sellerHold, f.qty)
        BY <1>5, <2>3 DEF C!SettleSpotTrade
  <2>5. PICK rounding \in C!Roundings : C!SettleStatus(f, rounding) = "applied"
        BY <1>5 DEF C!SettleSpotTrade
  <2>6. /\ f.buyerHold # NoHold /\ f.sellerHold # NoHold /\ f.qty \in Nat /\ f.price \in Nat
        /\ f.buyerIsTaker \in BOOLEAN
    <3>1. f.buyerHold \in HoldIds /\ f.sellerHold \in HoldIds
          BY DEF CP!Fills, HoldIds
    <3>2. NoHold \notin HoldIds
          BY ClearingAssumption DEF HoldIds
    <3>3. f.qty \in Nat /\ f.price \in Prices /\ f.buyerIsTaker \in BOOLEAN
          BY DEF CP!Fills
    <3> QED BY <3>1, <3>2, <3>3, EngineAssumption
  <2>7. cost \in Nat
    <3>1. f.price * f.qty \in Nat
          BY <2>6, Products
    <3>2. C!FeeAmount(f.price * f.qty, MakerFeeBps) \in Nat /\ C!FeeAmount(f.price * f.qty, TakerFeeBps) \in Nat
          BY <3>1, ClearingAssumption, FeeFacts
    <3> QED BY <2>3, <3>1, <3>2 DEF C!BuyerConsumes, C!BuyerFee, C!Notional
  <2>8. \A h \in DOMAIN holds : holds[h] \in [account : Users, asset : {"quote", "base"}, amount : Nat \ {0}]
        BY LedgerFacts
  <2>9. /\ f.buyerHold \in DOMAIN holds /\ holds[f.buyerHold].asset = "quote" /\ holds[f.buyerHold].amount >= cost
        /\ f.sellerHold \in DOMAIN holds /\ holds[f.sellerHold].asset = "base" /\ holds[f.sellerHold].amount >= f.qty
    <3>1. /\ C!HoldCovers(f.buyerHold, f.buyer, "quote", cost, rounding)
          /\ C!HoldCovers(f.sellerHold, f.seller, "base", f.qty, rounding)
          BY <2>3, <2>5 DEF C!SettleStatus
    <3>2. /\ f.buyerHold \in DOMAIN holds /\ holds[f.buyerHold].asset = "quote" /\ ~(holds[f.buyerHold].amount < cost)
          /\ f.sellerHold \in DOMAIN holds /\ holds[f.sellerHold].asset = "base"
          /\ ~(holds[f.sellerHold].amount < f.qty)
          BY <3>1, <2>6 DEF C!HoldCovers, C!Less
    <3>3. holds[f.buyerHold].amount \in Nat /\ holds[f.sellerHold].amount \in Nat
          BY <3>2, <2>8
    <3> QED BY <3>2, <3>3, <2>6, <2>7
  <2>10. f.buyerHold # f.sellerHold
        BY <2>9
  <2>11. PICK hs : hs = C!Consume(holds, f.buyerHold, cost)
        OBVIOUS
  <2>12. /\ DOMAIN hs \subseteq DOMAIN holds /\ DOMAIN holds \ {f.buyerHold} \subseteq DOMAIN hs
         /\ \A x \in DOMAIN hs : hs[x].account = holds[x].account /\ hs[x].asset = holds[x].asset
         /\ \A x \in DOMAIN holds \ {f.buyerHold} : hs[x] = holds[x]
         /\ Left(hs, f.buyerHold) = holds[f.buyerHold].amount - cost
        BY <2>6, <2>7, <2>8, <2>9, <2>11, ConsumeEffect
  <2>13. f.sellerHold \in DOMAIN hs /\ hs[f.sellerHold] = holds[f.sellerHold]
        BY <2>9, <2>10, <2>12
  <2>14. PICK hs2 : hs2 = C!Consume(hs, f.sellerHold, f.qty)
        OBVIOUS
  <2>15. /\ DOMAIN hs2 \subseteq DOMAIN hs /\ DOMAIN hs \ {f.sellerHold} \subseteq DOMAIN hs2
         /\ \A x \in DOMAIN hs2 : hs2[x].account = hs[x].account /\ hs2[x].asset = hs[x].asset
         /\ \A x \in DOMAIN hs \ {f.sellerHold} : hs2[x] = hs[x]
         /\ Left(hs2, f.sellerHold) = hs[f.sellerHold].amount - f.qty
        BY <2>6, <2>8, <2>9, <2>13, <2>14, ConsumeEffect
  <2>16. holds' = hs2
        BY <2>4, <2>11, <2>14
  <2>17. \A h : h \notin {f.buyerHold, f.sellerHold} => Left(hs2, h) = Left(holds, h)
        BY <2>12, <2>15 DEF Left
  <2>18. Left(hs2, f.buyerHold) = Left(hs, f.buyerHold)
        BY <2>10, <2>15 DEF Left
  <2>19. Consumed(f, cost)
        BY <2>9, <2>12, <2>13, <2>15, <2>16, <2>17, <2>18 DEF Consumed, Left
  <2> QED BY <1>3, <1>5, <2>2, <2>3, <2>19 DEF LedgerInv
<1> QED BY <1>4, <1>5

\* A fill whose holds cover it is settled, now or before, unless rounding
\* decides otherwise.
LEMMA SettleSucceeds ==
    ASSUME LedgerInv, NEW f \in CP!Fills, C!SettleSpotTrade(f), f.qty > 0,
           Left(holds, f.buyerHold) >= C!BuyerConsumes(f), C!BuyerConsumes(f) \in Nat \ {0},
           Left(holds, f.sellerHold) >= f.qty,
           f.buyerHold \in DOMAIN holds =>
              holds[f.buyerHold].account = f.buyer /\ holds[f.buyerHold].asset = "quote",
           f.sellerHold \in DOMAIN holds =>
              holds[f.sellerHold].account = f.seller /\ holds[f.sellerHold].asset = "base"
    PROVE  status' \in {"applied", "duplicate"} \/ C!DecidedByRounding(f)
<1>1. f.qty \in Nat \ {0} /\ f.buyer \in Users /\ f.seller \in Users
      BY DEF CP!Fills
<1>2. f.buyerHold \in DOMAIN holds /\ f.sellerHold \in DOMAIN holds
      BY <1>1 DEF Left
<1>3. holds[f.buyerHold].amount >= C!BuyerConsumes(f) /\ holds[f.sellerHold].amount >= f.qty
      BY <1>2 DEF Left
<1>4. /\ accounts[f.buyer].frozenQuote >= holds[f.buyerHold].amount
      /\ accounts[f.seller].frozenBase >= holds[f.sellerHold].amount
      BY <1>2, FrozenCovers
<1>5. /\ accounts[f.buyer].frozenQuote \in Int /\ accounts[f.seller].frozenBase \in Int
      /\ holds[f.buyerHold].amount \in Nat /\ holds[f.sellerHold].amount \in Nat
      /\ {f.buyer, f.seller} \subseteq DOMAIN accounts
      BY <1>1, <1>2, LedgerFacts DEF C!Balance
<1>6. PICK rounding \in C!Roundings : status' = C!SettleStatus(f, rounding)
      BY DEF C!SettleSpotTrade
<1>7. SUFFICES ASSUME ~C!DecidedByRounding(f) PROVE status' \in {"applied", "duplicate"}
      OBVIOUS
<1>8. ASSUME <<"quote", "balance">> \in rounding \/ <<"quote", "hold">> \in rounding
      PROVE  /\ accounts[f.buyer].frozenQuote # C!BuyerConsumes(f)
             /\ holds[f.buyerHold].amount # C!BuyerConsumes(f)
  <2>1. "quote" \in Inexact
        BY <1>8 DEF C!Roundings
  <2> QED BY <2>1, <1>2, <1>7 DEF C!DecidedByRounding, C!UsesUp
<1>9. ASSUME <<"base", "balance">> \in rounding \/ <<"base", "hold">> \in rounding
      PROVE  accounts[f.seller].frozenBase # f.qty /\ holds[f.sellerHold].amount # f.qty
  <2>1. "base" \in Inexact
        BY <1>9 DEF C!Roundings
  <2> QED BY <2>1, <1>2, <1>7 DEF C!DecidedByRounding, C!UsesUp
<1>10. /\ ~(accounts[f.buyer].frozenQuote < C!BuyerConsumes(f)) /\ ~(accounts[f.seller].frozenBase < f.qty)
       /\ ~(holds[f.buyerHold].amount < C!BuyerConsumes(f)) /\ ~(holds[f.sellerHold].amount < f.qty)
      BY <1>1, <1>3, <1>4, <1>5
<1>11. /\ C!HoldCovers(f.buyerHold, f.buyer, "quote", C!BuyerConsumes(f), rounding)
       /\ C!HoldCovers(f.sellerHold, f.seller, "base", f.qty, rounding)
      BY <1>2, <1>8, <1>9, <1>10 DEF C!HoldCovers, C!Less
<1>12. /\ ~C!Less(accounts[f.buyer].frozenQuote, C!BuyerConsumes(f), <<"quote", "balance">>, rounding)
       /\ ~C!Less(accounts[f.seller].frozenBase, f.qty, <<"base", "balance">>, rounding)
      BY <1>8, <1>9, <1>10 DEF C!Less
<1> QED BY <1>1, <1>5, <1>6, <1>11, <1>12 DEF C!SettleStatus

\* A fill that leaves something in the buyer's hold is not decided by rounding,
\* base amounts being exact.
LEMMA NotDecidedByRounding ==
    ASSUME LedgerInv, NEW f, "base" \notin Inexact, C!BuyerConsumes(f) \in Nat,
           Left(holds, f.buyerHold) > C!BuyerConsumes(f),
           f.buyerHold \in DOMAIN holds =>
              holds[f.buyerHold].account = f.buyer /\ holds[f.buyerHold].asset = "quote"
    PROVE  ~C!DecidedByRounding(f)
<1>1. f.buyerHold \in DOMAIN holds
      BY DEF Left
<1>2. holds[f.buyerHold].amount > C!BuyerConsumes(f) /\ holds[f.buyerHold].amount \in Nat
      BY <1>1, LedgerFacts DEF Left
<1>3. accounts[f.buyer].frozenQuote >= holds[f.buyerHold].amount
      BY <1>1, FrozenCovers
<1>4. accounts[f.buyer].frozenQuote \in Int
      BY <1>1, LedgerFacts DEF C!Balance
<1>5. accounts[f.buyer].frozenQuote # C!BuyerConsumes(f) /\ holds[f.buyerHold].amount # C!BuyerConsumes(f)
      BY <1>2, <1>3, <1>4
<1> QED BY <1>5 DEF C!DecidedByRounding, C!UsesUp

-----------------------------------------------------------------------------
(* The invariant holds at first.                                             *)

PInv == EP!IInv /\ LedgerInv /\ FlowInv

\* The fields of a parsed order.
LEMMA OrderFacts ==
    ASSUME NEW r \in Orders
    PROVE  /\ r.user \in Users /\ r.id \in OrderIds /\ r.side \in {"buy", "sell"}
           /\ r.type \in {"limit", "market"} /\ r.price \in Nat /\ r.qty \in Nat
           /\ [user |-> r.user, side |-> r.side] \in [user : Users, side : E!Sides]
<1>1. /\ r.user \in Users /\ r.id \in OrderIds /\ r.side \in E!Sides /\ r.type \in {"limit", "market"}
      /\ r.price \in Prices \cup {0} /\ r.qty \in Quantities
      BY DEF Orders
<1>2. Prices \cup {0} \subseteq Nat /\ Quantities \subseteq Nat
      BY EngineAssumption
<1> QED BY <1>1, <1>2 DEF E!Sides

\* Holds have something left, nothing else has.
LEMMA LeftFacts ==
    ASSUME LedgerInv
    PROVE  \A h : Left(holds, h) \in Nat /\ (Left(holds, h) > 0 <=> h \in DOMAIN holds)
  BY LedgerFacts DEF Left

\* A larger quantity needs no less.
LEMMA NeedGrows ==
    ASSUME NEW side, NEW l \in Nat, NEW a \in Nat, NEW b \in Nat, NEW m \in Nat, NEW n \in Nat, m <= n
    PROVE  /\ Need(side, l, b, m) \in Nat /\ Need(side, l, a + b, n) \in Nat
           /\ Need(side, l, b, m) <= Need(side, l, a + b, n)
<1>1. CASE side = "buy"
  <2>1. l <= l /\ n <= n /\ a + b \in Nat /\ b + a = a + b
        OBVIOUS
  <2>2. Cost(l, b, m) \in Nat /\ Cost(l, b, m) + Cost(l, a, n) <= Cost(l, b + a, n)
        BY <2>1, CostSplits
  <2>3. Cost(l, a, n) \in Nat
        BY <2>1, CostSplits
  <2>4. Cost(l, a + b, n) \in Nat
        BY <2>1, CostSplits
  <2> QED BY <1>1, <2>1, <2>2, <2>3, <2>4 DEF Need
<1>2. CASE side # "buy"
      BY <1>2 DEF Need
<1> QED BY <1>1, <1>2

\* The fees are numbers, the maker's not above the taker's.
LEMMA Fees == MakerFeeBps \in Nat /\ TakerFeeBps \in Nat /\ MakerFeeBps <= TakerFeeBps
  BY ClearingAssumption, FeesAssumption

\* The ledger after the users have been registered.
LEMMA InitLedger == Init => LedgerInv
<1> SUFFICES ASSUME Init PROVE LedgerInv
    OBVIOUS
<1>1. /\ accounts = [u \in Users |-> Opening] /\ opening = accounts
      /\ journal = [u \in Users |-> C!Nothing]
      /\ DOMAIN holds = {} /\ settled = {} /\ outbox = << >> /\ fees = 0
      BY DEF Init, EmptyMap
<1>2. Opening \in CP!Balance /\ Opening.frozenQuote = 0 /\ Opening.frozenBase = 0
      BY ClearingAssumption DEF C!Balance, CP!Balance
<1>3. C!Nothing = CP!Nothing /\ CP!Nothing \in CP!Balance /\ CP!Plus(Opening, CP!Nothing) = Opening
      BY <1>2 DEF C!Nothing, C!Delta, CP!Nothing, CP!Delta, CP!Balance, CP!Plus
<1>4. CP!LedgerOK(accounts, journal, opening)
  <2>1. \A u \in Users : /\ accounts[u] = Opening /\ opening[u] = Opening /\ journal[u] = CP!Nothing
        BY <1>1, <1>3
  <2> QED BY <1>1, <1>2, <1>3, <2>1 DEF CP!LedgerOK
<1>5. CP!HoldsOK(holds, DOMAIN accounts)
      BY <1>1 DEF CP!HoldsOK
<1>6. outbox \in Seq(CP!Messages) /\ CP!OneMessagePerTrade
      BY <1>1 DEF CP!OneMessagePerTrade
<1>7. CP!IInv
      BY <1>1, <1>4, <1>5, <1>6 DEF CP!IInv
<1>8. CP!IsFiniteSet(DOMAIN holds)
      BY <1>1, FS_EmptySet DEF CP!IsFiniteSet, IsFiniteSet
<1>9. ASSUME NEW a, NEW asset PROVE CP!HeldOf(holds, a, asset) = 0
  <2>1. PICK f : f = [h \in DOMAIN holds |-> holds[h].amount]
        OBVIOUS
  <2>2. {h \in DOMAIN holds : holds[h].account = a /\ holds[h].asset = asset} = {}
        BY <1>1
  <2>3. \A x \in {} : f[x] \in Int
        OBVIOUS
  <2>4. SumFunctionOnSet(f, {}) = 0
        BY <2>3, FS_EmptySet, SumSplits
  <2>5. CP!SumFunctionOnSet(f, {}) = SumFunctionOnSet(f, {})
        BY DEF SumFunctionOnSet, CP!SumFunctionOnSet, FoldFunctionOnSet, CP!FoldFunctionOnSet,
           MapThenFoldSet, CP!MapThenFoldSet
  <2> QED BY <2>1, <2>2, <2>4, <2>5 DEF CP!HeldOf
<1>10. CP!BooksAgree(accounts, holds)
      BY <1>1, <1>2, <1>9 DEF CP!BooksAgree
<1> QED BY <1>1, <1>7, <1>8, <1>10 DEF LedgerInv, CP!HeldInv

\* The first state.
LEMMA InitPInv == Init => PInv
<1> SUFFICES ASSUME Init PROVE PInv
    OBVIOUS
<1>1. EP!IInv /\ LedgerInv
      BY InitLedger, EngineKeeps DEF Init
<1>2. /\ DOMAIN live = {} /\ DOMAIN registry = {} /\ DOMAIN holds = {} /\ pc = "idle"
      /\ stage = "idle" /\ fills = << >> /\ outcome = "completed" /\ top = InitialTop
      BY DEF Init, E!Init, EmptyMap, E!EmptyMap
<1>3. /\ accounts = [u \in Users |-> Opening] /\ riskAccounts = [u \in Users |-> View(Opening)]
      BY DEF Init
<1>4. StageOK /\ SubmitOK /\ MatchingStageOK /\ RejectedOK /\ SettleOK
      BY <1>2 DEF StageOK, SubmitOK, MatchingStageOK, RejectedOK, SettleOK
<1>5. TrackedOK(holds, registry) /\ RestingOK(live, registry, holds) /\ CompletionReleasesHolds
      BY <1>2 DEF TrackedOK, RestingOK, CompletionReleasesHolds
<1>6. ViewsOK
      BY <1>2, <1>3, MarketAssumption DEF ViewsOK, KnownOK
<1> QED BY <1>1, <1>4, <1>5, <1>6 DEF PInv, FlowInv
-----------------------------------------------------------------------------
(* Steps that change no order and no hold.                                   *)

\* submit returns before it has taken a hold.
LEMMA ReturnsEarly ==
    ASSUME PInv, stage = "idle", LedgerInv', UNCHANGED <<accounts, holds>>,
           UNCHANGED engineVars, UNCHANGED viewVars, UNCHANGED registry,
           NEW answer, answer # "completed", Answer(answer)
    PROVE  PInv'
<1>1. EP!IInv'
      BY EngineKeeps DEF PInv
<1>2. /\ live' = live /\ registry' = registry /\ holds' = holds /\ accounts' = accounts /\ pc' = pc
      /\ riskAccounts' = riskAccounts /\ riskResting' = riskResting /\ top' = top
      /\ stage' = "idle" /\ outcome' = answer /\ fills' = << >>
      BY DEF engineVars, viewVars, Answer
<1>3. StageOK' /\ SubmitOK' /\ MatchingStageOK' /\ RejectedOK' /\ SettleOK' /\ CompletionReleasesHolds'
      BY <1>2 DEF PInv, FlowInv, StageOK, SubmitOK, MatchingStageOK, RejectedOK, SettleOK, CompletionReleasesHolds
<1>4. TrackedOK(holds', registry') /\ RestingOK(live', registry', holds')
      BY <1>2 DEF PInv, FlowInv
<1>5. ViewsOK'
  <2>1. Newcomer = {} /\ Newcomer' = {}
        BY <1>2 DEF Newcomer
  <2> QED BY <1>2, <2>1 DEF PInv, FlowInv, ViewsOK
<1> QED BY <1>1, <1>3, <1>4, <1>5 DEF PInv, FlowInv

\* What a step that leaves the ledger alone keeps of it.
LEMMA LedgerStands == LedgerInv /\ UNCHANGED clearingVars => LedgerInv'
<1> SUFFICES ASSUME LedgerInv, UNCHANGED clearingVars PROVE LedgerInv'
    OBVIOUS
<1>1. UNCHANGED accounts /\ UNCHANGED CP!vars
      BY DEF clearingVars, CP!vars
<1>2. NoHold \notin {HoldOf(x) : x \in OrderIds} /\ {} = {}
      BY ClearingAssumption
<1>3. CP!HeldInv /\ [CP!Next]_CP!vars => CP!HeldInv'
      BY <1>2, ClearingParts, CP!HeldInductive
<1> QED BY <1>1, <1>3 DEF LedgerInv

\* What snapshot(1) shows of a side is its best price.
LEMMA ShownPrices ==
    ASSUME EP!IInv, NEW side \in {"buy", "sell"}, Shown(side) # {}
    PROVE  (IF side = "sell" THEN Min(Shown(side)) ELSE Max(Shown(side))) \in Nat \ {0}
<1>1. EP!BookTypes /\ EP!QueuesOK /\ EP!ArrivalOK /\ EP!DepthWithinBook /\ side \in EP!Sides
      BY DEF EP!IInv, EP!BookInv, EP!Sides
<1>2. Shown(side) = EP!Levels(side)
      BY <1>1 DEF Shown, EP!Levels, EP!DepthWithinBook
<1>3. EP!BestPrice(side) \in EP!Levels(side)
      BY <1>1, <1>2, EngineParts, EP!BestIsBest
<1>4. EP!BestPrice(side) = IF side = "sell" THEN Min(Shown(side)) ELSE Max(Shown(side))
      BY <1>2 DEF EP!BestPrice, EP!Min, EP!Max, Min, Max
<1>5. EP!Levels(side) \subseteq Nat \ {0}
      BY EngineAssumption DEF EP!Levels
<1> QED BY <1>3, <1>4, <1>5

\* The market never runs out of prices.
LEMMA TopType ==
    ASSUME PInv
    PROVE  /\ BestAsk \in Nat
           /\ [bid |-> BestBid, ask |-> BestAsk] \in [bid : Nat, ask : Nat]
           /\ [bid |-> BestBid, ask |-> BestAsk] # NoTop
<1>1. EP!IInv /\ top \in [bid : Nat, ask : Nat] /\ top # NoTop
      BY DEF PInv, FlowInv, ViewsOK
<1>2. PICK b, a : b = BestBid /\ a = BestAsk
      OBVIOUS
<1>3. b = top.bid \/ b \in Nat \ {0}
      BY <1>1, <1>2, ShownPrices DEF BestBid
<1>4. a = top.ask \/ a \in Nat \ {0}
      BY <1>1, <1>2, ShownPrices DEF BestAsk
<1>5. top.bid \in Nat /\ top.ask \in Nat /\ ~(top.bid = 0 /\ top.ask = 0)
      BY <1>1 DEF NoTop
<1>6. a \in Nat /\ b \in Nat /\ ~(a = 0 /\ b = 0)
      BY <1>3, <1>4, <1>5
<1> QED BY <1>2, <1>6 DEF NoTop

\* The price band lets no limit order in that has no price.
LEMMA AcceptedIsPriced ==
    ASSUME PInv, NEW r \in Orders, RiskAccepts(r)
    PROVE  r \in PricedOrders
<1> SUFFICES ASSUME r.type = "limit", r.price = 0 PROVE FALSE
    BY DEF PricedOrders
<1>1. top.bid \in Nat /\ top.ask \in Nat /\ top # NoTop /\ ~(top.bid = 0 /\ top.ask = 0)
      BY DEF PInv, FlowInv, ViewsOK, NoTop
<1>2. PICK ref2 \in Nat \ {0} : ref2 = top.bid + top.ask
      BY <1>1
<1>3. TwiceReference(top, r) = ref2 /\ ref2 > 0
      BY <1>1, <1>2 DEF TwiceReference
<1>4. ~(Distance(2 * 0, ref2) * BandDen > BandNum * ref2)
      BY <1>3 DEF RiskAccepts, Verdict
<1>5. Distance(2 * 0, ref2) = ref2
      BY <1>2 DEF Distance
<1>6. BandNum \in Nat /\ BandDen \in Nat /\ BandNum < BandDen
      BY LimitsAssumption, MarketAssumption
<1>7. ref2 * BandDen > BandNum * ref2
      BY <1>2, <1>6
<1> QED BY <1>4, <1>5, <1>7

\* What an order reserves is a number, and covers it at its reference price.
LEMMA ReserveType ==
    ASSUME PInv, NEW r \in Orders
    PROVE  /\ ReserveAmount(r) \in Nat /\ ReferencePrice(r) \in Nat
           /\ ReserveAmount(r) = Need(r.side, ReferencePrice(r), r.qty, TakerFeeBps)
<1>1. BestAsk \in Nat
      BY TopType
<1>2. PICK price : price = ReferencePrice(r)
      OBVIOUS
<1>3. price \in Nat
      BY <1>1, <1>2, OrderFacts DEF ReferencePrice
<1>4. price * r.qty \in Nat
      BY <1>3, OrderFacts, Products
<1>5. C!FeeAmount(price * r.qty, TakerFeeBps) \in Nat
      BY <1>4, Fees, FeeFacts
<1>6. ReserveAmount(r) = IF r.side = "sell" THEN r.qty
                         ELSE price * r.qty + C!FeeAmount(price * r.qty, TakerFeeBps)
      BY <1>2 DEF ReserveAmount
<1>7. ReserveAmount(r) \in Nat
      BY <1>4, <1>5, <1>6, OrderFacts
<1>8. ReserveAmount(r) = Need(r.side, price, r.qty, TakerFeeBps)
      BY <1>6, OrderFacts DEF Need, Cost
<1> QED BY <1>2, <1>3, <1>7, <1>8

\* What freezing does for order r.
LEMMA ReserveFreezes ==
    ASSUME PInv, NEW r \in Orders, Freeze(r)
    PROVE  /\ LedgerInv'
           /\ status' # "applied" => UNCHANGED <<accounts, holds>>
           /\ status' = "applied" =>
                 /\ HoldOf(r.id) \notin DOMAIN holds
                 /\ holds' = With(holds, HoldOf(r.id),
                        [account |-> r.user, asset |-> HoldAsset(r.side), amount |-> ReserveAmount(r)])
                 /\ \A x \in Users \ {r.user} : accounts'[x] = accounts[x]
<1>1. PICK n, asset : n = ReserveAmount(r) /\ asset = HoldAsset(r.side)
      OBVIOUS
<1>2. n \in Nat /\ asset \in {"quote", "base"}
      BY <1>1, ReserveType DEF HoldAsset
<1>3. C!Freeze(r.user, HoldOf(r.id), asset, n)
      BY <1>1 DEF Freeze, HoldAsset
<1>4. r.user \in Users /\ r.id \in OrderIds /\ LedgerInv
      BY OrderFacts DEF PInv
<1> QED BY <1>1, <1>2, <1>3, <1>4, FreezeEffect
-----------------------------------------------------------------------------
(* A hold is taken.                                                          *)

\* Every order in the book has a hold.
LEMMA LiveHeld ==
    ASSUME EP!IInv, LedgerInv, RestingOK(live, registry, holds), NEW id \in DOMAIN live
    PROVE  HoldOf(id) \in DOMAIN holds
<1>1. live[id].price \in Nat \ {0} /\ live[id].open \in Nat \ {0}
      BY LiveFacts, EngineAssumption
<1>2. PICK s, p, a : s = live[id].side /\ p = live[id].price /\ a = live[id].open
      OBVIOUS
<1>3. p \in Nat \ {0} /\ p <= p /\ a \in Nat /\ a > 0 /\ TakerFeeBps <= TakerFeeBps /\ 0 \in Nat
      BY <1>1, <1>2, Fees
<1>4. Need(s, p, a, TakerFeeBps) \in Nat /\ Need(s, p, a, TakerFeeBps) > 0
      BY <1>3, Fees, NeedFacts
<1>5. Left(holds, HoldOf(id)) >= Need(s, p, a, TakerFeeBps)
      BY <1>2 DEF RestingOK
<1>6. Left(holds, HoldOf(id)) \in Nat
      BY LeftFacts
<1>7. Left(holds, HoldOf(id)) > 0
      BY <1>4, <1>5, <1>6
<1> QED BY <1>7, LeftFacts

\* sync_account_state of those whose balances changed.
LEMMA SyncedViews ==
    ASSUME NEW S, riskAccounts = [u \in Users |-> View(accounts[u])],
           \A u \in Users \ S : accounts'[u] = accounts[u]
    PROVE  Synced(S) = [u \in Users |-> View(accounts'[u])]
  BY DEF Synced, View

\* The risk engine knows the book when it accepts an order.
LEMMA AcceptedNotOwn ==
    ASSUME PInv, stage = "idle", NEW r \in Orders, RiskAccepts(r)
    PROVE  NoneOwn(live, registry, r)
<1> SUFFICES ASSUME SelfTradePrevention, RoundingSpares, NEW id \in DOMAIN live, id # r.id, live[id].side # r.side,
                    E!PriceAllows(r, live[id].price), registry[id].user = r.user
             PROVE  FALSE
    BY DEF NoneOwn
<1>1. ~WouldSelfTrade(r, riskResting)
      BY DEF RiskAccepts, Verdict
<1>2. PICK o \in riskResting : /\ o.user = registry[id].user /\ o.side = live[id].side
                               /\ o.price = live[id].price /\ o.qty \in Nat /\ o.qty >= live[id].open
      BY DEF PInv, FlowInv, ViewsOK, KnownOK, Newcomer
<1>3. live[id].open \in Nat \ {0} /\ live[id].price \in Prices
      BY LiveFacts DEF PInv
<1>4. o.qty > 0
      BY <1>2, <1>3
<1>5. o.price \in Nat /\ r.price \in Nat
      BY <1>2, <1>3, EngineAssumption, OrderFacts
<1>6. \/ r.type = "market"
      \/ r.side = "buy" /\ r.price >= o.price
      \/ r.side = "sell" /\ r.price <= o.price
      BY <1>2, <1>5 DEF E!PriceAllows
<1>7. WouldSelfTrade(r, riskResting)
      BY <1>2, <1>4, <1>6 DEF WouldSelfTrade
<1> QED BY <1>1, <1>7

\* reserve_order_hold, track_managed_order
LEMMA ReserveKeeps ==
    ASSUME PInv, NEW r \in Orders, Reserve(r)
    PROVE  PInv'
<1>1. /\ stage = "idle" /\ stage' = "submit" /\ order' = r /\ fills' = fills /\ outcome' = outcome
      /\ registry' = With(registry, r.id, [user |-> r.user, side |-> r.side])
      /\ riskAccounts' = Synced({r.user}) /\ riskResting' = riskResting /\ top' = top
      /\ UNCHANGED engineVars /\ live' = live /\ pc' = pc
      /\ status' = "applied" /\ Freeze(r) /\ RiskAccepts(r)
      BY DEF Reserve, engineVars
<1>2. EP!IInv'
      BY <1>1, EngineKeeps DEF PInv
<1>3. PICK hold : hold = [account |-> r.user, asset |-> HoldAsset(r.side), amount |-> ReserveAmount(r)]
      OBVIOUS
<1>4. /\ LedgerInv' /\ HoldOf(r.id) \notin DOMAIN holds
      /\ holds' = With(holds, HoldOf(r.id), hold)
      /\ \A x \in Users \ {r.user} : accounts'[x] = accounts[x]
      BY <1>1, <1>3, ReserveFreezes
<1>5. /\ EP!IInv /\ LedgerInv /\ FlowInv
      /\ TrackedOK(holds, registry) /\ RestingOK(live, registry, holds) /\ ViewsOK /\ StageOK
      BY DEF PInv, FlowInv
<1>6. r.id \notin DOMAIN live
      BY <1>4, <1>5, LiveHeld
<1>7. /\ DOMAIN registry' = DOMAIN registry \cup {r.id}
      /\ registry'[r.id] = [user |-> r.user, side |-> r.side]
      /\ \A id \in DOMAIN registry : id # r.id => registry'[id] = registry[id]
      BY <1>1 DEF With
<1>8. /\ DOMAIN holds' = DOMAIN holds \cup {HoldOf(r.id)} /\ holds'[HoldOf(r.id)] = hold
      /\ \A h \in DOMAIN holds : holds'[h] = holds[h]
      BY <1>4 DEF With
<1>9. \A id : id # r.id => Left(holds', HoldOf(id)) = Left(holds, HoldOf(id))
      BY <1>8, HoldsApart DEF Left
<1>10. TrackedOK(holds', registry')
  <2>1. /\ DOMAIN registry' \subseteq OrderIds
        /\ \A id \in DOMAIN registry' : registry'[id] \in [user : Users, side : E!Sides]
        BY <1>5, <1>7, OrderFacts DEF TrackedOK
  <2>2. \A h \in DOMAIN holds' : \E id \in DOMAIN registry' : h = HoldOf(id)
        BY <1>5, <1>7, <1>8 DEF TrackedOK
  <2>3. ASSUME NEW id \in DOMAIN registry', HoldOf(id) \in DOMAIN holds'
        PROVE  /\ holds'[HoldOf(id)].account = registry'[id].user
               /\ holds'[HoldOf(id)].asset = HoldAsset(registry'[id].side)
    <3>1. CASE id = r.id
          BY <1>3, <1>7, <1>8, <3>1
    <3>2. CASE id # r.id
      <4>1. id \in DOMAIN registry /\ HoldOf(id) \in DOMAIN holds
            BY <1>7, <1>8, <2>3, <3>2, HoldsApart
      <4> QED BY <1>5, <1>7, <1>8, <3>2, <4>1 DEF TrackedOK
    <3> QED BY <3>1, <3>2
  <2> QED BY <2>1, <2>2, <2>3 DEF TrackedOK
<1>11. RestingOK(live', registry', holds')
      BY <1>1, <1>5, <1>6, <1>7, <1>9 DEF RestingOK
<1>12. TakerCovered(holds', r, reference', r.qty) /\ r \in PricedOrders /\ ReferenceOK(r, reference')
  <2>1. reference' = ReferencePrice(r) /\ RiskAccepts(r)
        BY DEF Reserve
  <2>2. PICK x : x = ReferencePrice(r)
        OBVIOUS
  <2>3. Left(holds', HoldOf(r.id)) = ReserveAmount(r)
        BY <1>3, <1>8 DEF Left
  <2>4. x \in Nat /\ ReserveAmount(r) \in Nat /\ ReserveAmount(r) = Need(r.side, x, r.qty, TakerFeeBps)
        BY <2>2, ReserveType
  <2>5. TakerCovered(holds', r, x, r.qty)
        BY <2>3, <2>4 DEF TakerCovered
  <2>6. r \in PricedOrders
        BY <2>1, AcceptedIsPriced
  <2>7. ReferenceOK(r, x)
        BY <2>2, <2>4, <2>6, OrderFacts DEF ReferenceOK, ReferencePrice, PricedOrders
  <2> QED BY <2>1, <2>2, <2>5, <2>6, <2>7
<1>13. NoneOwn(live', registry', r)
  <2>1. NoneOwn(live, registry, r)
        BY <1>1, AcceptedNotOwn
  <2> QED BY <1>1, <1>5, <1>7, <2>1 DEF NoneOwn, RestingOK
<1>14. ViewsOK'
  <2>1. riskAccounts' = [u \in Users |-> View(accounts'[u])]
        BY <1>1, <1>4, <1>5, SyncedViews DEF ViewsOK
  <2>2. Newcomer = {} /\ Newcomer' = {}
        BY <1>1 DEF Newcomer
  <2>3. KnownOK(live, registry, riskResting, {})
        BY <1>5, <2>2 DEF ViewsOK
  <2>4. KnownOK(live', registry', riskResting', {})
        BY <1>1, <1>5, <1>6, <1>7, <2>3 DEF KnownOK, RestingOK
  <2> QED BY <1>1, <1>5, <2>1, <2>2, <2>4 DEF ViewsOK
<1>15. StageOK'
      BY <1>1, <1>5, <1>12 DEF StageOK
<1>16. SubmitOK'
      BY <1>1, <1>6, <1>7, <1>12, <1>13 DEF SubmitOK, IsTracked
<1>17. MatchingStageOK' /\ RejectedOK' /\ SettleOK' /\ CompletionReleasesHolds'
      BY <1>1 DEF MatchingStageOK, RejectedOK, SettleOK, CompletionReleasesHolds
<1> QED BY <1>2, <1>4, <1>10, <1>11, <1>14, <1>15, <1>16, <1>17 DEF PInv, FlowInv
-----------------------------------------------------------------------------
(* The engine at work.                                                       *)

\* What a step of the engine leaves alone.
Engine ==
    /\ UNCHANGED <<accounts, holds, registry, riskAccounts, riskResting, top, order, reference, outcome>>
    /\ LedgerInv'

\* The parts of the invariant that no step of the engine touches.
LEMMA EngineViews ==
    ASSUME FlowInv, Engine, stage \in {"submit", "matching"}, stage' \in {"matching", "rejected", "settle"},
           RestingOK(live', registry, holds), KnownOK(live', registry, riskResting, Newcomer'), StageOK',
           MatchingStageOK', RejectedOK', SettleOK'
    PROVE  FlowInv'
<1>1. TrackedOK(holds', registry') /\ RestingOK(live', registry', holds') /\ ViewsOK'
      BY DEF FlowInv, Engine, ViewsOK
<1>2. SubmitOK' /\ CompletionReleasesHolds'
      BY DEF SubmitOK, CompletionReleasesHolds
<1> QED BY <1>1, <1>2 DEF FlowInv

\* The request and the order agree.
LEMMA RequestAgrees ==
    ASSUME NEW r, NEW p
    PROVE  /\ MatchingRequest(r).id = r.id /\ MatchingRequest(r).side = r.side /\ MatchingRequest(r).qty = r.qty
           /\ MatchingRequest(r).price = r.price /\ MatchingRequest(r).type = r.type
           /\ E!PriceAllows(MatchingRequest(r), p) <=> E!PriceAllows(r, p)
  BY DEF MatchingRequest, E!PriceAllows

\* submit begins.
LEMMA SubmitKeeps ==
    ASSUME PInv, SubmitToEngine
    PROVE  PInv'
<1>1. /\ stage = "submit" /\ stage' = "matching" /\ E!Submit(MatchingRequest(order))
      /\ UNCHANGED clearingVars /\ UNCHANGED viewVars /\ UNCHANGED <<registry, order, reference, fills, outcome>>
      BY DEF SubmitToEngine
<1>2. EP!IInv /\ LedgerInv /\ FlowInv /\ StageOK /\ SubmitOK
      BY DEF PInv, FlowInv
<1>3. order \in PricedOrders /\ order \in Orders
      BY <1>1, <1>2 DEF StageOK, PricedOrders
<1>4. EP!IInv'
      BY <1>1, <1>2, <1>3, EngineKeeps
<1>5. Engine
      BY <1>1, <1>2, LedgerStands DEF Engine, clearingVars, viewVars
<1>6. /\ pc = "idle" /\ pc' \in {"match", "return"} /\ call' = MatchingRequest(order)
      /\ live' = live /\ trades' = trades
      /\ pc' = "match" => remaining' = order.qty
      BY <1>1, SubmitEffect, RequestAgrees
<1>7. trades' = << >>
      BY <1>2, <1>6, LiveFacts
<1>8. DOMAIN trades' = {} /\ trades' \in Seq(Trades)
      BY <1>7
<1>9. DueOK(trades', live', registry', holds', order')
      BY <1>8 DEF DueOK
<1>10. /\ IsTracked(order, registry) /\ order.id \notin DOMAIN live
       /\ TakerCovered(holds, order, reference, order.qty) /\ NoneOwn(live, registry, order)
      BY <1>1, <1>2 DEF SubmitOK
<1>11. Owed(trades') = 0 /\ order.qty \in Nat /\ OpenOf(live', order.id) = 0
      BY <1>3, <1>6, <1>7, <1>10, OwedType, OrderFacts DEF OpenOf
<1>12. MatchingStageOK'
  <2>1. pc' = "match" => Owed(trades') + remaining' = order'.qty
        BY <1>5, <1>6, <1>11 DEF Engine
  <2>2. Owed(trades') + OpenOf(live', order'.id) <= order'.qty
        BY <1>5, <1>11 DEF Engine
  <2>3. /\ \A i \in DOMAIN trades' : trades'[i].maker \notin DOMAIN live'
        /\ CheapestFirst(trades', live', order')
        BY <1>8 DEF CheapestFirst
  <2> QED BY <1>5, <1>6, <1>9, <1>10, <2>1, <2>2, <2>3 DEF MatchingStageOK, Engine
<1>13. RestingOK(live', registry, holds) /\ KnownOK(live', registry, riskResting, Newcomer')
      BY <1>1, <1>2, <1>6 DEF FlowInv, ViewsOK, Newcomer, KnownOK
<1>14. StageOK' /\ RejectedOK' /\ SettleOK'
      BY <1>1, <1>2, <1>5 DEF StageOK, RejectedOK, SettleOK, Engine
<1>15. FlowInv'
      BY <1>1, <1>2, <1>5, <1>12, <1>13, <1>14, EngineViews
<1> QED BY <1>4, <1>5, <1>15 DEF PInv, Engine

\* The state while the engine matches.
LEMMA MatchingState ==
    ASSUME PInv, stage = "matching"
    PROVE  /\ EP!IInv /\ LedgerInv /\ FlowInv /\ StageOK
           /\ order \in PricedOrders /\ order \in Orders /\ ReferenceOK(order, reference)
           /\ call = MatchingRequest(order)
           /\ RestingOK(live, registry, holds) /\ KnownOK(live, registry, riskResting, {order.id})
           /\ IsTracked(order, registry) /\ TakerCovered(holds, order, reference, order.qty)
           /\ NoneOwn(live, registry, order) /\ DueOK(trades, live, registry, holds, order)
           /\ pc = "match" => Owed(trades) + remaining = order.qty
           /\ pc = "match" /\ remaining > 0 => \A i \in DOMAIN trades : trades[i].maker \notin DOMAIN live
           /\ pc = "match" => CheapestFirst(trades, live, order)
           /\ pc = "return" => Owed(trades) + OpenOf(live, order.id) <= order.qty
           /\ pc = "return" /\ order.id \in DOMAIN live =>
                 result.accepted /\ order.type = "limit" /\ live[order.id].price = order.price
  BY DEF PInv, FlowInv, StageOK, MatchingStageOK, ViewsOK, Newcomer, PricedOrders

\* Publishing.
LEMMA EmitKeeps ==
    ASSUME PInv, stage = "matching", stage' = "matching", fills' = fills, Engine, E!EmitEvent
    PROVE  PInv'
<1>1. EP!IInv'
      BY EngineKeeps DEF PInv
<1>2. UNCHANGED <<live, pc, call, remaining, trades, result>>
      BY EmitEffect
<1>3. RestingOK(live', registry, holds) /\ KnownOK(live', registry, riskResting, Newcomer')
      BY <1>2, MatchingState DEF Newcomer, Engine
<1>4. MatchingStageOK'
      BY <1>2 DEF PInv, FlowInv, MatchingStageOK, Engine
<1>5. StageOK' /\ RejectedOK' /\ SettleOK'
      BY <1>2 DEF PInv, FlowInv, StageOK, RejectedOK, SettleOK, Engine
<1>6. FlowInv'
      BY <1>3, <1>4, <1>5, EngineViews DEF PInv
<1> QED BY <1>1, <1>6 DEF PInv, Engine
\* Of the book lv, q of order m has been traded.
Shrunk(lv, lv2, m, q) ==
    /\ DOMAIN lv2 \subseteq DOMAIN lv
    /\ \A id \in DOMAIN lv2 :
          /\ lv2[id].side = lv[id].side /\ lv2[id].price = lv[id].price
          /\ lv2[id].open \in Nat /\ lv2[id].open <= lv[id].open
    /\ OpenOf(lv2, m) = lv[m].open - q

\* A fill shrinks the book.
LEMMA FillShrinks ==
    ASSUME EP!IInv, NEW m, NEW q, Filled(m, q)
    PROVE  /\ Shrunk(live, live', m, q)
           /\ remaining' > 0 /\ remaining \in Nat => m \notin DOMAIN live'
<1>1. /\ m \in DOMAIN live /\ q \in Nat \ {0} /\ q <= remaining /\ remaining' = remaining - q
      BY DEF Filled
<1>2. \A id \in DOMAIN live : live[id] \in [side : E!Sides, price : Prices, open : Nat \ {0}]
      BY LiveFacts
<1>3. CASE q = live[m].open /\ live' = [id \in DOMAIN live \ {m} |-> live[id]]
  <2>1. DOMAIN live' = DOMAIN live \ {m} /\ \A id \in DOMAIN live' : live'[id] = live[id]
        BY <1>3
  <2>2. OpenOf(live', m) = live[m].open - q
        BY <1>1, <1>2, <1>3, <2>1 DEF OpenOf
  <2>3. \A id \in DOMAIN live' : live'[id].open \in Nat /\ live'[id].open <= live[id].open
        BY <1>2, <2>1
  <2> QED BY <2>1, <2>2, <2>3 DEF Shrunk
<1>4. CASE q = remaining /\ q < live[m].open /\ live' = [live EXCEPT ![m].open = @ - q]
  <2>1. /\ DOMAIN live' = DOMAIN live /\ \A id \in DOMAIN live \ {m} : live'[id] = live[id]
        /\ live'[m] = [live[m] EXCEPT !.open = @ - q]
        BY <1>1, <1>4
  <2>2. live'[m].side = live[m].side /\ live'[m].price = live[m].price /\ live'[m].open = live[m].open - q
        BY <1>1, <1>2, <2>1
  <2>3. live[m].open \in Nat /\ live'[m].open \in Nat /\ live'[m].open <= live[m].open
        BY <1>1, <1>2, <1>4, <2>2
  <2>4. \A id \in DOMAIN live' :
          /\ live'[id].side = live[id].side /\ live'[id].price = live[id].price
          /\ live'[id].open \in Nat /\ live'[id].open <= live[id].open
    <3>1. ASSUME NEW id \in DOMAIN live', id # m PROVE live'[id].open \in Nat /\ live'[id].open <= live[id].open
          BY <1>2, <2>1, <3>1
    <3> QED BY <2>1, <2>2, <2>3, <3>1
  <2>5. OpenOf(live', m) = live[m].open - q
        BY <1>1, <2>1, <2>2 DEF OpenOf
  <2>6. ~(remaining' > 0 /\ remaining \in Nat)
        BY <1>1, <1>4
  <2> QED BY <2>1, <2>4, <2>5, <2>6 DEF Shrunk
<1> QED BY <1>3, <1>4 DEF Filled

\* What was true of the book remains so.
LEMMA ShrunkKeeps ==
    ASSUME EP!IInv, LedgerInv, NEW lv2, NEW m, NEW q, Shrunk(live, lv2, m, q),
           RestingOK(live, registry, holds), NEW but
    PROVE  /\ RestingOK(lv2, registry, holds)
           /\ KnownOK(live, registry, riskResting, but) => KnownOK(lv2, registry, riskResting, but)
           /\ NoneOwn(live, registry, order) => NoneOwn(lv2, registry, order)
<1>1. \A id \in DOMAIN live : live[id] \in [side : E!Sides, price : Prices, open : Nat \ {0}]
      BY LiveFacts
<1>2. /\ DOMAIN lv2 \subseteq DOMAIN live
      /\ \A id \in DOMAIN lv2 :
          /\ lv2[id].side = live[id].side /\ lv2[id].price = live[id].price
          /\ lv2[id].open \in Nat /\ lv2[id].open <= live[id].open
      BY DEF Shrunk
<1>3. RestingOK(lv2, registry, holds)
  <2> SUFFICES ASSUME NEW id \in DOMAIN lv2
               PROVE  /\ id \in DOMAIN registry /\ registry[id].side = lv2[id].side
                      /\ Left(holds, HoldOf(id)) >= Need(lv2[id].side, lv2[id].price, lv2[id].open, TakerFeeBps)
      BY DEF RestingOK
  <2>1. /\ id \in DOMAIN registry /\ registry[id].side = live[id].side
        /\ Left(holds, HoldOf(id)) >= Need(live[id].side, live[id].price, live[id].open, TakerFeeBps)
        BY <1>2 DEF RestingOK
  <2>2. PICK s, p, a, b : s = live[id].side /\ p = live[id].price /\ b = lv2[id].open /\ a = live[id].open - lv2[id].open
        OBVIOUS
  <2>3. p \in Nat /\ a \in Nat /\ b \in Nat /\ a + b = live[id].open /\ TakerFeeBps <= TakerFeeBps
    <3>1. live[id].open \in Nat /\ live[id].price \in Nat /\ lv2[id].open \in Nat /\ lv2[id].open <= live[id].open
          BY <1>1, <1>2, EngineAssumption
    <3>2. a \in Nat /\ a + b = live[id].open
          BY <2>2, <3>1
    <3> QED BY <2>2, <3>1, <3>2, Fees
  <2>4. /\ Need(s, p, b, TakerFeeBps) \in Nat /\ Need(s, p, a + b, TakerFeeBps) \in Nat
        /\ Need(s, p, b, TakerFeeBps) <= Need(s, p, a + b, TakerFeeBps)
        BY <2>3, Fees, NeedGrows
  <2>5. Left(holds, HoldOf(id)) \in Nat /\ Left(holds, HoldOf(id)) >= Need(s, p, a + b, TakerFeeBps)
        BY <2>1, <2>2, <2>3, LeftFacts
  <2>6. Left(holds, HoldOf(id)) >= Need(s, p, b, TakerFeeBps)
        BY <2>4, <2>5
  <2> QED BY <1>2, <2>1, <2>2, <2>6
<1>4. ASSUME KnownOK(live, registry, riskResting, but) PROVE KnownOK(lv2, registry, riskResting, but)
  <2> SUFFICES ASSUME RoundingSpares, NEW id \in DOMAIN lv2 \ but
               PROVE \E o \in riskResting :
                        /\ o.user = registry[id].user /\ o.side = lv2[id].side
                        /\ o.price = lv2[id].price /\ o.qty \in Nat /\ o.qty >= lv2[id].open
      BY DEF KnownOK
  <2>1. PICK o \in riskResting : /\ o.user = registry[id].user /\ o.side = live[id].side
                        /\ o.price = live[id].price /\ o.qty \in Nat /\ o.qty >= live[id].open
        BY <1>2, <1>4 DEF KnownOK
  <2>2. live[id].open \in Nat
        BY <1>1, <1>2
  <2>3. o.qty >= lv2[id].open
        BY <1>2, <2>1, <2>2
  <2> QED BY <1>2, <2>1, <2>3
<1>5. NoneOwn(live, registry, order) => NoneOwn(lv2, registry, order)
      BY <1>2 DEF NoneOwn
<1> QED BY <1>3, <1>4, <1>5

\* A trade more is due.
LEMMA FillDue ==
    ASSUME PInv, stage = "matching", pc = "match", remaining \in Nat, call.id \notin DOMAIN live,
           NEW m, NEW q, Filled(m, q)
    PROVE  /\ DueOK(trades', live', registry, holds, order)
           /\ Owed(trades') = Owed(trades) + q
<1>1. /\ EP!IInv /\ LedgerInv /\ order \in Orders /\ call = MatchingRequest(order)
      /\ RestingOK(live, registry, holds) /\ NoneOwn(live, registry, order)
      /\ DueOK(trades, live, registry, holds, order)
      /\ CheapestFirst(trades, live, order)
      /\ remaining > 0 => \A i \in DOMAIN trades : trades[i].maker \notin DOMAIN live
      BY MatchingState
<1>2. PICK t : t = [maker |-> m, price |-> live[m].price, qty |-> q]
      OBVIOUS
<1>3. /\ m \in DOMAIN live /\ q \in Nat \ {0} /\ q <= remaining
      /\ live[m].side = E!Opposite(call.side) /\ E!PriceAllows(call, live[m].price)
      /\ trades' = Append(trades, t)
      BY <1>2 DEF Filled
<1>4. live[m] \in [side : E!Sides, price : Prices, open : Nat \ {0}] /\ m \in OrderIds
      BY <1>1, <1>3, LiveFacts
<1>5. t \in Trades
      BY <1>2, <1>3, <1>4 DEF Trades
<1>6. trades \in Seq(Trades) /\ \A i \in DOMAIN trades : trades[i].maker \notin DOMAIN live
      BY <1>1, <1>3 DEF DueOK
<1>7. \A i \in DOMAIN trades : trades[i].maker # t.maker
      BY <1>2, <1>3, <1>6
<1>8. Owed(trades') = Owed(trades) + q
      BY <1>2, <1>3, <1>5, <1>6, <1>7, OwedAppend
<1>9. Shrunk(live, live', m, q)
      BY <1>1, FillShrinks
<1>10. PICK n \in Nat : n = Len(trades) /\ DOMAIN trades = 1..n
      BY <1>6
<1>11. /\ trades' \in Seq(Trades) /\ DOMAIN trades' = 1..(n + 1)
       /\ trades'[n + 1] = t /\ \A i \in 1..n : trades'[i] = trades[i]
      BY <1>3, <1>5, <1>6, <1>10
<1>12. \A i \in DOMAIN trades' : i = n + 1 \/ i \in DOMAIN trades
      BY <1>10, <1>11
<1>13. \A i, j \in DOMAIN trades' : trades'[i].maker = trades'[j].maker => i = j
  <2>1. \A i, j \in DOMAIN trades : trades[i].maker = trades[j].maker => i = j
        BY <1>1 DEF DueOK
  <2> QED BY <1>7, <1>10, <1>11, <1>12, <2>1
<1>14. ASSUME NEW x, NEW i \in DOMAIN trades', x = trades'[i]
       PROVE  /\ x.maker # order.id /\ x.maker \in DOMAIN registry
              /\ registry[x.maker].side = E!Opposite(order.side)
              /\ E!PriceAllows(order, x.price)
              /\ SelfTradePrevention /\ RoundingSpares => registry[x.maker].user # order.user
              /\ x.maker \in DOMAIN live' => live'[x.maker].price = x.price
              /\ Left(holds, HoldOf(x.maker)) >=
                    Need(E!Opposite(order.side), x.price, x.qty + OpenOf(live', x.maker), TakerFeeBps)
  <2>1. CASE i = n + 1
    <3>1. x = t /\ x.maker = m /\ x.price = live[m].price /\ x.qty = q
          BY <1>2, <1>11, <1>14, <2>1
    <3>2. m # order.id /\ live[m].side = E!Opposite(order.side) /\ E!PriceAllows(order, live[m].price)
          BY <1>1, <1>3, RequestAgrees
    <3>3. /\ m \in DOMAIN registry /\ registry[m].side = live[m].side
          /\ Left(holds, HoldOf(m)) >= Need(live[m].side, live[m].price, live[m].open, TakerFeeBps)
          BY <1>1, <1>3 DEF RestingOK
    <3>4. live[m].side # order.side
          BY <1>1, <3>2, OrderFacts DEF E!Opposite
    <3>5. SelfTradePrevention /\ RoundingSpares => registry[m].user # order.user
          BY <1>1, <1>3, <3>2, <3>4 DEF NoneOwn
    <3>6. m \in DOMAIN live' => live'[m].price = live[m].price
          BY <1>9 DEF Shrunk
    <3>7. q + OpenOf(live', m) = live[m].open
          BY <1>3, <1>4, <1>9 DEF Shrunk
    <3> QED BY <3>1, <3>2, <3>3, <3>5, <3>6, <3>7
  <2>2. CASE i \in DOMAIN trades
    <3>1. x = trades[i] /\ x.maker \notin DOMAIN live /\ x.maker \notin DOMAIN live'
          BY <1>6, <1>9, <1>10, <1>11, <1>14, <2>2 DEF Shrunk
    <3>2. OpenOf(live', x.maker) = OpenOf(live, x.maker)
          BY <3>1 DEF OpenOf
    <3> QED BY <1>1, <2>2, <3>1, <3>2 DEF DueOK
  <2> QED BY <1>12, <2>1, <2>2
<1>15. ASSUME order.side = "buy", NEW i \in DOMAIN trades', NEW j \in DOMAIN trades', i <= j
       PROVE  trades'[i].price <= trades'[j].price
  <2>1. live[m].side = "sell" /\ t.price = live[m].price /\ t.price \in Nat
    <3>1. call.side = "buy"
          BY <1>1, <1>15, RequestAgrees
    <3> QED BY <1>2, <1>3, <1>4, <3>1, EngineAssumption DEF E!Opposite
  <2>2. \A k \in DOMAIN trades : trades[k].price <= t.price
        BY <1>1, <1>3, <1>15, <2>1 DEF CheapestFirst
  <2>3. CASE j = n + 1
        BY <1>10, <1>11, <1>12, <2>1, <2>2, <2>3
  <2>4. CASE j \in DOMAIN trades
    <3>1. i \in DOMAIN trades /\ trades'[i] = trades[i] /\ trades'[j] = trades[j]
          BY <1>10, <1>11, <1>15, <2>4
    <3> QED BY <1>1, <1>15, <2>4, <3>1 DEF DueOK
  <2> QED BY <1>12, <2>3, <2>4
<1>16. DueOK(trades', live', registry, holds, order)
      BY <1>11, <1>13, <1>14, <1>15 DEF DueOK
<1> QED BY <1>8, <1>16

\* One fill of the matching loop.
LEMMA MatchKeeps ==
    ASSUME PInv, stage = "matching", stage' = "matching", fills' = fills, Engine, E!Match
    PROVE  PInv'
<1>1. /\ EP!IInv /\ LedgerInv /\ FlowInv /\ StageOK /\ order \in Orders /\ CheapestFirst(trades, live, order)
      /\ call = MatchingRequest(order)
      /\ RestingOK(live, registry, holds) /\ KnownOK(live, registry, riskResting, {order.id})
      /\ IsTracked(order, registry) /\ TakerCovered(holds, order, reference, order.qty)
      /\ NoneOwn(live, registry, order) /\ DueOK(trades, live, registry, holds, order)
      /\ pc = "match" => Owed(trades) + remaining = order.qty
      /\ pc = "match" /\ remaining > 0 => \A i \in DOMAIN trades : trades[i].maker \notin DOMAIN live
      BY MatchingState, FillEffect DEF PInv
<1>2. EP!IInv'
      BY <1>1, EngineKeeps
<1>3. /\ pc = "match" /\ pc' = "match" /\ call' = call
      /\ remaining \in Nat /\ call.id \notin DOMAIN live
      BY <1>1, FillEffect
<1>4. PICK m, q : Filled(m, q)
      BY <1>1, FillEffect
<1>5. Shrunk(live, live', m, q) /\ (remaining' > 0 => m \notin DOMAIN live')
      BY <1>1, <1>3, <1>4, FillShrinks
<1>6. /\ RestingOK(live', registry, holds) /\ KnownOK(live', registry, riskResting, {order.id})
      /\ NoneOwn(live', registry, order)
      BY <1>1, <1>5, ShrunkKeeps
<1>7. /\ DueOK(trades', live', registry, holds, order)
      /\ Owed(trades') = Owed(trades) + q
      BY <1>3, <1>4, FillDue
<1>8. /\ q \in Nat \ {0} /\ q <= remaining /\ remaining' = remaining - q
      /\ trades' = Append(trades, [maker |-> m, price |-> live[m].price, qty |-> q])
      BY <1>4 DEF Filled
<1>9. Owed(trades') + remaining' = order.qty
  <2>1. Owed(trades) \in Nat
        BY <1>1, OwedType DEF DueOK
  <2> QED BY <1>1, <1>3, <1>7, <1>8, <2>1
<1>10. ASSUME remaining' > 0, NEW i \in DOMAIN trades' PROVE trades'[i].maker \notin DOMAIN live'
  <2>1. DOMAIN live' \subseteq DOMAIN live /\ m \notin DOMAIN live'
        BY <1>5, <1>10 DEF Shrunk
  <2>2. \A j \in DOMAIN trades : trades[j].maker \notin DOMAIN live
        BY <1>1, <1>3, <1>8
  <2>3. PICK t : t = [maker |-> m, price |-> live[m].price, qty |-> q]
        OBVIOUS
  <2>4. trades'[i] = t \/ (i \in DOMAIN trades /\ trades'[i] = trades[i])
    <3>1. trades \in Seq(Trades) /\ trades' = Append(trades, t)
          BY <1>1, <1>8, <2>3 DEF DueOK
    <3> QED BY <3>1
  <2> QED BY <2>1, <2>2, <2>3, <2>4
<1>11. CheapestFirst(trades', live', order)
  <2> SUFFICES ASSUME order.side = "buy", NEW i \in DOMAIN trades', NEW id \in DOMAIN live', live'[id].side = "sell"
               PROVE  trades'[i].price <= live'[id].price
      BY DEF CheapestFirst
  <2>1. id \in DOMAIN live /\ live[id].side = "sell" /\ live'[id].price = live[id].price
        BY <1>5 DEF Shrunk
  <2>2. PICK t : t = [maker |-> m, price |-> live[m].price, qty |-> q]
        OBVIOUS
  <2>3. trades'[i] = t \/ (i \in DOMAIN trades /\ trades'[i] = trades[i])
    <3>1. trades \in Seq(Trades) /\ trades' = Append(trades, t)
          BY <1>1, <1>8, <2>2 DEF DueOK
    <3> QED BY <3>1
  <2>4. live[m].price <= live[id].price
    <3>1. call.side = "buy"
          BY <1>1, RequestAgrees
    <3> QED BY <1>4, <2>1, <3>1 DEF Filled
  <2>5. i \in DOMAIN trades => trades[i].price <= live[id].price
        BY <1>1, <2>1 DEF CheapestFirst
  <2> QED BY <2>1, <2>2, <2>3, <2>4, <2>5
<1>12. MatchingStageOK'
      BY <1>1, <1>3, <1>6, <1>7, <1>9, <1>10, <1>11 DEF MatchingStageOK, Engine
<1>13. KnownOK(live', registry, riskResting, Newcomer')
      BY <1>6 DEF Newcomer, Engine
<1>14. StageOK' /\ RejectedOK' /\ SettleOK'
      BY <1>1 DEF StageOK, RejectedOK, SettleOK, Engine
<1>15. FlowInv'
      BY <1>1, <1>6, <1>12, <1>13, <1>14, EngineViews
<1> QED BY <1>2, <1>15 DEF PInv, Engine

\* What covers a quantity covers a smaller one.
LEMMA CoversLess ==
    ASSUME LedgerInv, NEW r \in Orders, NEW ref \in Nat, NEW a \in Nat, NEW b \in Nat,
           TakerCovered(holds, r, ref, a + b)
    PROVE  TakerCovered(holds, r, ref, b)
<1>1. PICK side : side = r.side
      OBVIOUS
<1>2. TakerFeeBps <= TakerFeeBps
      BY Fees
<1>3. /\ Need(side, ref, b, TakerFeeBps) \in Nat /\ Need(side, ref, a + b, TakerFeeBps) \in Nat
      /\ Need(side, ref, b, TakerFeeBps) <= Need(side, ref, a + b, TakerFeeBps)
      BY <1>2, Fees, NeedGrows
<1>4. Left(holds, HoldOf(r.id)) \in Nat /\ Left(holds, HoldOf(r.id)) >= Need(side, ref, a + b, TakerFeeBps)
      BY <1>1, LeftFacts DEF TakerCovered
<1>5. Left(holds, HoldOf(r.id)) >= Need(side, ref, b, TakerFeeBps)
      BY <1>3, <1>4
<1> QED BY <1>1, <1>5 DEF TakerCovered

\* The end of the matching: what is left of a limit order may come to rest.
LEMMA FinishKeeps ==
    ASSUME PInv, stage = "matching", stage' = "matching", fills' = fills, Engine, E!Finish
    PROVE  PInv'
<1>1. /\ EP!IInv /\ LedgerInv /\ FlowInv /\ StageOK /\ order \in Orders /\ ReferenceOK(order, reference)
      /\ call = MatchingRequest(order)
      /\ RestingOK(live, registry, holds) /\ KnownOK(live, registry, riskResting, {order.id})
      /\ IsTracked(order, registry) /\ TakerCovered(holds, order, reference, order.qty)
      /\ NoneOwn(live, registry, order) /\ DueOK(trades, live, registry, holds, order)
      /\ pc = "match" => Owed(trades) + remaining = order.qty
      BY MatchingState
<1>2. EP!IInv'
      BY <1>1, EngineKeeps
<1>3. PICK o : o = [side |-> call.side, price |-> call.price, open |-> remaining]
      OBVIOUS
<1>4. /\ pc = "match" /\ pc' = "return" /\ call' = call /\ trades' = trades
      /\ \/ live' = live
         \/ /\ remaining > 0 /\ call.type = "limit" /\ result'.accepted
            /\ live' = With(live, call.id, o)
      BY <1>3, FinishEffect
<1>5. remaining \in Nat /\ order.id \notin DOMAIN live
  <2>1. remaining \in Nat /\ call.id \notin DOMAIN live
        BY <1>1, <1>4, EngineParts, EP!MatchingFacts
  <2> QED BY <1>1, <2>1, RequestAgrees
<1>6. Owed(trades) \in Nat /\ Owed(trades) + remaining = order.qty
      BY <1>1, <1>4, OwedType DEF DueOK
<1>7. /\ DOMAIN live \subseteq DOMAIN live' /\ DOMAIN live' \subseteq DOMAIN live \cup {order.id}
      /\ \A id \in DOMAIN live : live'[id] = live[id]
  <2>1. call.id = order.id
        BY <1>1, RequestAgrees
  <2>2. CASE live' = live
        BY <2>2
  <2>3. CASE live' = With(live, call.id, o)
        BY <2>1, <2>3, <1>5 DEF With
  <2> QED BY <1>4, <2>2, <2>3
<1>8. ASSUME order.id \in DOMAIN live'
      PROVE  /\ live'[order.id] = [side |-> order.side, price |-> order.price, open |-> remaining]
             /\ order.type = "limit" /\ result'.accepted
  <2>1. call.type = "limit" /\ result'.accepted /\ live' = With(live, call.id, o)
        BY <1>4, <1>5, <1>8
  <2>2. live'[order.id] = o
        BY <1>1, <2>1, RequestAgrees DEF With
  <2> QED BY <1>1, <1>3, <2>1, <2>2, RequestAgrees
<1>9. Owed(trades') + OpenOf(live', order.id) <= order.qty
  <2>1. CASE order.id \in DOMAIN live'
    <3>1. OpenOf(live', order.id) = remaining
          BY <1>8, <2>1 DEF OpenOf
    <3> QED BY <1>4, <1>5, <1>6, <3>1
  <2>2. CASE order.id \notin DOMAIN live'
    <3>1. OpenOf(live', order.id) = 0
          BY <2>2 DEF OpenOf
    <3> QED BY <1>4, <1>5, <1>6, <3>1
  <2> QED BY <2>1, <2>2
<1>10. RestingOK(live', registry, holds)
  <2> SUFFICES ASSUME NEW id \in DOMAIN live'
               PROVE  /\ id \in DOMAIN registry /\ registry[id].side = live'[id].side
                      /\ Left(holds, HoldOf(id)) >= Need(live'[id].side, live'[id].price, live'[id].open, TakerFeeBps)
      BY DEF RestingOK
  <2>1. CASE id \in DOMAIN live
        BY <1>1, <1>7, <2>1 DEF RestingOK
  <2>2. CASE id \notin DOMAIN live
    <3>1. id = order.id /\ order.id \in DOMAIN live'
          BY <1>7, <2>2
    <3>2. live'[id].side = order.side /\ live'[id].price = order.price /\ live'[id].open = remaining
          BY <1>8, <3>1
    <3>3. reference = order.price /\ reference \in Nat
          BY <1>1, <1>8, <3>1 DEF ReferenceOK
    <3>4. TakerCovered(holds, order, reference, Owed(trades) + remaining)
          BY <1>1, <1>6
    <3>5. Left(holds, HoldOf(order.id)) >= Need(order.side, order.price, remaining, TakerFeeBps)
      <4>1. TakerCovered(holds, order, reference, remaining)
            BY <1>1, <1>5, <1>6, <3>3, <3>4, CoversLess
      <4> QED BY <3>3, <4>1 DEF TakerCovered
    <3>6. order.id \in DOMAIN registry /\ registry[order.id].side = order.side
          BY <1>1 DEF IsTracked
    <3> QED BY <3>1, <3>2, <3>5, <3>6
  <2> QED BY <2>1, <2>2
<1>11. DueOK(trades', live', registry, holds, order)
  <2>1. ASSUME NEW i \in DOMAIN trades
        PROVE  /\ OpenOf(live', trades[i].maker) = OpenOf(live, trades[i].maker)
               /\ trades[i].maker \in DOMAIN live' =>
                     trades[i].maker \in DOMAIN live /\ live'[trades[i].maker] = live[trades[i].maker]
    <3>1. trades[i].maker # order.id
          BY <1>1 DEF DueOK
    <3> QED BY <1>7, <3>1 DEF OpenOf
  <2> QED BY <1>1, <1>4, <2>1 DEF DueOK
<1>12. NoneOwn(live', registry, order)
      BY <1>1, <1>7 DEF NoneOwn
<1>13. KnownOK(live', registry, riskResting, Newcomer')
  <2>1. Newcomer' = {order.id}
        BY DEF Newcomer, Engine
  <2> QED BY <1>1, <1>7, <2>1 DEF KnownOK
<1>14. MatchingStageOK'
      BY <1>1, <1>4, <1>8, <1>9, <1>11, <1>12 DEF MatchingStageOK, Engine
<1>15. StageOK' /\ RejectedOK' /\ SettleOK'
      BY <1>1 DEF StageOK, RejectedOK, SettleOK, Engine
<1>16. FlowInv'
      BY <1>1, <1>10, <1>13, <1>14, <1>15, EngineViews
<1> QED BY <1>2, <1>16 DEF PInv, Engine

\* submit of the engine returns.
LEMMA MatchedKeeps ==
    ASSUME PInv, Matched
    PROVE  PInv'
<1>1. /\ stage = "matching" /\ E!Return /\ fills' = trades
      /\ stage' = (IF ~result.accepted /\ trades = << >> THEN "rejected" ELSE "settle")
      /\ UNCHANGED clearingVars /\ UNCHANGED viewVars /\ UNCHANGED <<registry, order, reference, outcome>>
      BY DEF Matched
<1>2. /\ EP!IInv /\ LedgerInv /\ FlowInv /\ StageOK /\ order \in Orders /\ ReferenceOK(order, reference)
      /\ RestingOK(live, registry, holds) /\ KnownOK(live, registry, riskResting, {order.id})
      /\ IsTracked(order, registry) /\ TakerCovered(holds, order, reference, order.qty)
      /\ DueOK(trades, live, registry, holds, order)
      /\ pc = "return" => Owed(trades) + OpenOf(live, order.id) <= order.qty
      /\ pc = "return" /\ order.id \in DOMAIN live =>
            result.accepted /\ order.type = "limit" /\ live[order.id].price = order.price
      BY <1>1, MatchingState
<1>3. EP!IInv'
      BY <1>1, <1>2, EngineKeeps
<1>4. Engine
      BY <1>1, <1>2, LedgerStands DEF Engine, clearingVars, viewVars
<1>5. pc = "return" /\ pc' = "idle" /\ live' = live
      BY <1>1, ReturnEffect
<1>6. TakerCovered(holds, order, reference, Owed(trades) + OpenOf(live, order.id))
  <2>1. PICK b : b = Owed(trades) + OpenOf(live, order.id)
        OBVIOUS
  <2>2. Owed(trades) \in Nat /\ OpenOf(live, order.id) \in Nat
        BY <1>2, OwedType, LiveFacts DEF DueOK, OpenOf
  <2>3. order.qty \in Nat /\ reference \in Nat
        BY <1>2, OrderFacts DEF ReferenceOK
  <2>4. b \in Nat /\ order.qty - b \in Nat /\ (order.qty - b) + b = order.qty
        BY <1>2, <1>5, <2>1, <2>2, <2>3
  <2>5. TakerCovered(holds, order, reference, (order.qty - b) + b)
        BY <1>2, <2>4
  <2>6. TakerCovered(holds, order, reference, b)
        BY <1>2, <2>3, <2>4, <2>5, CoversLess
  <2> QED BY <2>1, <2>6
<1>7. SettleOK'
      BY <1>1, <1>2, <1>4, <1>5, <1>6 DEF SettleOK, Engine
<1>8. RejectedOK' /\ MatchingStageOK'
      BY <1>1, <1>2, <1>4, <1>5 DEF RejectedOK, MatchingStageOK, Engine
<1>9. StageOK'
      BY <1>1, <1>2, <1>4, <1>5 DEF StageOK, Engine
<1>10. KnownOK(live', registry, riskResting, Newcomer') /\ RestingOK(live', registry, holds)
  <2>1. CASE stage' = "settle"
    <3>1. Newcomer' = {order.id}
          BY <2>1, <1>4 DEF Newcomer, Engine
    <3> QED BY <1>2, <1>5, <3>1
  <2>2. CASE stage' = "rejected"
    <3>1. order.id \notin DOMAIN live
          BY <1>1, <1>2, <1>5, <2>2
    <3> QED BY <1>2, <1>5, <3>1 DEF KnownOK
  <2> QED BY <1>1, <2>1, <2>2
<1>11. FlowInv'
      BY <1>1, <1>2, <1>4, <1>7, <1>8, <1>9, <1>10, EngineViews
<1> QED BY <1>3, <1>4, <1>11 DEF PInv, Engine
-----------------------------------------------------------------------------
(* Holds are given back.                                                     *)

\* sync_resting_orders: the risk engine knows the book.
LEMMA SyncKnows ==
    ASSUME EP!IInv, NEW reg, \A id \in DOMAIN live : id \in DOMAIN reg /\ reg[id].side = live[id].side
    PROVE  KnownOK(live, reg, Kept \cup Tracked(reg), {})
<1> SUFFICES ASSUME NEW id \in DOMAIN live
             PROVE  \E o \in Kept \cup Tracked(reg) :
                       /\ o.user = reg[id].user /\ o.side = live[id].side
                       /\ o.price = live[id].price /\ o.qty \in Nat /\ o.qty >= live[id].open
    BY DEF KnownOK
<1>1. PICK o : o = [user |-> reg[id].user, side |-> reg[id].side, price |-> live[id].price,
                    qty |-> live[id].open]
      OBVIOUS
<1>2. o \in Tracked(reg)
      BY <1>1 DEF Tracked
<1>3. o.user = reg[id].user /\ o.side = live[id].side /\ o.price = live[id].price /\ o.qty = live[id].open
      BY <1>1
<1>4. live[id].open \in Nat
      BY LiveFacts
<1>5. o.qty \in Nat /\ o.qty >= live[id].open
      BY <1>3, <1>4
<1> QED BY <1>2, <1>3, <1>5

\* An order that is not in the book is given its hold back and forgotten.
LEMMA ReleaseForgets ==
    ASSUME EP!IInv, LedgerInv, TrackedOK(holds, registry), RestingOK(live, registry, holds),
           riskAccounts = [u \in Users |-> View(accounts[u])],
           NEW id \in DOMAIN registry, id \notin DOMAIN live, ReleaseResidual(HoldOf(id)),
           NEW reg, reg = Without(registry, id)
    PROVE  /\ LedgerInv' /\ Released(HoldOf(id))
           /\ TrackedOK(holds', reg) /\ RestingOK(live, reg, holds')
           /\ Synced({registry[id].user}) = [u \in Users |-> View(accounts'[u])]
           /\ \A x : x # id => Left(holds', HoldOf(x)) = Left(holds, HoldOf(x))
           /\ Left(holds', HoldOf(id)) = 0
<1>1. id \in OrderIds /\ (HoldOf(id) \in DOMAIN holds => holds[HoldOf(id)].account = registry[id].user)
      BY DEF TrackedOK
<1>2. /\ LedgerInv' /\ Released(HoldOf(id))
      /\ DOMAIN holds' = DOMAIN holds \ {HoldOf(id)} /\ \A h \in DOMAIN holds' : holds'[h] = holds[h]
      /\ \A x \in Users :
            (HoldOf(id) \in DOMAIN holds => x # holds[HoldOf(id)].account) => accounts'[x] = accounts[x]
      BY <1>1, ReleaseEffect
<1>3. \A x \in Users \ {registry[id].user} : accounts'[x] = accounts[x]
      BY <1>1, <1>2
<1>4. Synced({registry[id].user}) = [u \in Users |-> View(accounts'[u])]
      BY <1>3, SyncedViews
<1>5. /\ \A x : x # id => Left(holds', HoldOf(x)) = Left(holds, HoldOf(x))
      /\ Left(holds', HoldOf(id)) = 0
      BY <1>2, HoldsApart DEF Left
<1>6. DOMAIN reg = DOMAIN registry \ {id} /\ \A x \in DOMAIN reg : reg[x] = registry[x]
      BY DEF Without
<1>7. TrackedOK(holds', reg)
  <2>1. DOMAIN reg \subseteq OrderIds /\ \A x \in DOMAIN reg : reg[x] \in [user : Users, side : E!Sides]
        BY <1>6 DEF TrackedOK
  <2>2. \A h \in DOMAIN holds' : \E x \in DOMAIN reg : h = HoldOf(x)
        BY <1>2, <1>6 DEF TrackedOK
  <2>3. \A x \in DOMAIN reg : HoldOf(x) \in DOMAIN holds' =>
          /\ holds'[HoldOf(x)].account = reg[x].user
          /\ holds'[HoldOf(x)].asset = HoldAsset(reg[x].side)
        BY <1>2, <1>6 DEF TrackedOK
  <2> QED BY <2>1, <2>2, <2>3 DEF TrackedOK
<1>8. RestingOK(live, reg, holds')
      BY <1>5, <1>6 DEF RestingOK
<1> QED BY <1>2, <1>4, <1>5, <1>7, <1>8

\* handle_rejected_match
LEMMA RejectedKeeps ==
    ASSUME PInv, ReleaseRejected
    PROVE  PInv' /\ outcome' = "matching_rejected"
<1>1. /\ stage = "rejected" /\ ReleaseResidual(HoldOf(order.id))
      /\ UNCHANGED engineVars /\ live' = live /\ pc' = pc /\ top' = top
      BY DEF ReleaseRejected, engineVars
<1>2. /\ EP!IInv /\ LedgerInv /\ StageOK /\ ViewsOK
      /\ TrackedOK(holds, registry) /\ RestingOK(live, registry, holds)
      /\ IsTracked(order, registry) /\ order.id \notin DOMAIN live
      BY <1>1 DEF PInv, FlowInv, RejectedOK
<1>3. /\ riskAccounts = [u \in Users |-> View(accounts[u])] /\ top \in [bid : Nat, ask : Nat] /\ top # NoTop
      /\ order.id \in DOMAIN registry /\ registry[order.id].user = order.user
      BY <1>2 DEF ViewsOK, IsTracked
<1>4. PICK reg : reg = Without(registry, order.id)
      OBVIOUS
<1>5. /\ LedgerInv' /\ Released(HoldOf(order.id))
      /\ TrackedOK(holds', reg) /\ RestingOK(live, reg, holds')
      /\ Synced({registry[order.id].user}) = [u \in Users |-> View(accounts'[u])]
      BY <1>1, <1>2, <1>3, <1>4, ReleaseForgets
<1>6. /\ registry' = reg /\ riskAccounts' = Synced({order.user}) /\ SyncRestingOrders(registry')
      /\ Answer("matching_rejected")
      BY <1>4, <1>5 DEF ReleaseRejected
<1>7. /\ stage' = "idle" /\ outcome' = "matching_rejected" /\ fills' = << >>
      /\ riskResting' = Kept \cup Tracked(reg)
      BY <1>6 DEF Answer, SyncRestingOrders
<1>8. KnownOK(live, reg, Kept \cup Tracked(reg), {})
      BY <1>2, <1>5, SyncKnows DEF RestingOK
<1>9. ViewsOK'
  <2>1. Newcomer' = {}
        BY <1>7 DEF Newcomer
  <2> QED BY <1>1, <1>3, <1>5, <1>6, <1>7, <1>8, <2>1 DEF ViewsOK
<1>10. StageOK' /\ SubmitOK' /\ MatchingStageOK' /\ RejectedOK' /\ SettleOK' /\ CompletionReleasesHolds'
      BY <1>1, <1>2, <1>7 DEF StageOK, SubmitOK, MatchingStageOK, RejectedOK, SettleOK, CompletionReleasesHolds
<1>11. TrackedOK(holds', registry') /\ RestingOK(live', registry', holds')
      BY <1>1, <1>5, <1>6
<1>12. EP!IInv'
      BY <1>1, <1>2, EngineKeeps
<1> QED BY <1>5, <1>7, <1>9, <1>10, <1>11, <1>12 DEF PInv, FlowInv

\* What is left of no quantity needs nothing.
LEMMA NoNeed == \A side : \A p, n \in Nat : Need(side, p, 0, n) = 0
<1> SUFFICES ASSUME NEW side, NEW p \in Nat, NEW n \in Nat PROVE Need(side, p, 0, n) = 0
    OBVIOUS
<1>1. p * 0 = 0 /\ 0 * n = 0 /\ 0 \div 10000 = 0
      OBVIOUS
<1> QED BY <1>1 DEF Need, Cost, C!FeeAmount

\* release_closed_orders, one order.
LEMMA ClosedKeeps ==
    ASSUME PInv, NEW id \in OrderIds, ReleaseClosed(id)
    PROVE  PInv' /\ stage' = stage
<1>1. /\ stage = "settle" /\ fills = << >> /\ id \in DOMAIN registry /\ id \notin DOMAIN live
      /\ ReleaseResidual(HoldOf(id))
      /\ UNCHANGED engineVars /\ live' = live /\ pc' = pc /\ top' = top /\ riskResting' = riskResting
      BY DEF ReleaseClosed, engineVars, Closed
<1>2. /\ EP!IInv /\ LedgerInv /\ StageOK /\ ViewsOK /\ SettleOK
      /\ TrackedOK(holds, registry) /\ RestingOK(live, registry, holds)
      BY DEF PInv, FlowInv
<1>3. /\ riskAccounts = [u \in Users |-> View(accounts[u])] /\ top \in [bid : Nat, ask : Nat] /\ top # NoTop
      /\ KnownOK(live, registry, riskResting, {order.id}) /\ ReferenceOK(order, reference)
      BY <1>1, <1>2 DEF ViewsOK, Newcomer, StageOK
<1>4. PICK reg : reg = Without(registry, id)
      OBVIOUS
<1>5. /\ LedgerInv' /\ Released(HoldOf(id))
      /\ TrackedOK(holds', reg) /\ RestingOK(live, reg, holds')
      /\ Synced({registry[id].user}) = [u \in Users |-> View(accounts'[u])]
      /\ \A x : x # id => Left(holds', HoldOf(x)) = Left(holds, HoldOf(x))
      /\ Left(holds', HoldOf(id)) = 0
      BY <1>1, <1>2, <1>3, <1>4, ReleaseForgets
<1>6. /\ registry' = reg /\ riskAccounts' = Synced({registry[id].user})
      /\ stage' = stage /\ order' = order /\ reference' = reference /\ fills' = fills /\ outcome' = outcome
      BY <1>4, <1>5 DEF ReleaseClosed
<1>7. TakerCovered(holds', order, reference, Owed(fills) + OpenOf(live, order.id))
  <2>1. TakerCovered(holds, order, reference, Owed(fills) + OpenOf(live, order.id))
        BY <1>1, <1>2 DEF SettleOK, Dearer
  <2>2. CASE id # order.id
        BY <1>5, <2>1, <2>2 DEF TakerCovered
  <2>3. CASE id = order.id
    <3>1. Owed(fills) = 0 /\ OpenOf(live, order.id) = 0
          BY <1>1, <2>3, OwedType DEF OpenOf
    <3>2. Need(order.side, reference, 0, TakerFeeBps) = 0
          BY <1>3, Fees, NoNeed DEF ReferenceOK
    <3>3. Left(holds', HoldOf(order.id)) >= Need(order.side, reference, Owed(fills) + OpenOf(live, order.id), TakerFeeBps)
          BY <1>5, <2>3, <3>1, <3>2
    <3> QED BY <3>3 DEF TakerCovered
  <2> QED BY <2>2, <2>3
<1>8. SettleOK'
  <2>1. DOMAIN fills' = {} /\ fills' \in Seq(Trades) /\ fills' = << >>
        BY <1>1, <1>6
  <2>2. DueOK(fills', live', registry', holds', order')
        BY <2>1 DEF DueOK
  <2>3. order'.id \in DOMAIN live' => order'.type = "limit" /\ live'[order'.id].price = order'.price
        BY <1>1, <1>2, <1>6 DEF SettleOK
  <2> QED BY <1>1, <1>6, <1>7, <2>1, <2>2, <2>3 DEF SettleOK
<1>9. KnownOK(live', registry', riskResting', Newcomer')
  <2>1. Newcomer' = {order.id}
        BY <1>1, <1>6 DEF Newcomer
  <2>2. \A x \in DOMAIN live : registry'[x] = registry[x]
        BY <1>1, <1>2, <1>4, <1>6 DEF Without, RestingOK
  <2> QED BY <1>1, <1>3, <2>1, <2>2 DEF KnownOK
<1>10. ViewsOK'
      BY <1>1, <1>3, <1>5, <1>6, <1>9 DEF ViewsOK
<1>11. StageOK' /\ SubmitOK' /\ MatchingStageOK' /\ RejectedOK' /\ CompletionReleasesHolds'
      BY <1>1, <1>2, <1>6 DEF StageOK, SubmitOK, MatchingStageOK, RejectedOK, CompletionReleasesHolds
<1>12. TrackedOK(holds', registry') /\ RestingOK(live', registry', holds')
      BY <1>1, <1>5, <1>6
<1>13. EP!IInv'
      BY <1>1, <1>2, EngineKeeps
<1> QED BY <1>5, <1>6, <1>8, <1>10, <1>11, <1>12, <1>13 DEF PInv, FlowInv

\* sync_resting_orders, refresh_market_reference, and the answer.
LEMMA CompleteKeeps ==
    ASSUME PInv, Complete
    PROVE  PInv' /\ outcome' = "completed"
<1>1. /\ stage = "settle" /\ Closed = {} /\ SyncRestingOrders(registry) /\ Answer("completed")
      /\ top' = [bid |-> BestBid, ask |-> BestAsk]
      /\ UNCHANGED engineVars /\ UNCHANGED clearingVars /\ riskAccounts' = riskAccounts /\ registry' = registry
      BY DEF Complete
<1>2. /\ live' = live /\ pc' = pc /\ accounts' = accounts /\ holds' = holds
      /\ stage' = "idle" /\ outcome' = "completed" /\ fills' = << >>
      /\ riskResting' = Kept \cup Tracked(registry)
      BY <1>1 DEF engineVars, clearingVars, Answer, SyncRestingOrders
<1>3. /\ EP!IInv /\ LedgerInv /\ StageOK /\ ViewsOK
      /\ TrackedOK(holds, registry) /\ RestingOK(live, registry, holds)
      BY DEF PInv, FlowInv
<1>4. EP!IInv' /\ LedgerInv'
      BY <1>1, <1>3, EngineKeeps, LedgerStands
<1>5. ViewsOK'
  <2>1. Newcomer' = {}
        BY <1>2 DEF Newcomer
  <2>2. KnownOK(live, registry, Kept \cup Tracked(registry), {})
        BY <1>3, SyncKnows DEF RestingOK
  <2>3. top' \in [bid : Nat, ask : Nat] /\ top' # NoTop
        BY <1>1, TopType
  <2> QED BY <1>1, <1>2, <1>3, <2>1, <2>2, <2>3 DEF ViewsOK
<1>6. DOMAIN registry = DOMAIN live
      BY <1>1, <1>3 DEF Closed, RestingOK
<1>7. DOMAIN holds = {HoldOf(id) : id \in DOMAIN live}
  <2>1. \A id \in DOMAIN live : HoldOf(id) \in DOMAIN holds
        BY <1>3, LiveHeld
  <2>2. \A h \in DOMAIN holds : \E id \in DOMAIN live : h = HoldOf(id)
        BY <1>3, <1>6 DEF TrackedOK
  <2> QED BY <2>1, <2>2
<1>8. CompletionReleasesHolds'
      BY <1>1, <1>2, <1>6, <1>7 DEF CompletionReleasesHolds
<1>9. StageOK' /\ SubmitOK' /\ MatchingStageOK' /\ RejectedOK' /\ SettleOK'
      BY <1>1, <1>2, <1>3 DEF StageOK, SubmitOK, MatchingStageOK, RejectedOK, SettleOK
<1>10. TrackedOK(holds', registry') /\ RestingOK(live', registry', holds')
      BY <1>1, <1>2, <1>3
<1> QED BY <1>2, <1>4, <1>5, <1>8, <1>9, <1>10 DEF PInv, FlowInv
-----------------------------------------------------------------------------
(* Trades are settled.                                                       *)

\* What the first of the trades that are due costs its two orders.
TakerPays(t) == Need(order.side, t.price, t.qty, TakerFeeBps)
MakerPays(t) == Need(E!Opposite(order.side), t.price, t.qty, MakerFeeBps)

\* The holds of both orders are consumed.
Spent(t) ==
    /\ DOMAIN holds' \subseteq DOMAIN holds
    /\ \A h \in DOMAIN holds' : holds'[h].account = holds[h].account /\ holds'[h].asset = holds[h].asset
    /\ \A id : id \notin {order.id, t.maker} => Left(holds', HoldOf(id)) = Left(holds, HoldOf(id))
    /\ Left(holds', HoldOf(order.id)) = Left(holds, HoldOf(order.id)) - TakerPays(t)
    /\ Left(holds', HoldOf(t.maker)) = Left(holds, HoldOf(t.maker)) - MakerPays(t)

\* The first trade that is due: both its orders are tracked and its maker's hold
\* covers it and what is open of the maker, as does the taker's hold the trade,
\* the others that are due and what is open of the taker.
LEMMA FirstDue ==
    ASSUME PInv, stage = "settle", fills # << >>, NEW t, t = fills[1],
           NEW a, a = OpenOf(live, t.maker), NEW b, b = Owed(Tail(fills)) + OpenOf(live, order.id)
    PROVE  /\ order \in Orders /\ ReferenceOK(order, reference) /\ t \in Trades /\ t.maker # order.id
           /\ t.price \in Nat \ {0} /\ E!PriceAllows(order, t.price)
           /\ IsTracked(order, registry) /\ t.maker \in DOMAIN registry
           /\ registry[t.maker].side = E!Opposite(order.side)
           /\ a \in Nat /\ b \in Nat /\ TakerPays(t) \in Nat \ {0} /\ MakerPays(t) \in Nat \ {0}
           /\ Need(E!Opposite(order.side), t.price, a, TakerFeeBps) \in Nat
           /\ Left(holds, HoldOf(t.maker)) >=
                 MakerPays(t) + Need(E!Opposite(order.side), t.price, a, TakerFeeBps)
           /\ Need(E!Opposite(order.side), t.price, t.qty, TakerFeeBps) \in Nat
           /\ Left(holds, HoldOf(t.maker)) >= Need(E!Opposite(order.side), t.price, t.qty, TakerFeeBps)
           /\ ~Dearer(order, reference, fills) =>
                 /\ Need(order.side, reference, b, TakerFeeBps) \in Nat
                 /\ Left(holds, HoldOf(order.id)) >=
                       TakerPays(t) + Need(order.side, reference, b, TakerFeeBps)
<1>1. /\ EP!IInv /\ LedgerInv /\ order \in Orders /\ ReferenceOK(order, reference) /\ IsTracked(order, registry)
      /\ DueOK(fills, live, registry, holds, order)
      /\ \/ Dearer(order, reference, fills)
         \/ TakerCovered(holds, order, reference, Owed(fills) + OpenOf(live, order.id))
      BY DEF PInv, FlowInv, StageOK, SettleOK, PricedOrders
<1>2. /\ 1 \in DOMAIN fills /\ t \in Trades /\ Tail(fills) \in Seq(Trades)
      /\ Owed(fills) = t.qty + Owed(Tail(fills))
      BY <1>1, OwedTail DEF DueOK
<1>3. /\ t.maker # order.id /\ t.maker \in DOMAIN registry
      /\ registry[t.maker].side = E!Opposite(order.side) /\ E!PriceAllows(order, t.price)
      /\ Left(holds, HoldOf(t.maker)) >= Need(E!Opposite(order.side), t.price, t.qty + a, TakerFeeBps)
      BY <1>1, <1>2 DEF DueOK
<1>4. t.price \in Nat \ {0} /\ t.qty \in Nat \ {0} /\ t.qty \in Nat
      BY <1>2, EngineAssumption DEF Trades
<1>5. \A id : OpenOf(live, id) \in Nat
      BY <1>1, LiveFacts DEF OpenOf
<1>6. Owed(Tail(fills)) \in Nat
      BY <1>2, OwedType
<1>7. a \in Nat /\ b \in Nat
      BY <1>5, <1>6
<1>8. PICK s, p, q : s = E!Opposite(order.side) /\ p = t.price /\ q = t.qty
      OBVIOUS
<1>9. p \in Nat \ {0} /\ p \in Nat /\ p <= p /\ q \in Nat /\ q > 0 /\ MakerFeeBps <= TakerFeeBps
      /\ TakerFeeBps <= TakerFeeBps
      BY <1>4, <1>8, Fees
<1>10. /\ Need(s, p, q, MakerFeeBps) \in Nat /\ Need(s, p, a, TakerFeeBps) \in Nat
       /\ Need(s, p, q, MakerFeeBps) + Need(s, p, a, TakerFeeBps) <= Need(s, p, q + a, TakerFeeBps)
       /\ Need(s, p, q, MakerFeeBps) > 0
      BY <1>7, <1>9, Fees, NeedFacts
<1>11. /\ Need(s, p, q + a, TakerFeeBps) \in Nat /\ Need(s, p, q, TakerFeeBps) \in Nat
       /\ Need(s, p, q, TakerFeeBps) <= Need(s, p, q + a, TakerFeeBps)
  <2>1. /\ Need(s, p, q, TakerFeeBps) \in Nat /\ Need(s, p, a + q, TakerFeeBps) \in Nat
        /\ Need(s, p, q, TakerFeeBps) <= Need(s, p, a + q, TakerFeeBps)
        BY <1>7, <1>9, Fees, NeedGrows
  <2>2. a + q = q + a
        BY <1>7, <1>9
  <2> QED BY <2>1, <2>2
<1>12. \A h : Left(holds, h) \in Nat
      BY <1>1, LeftFacts
<1>13. /\ MakerPays(t) \in Nat \ {0} /\ Need(E!Opposite(order.side), t.price, a, TakerFeeBps) \in Nat
       /\ Left(holds, HoldOf(t.maker)) >= MakerPays(t) + Need(E!Opposite(order.side), t.price, a, TakerFeeBps)
       /\ Need(E!Opposite(order.side), t.price, t.qty, TakerFeeBps) \in Nat
       /\ Left(holds, HoldOf(t.maker)) >= Need(E!Opposite(order.side), t.price, t.qty, TakerFeeBps)
  <2>1. Left(holds, HoldOf(t.maker)) \in Nat /\ Left(holds, HoldOf(t.maker)) >= Need(s, p, q + a, TakerFeeBps)
        BY <1>3, <1>8, <1>12
  <2>2. /\ Left(holds, HoldOf(t.maker)) >= Need(s, p, q, MakerFeeBps) + Need(s, p, a, TakerFeeBps)
        /\ Left(holds, HoldOf(t.maker)) >= Need(s, p, q, TakerFeeBps)
        BY <1>10, <1>11, <2>1
  <2> QED BY <1>8, <1>10, <1>11, <2>2 DEF MakerPays
<1>14. PICK o : o = order.side
      OBVIOUS
<1>15. Need(o, p, q, TakerFeeBps) \in Nat /\ Need(o, p, q, TakerFeeBps) > 0
      BY <1>7, <1>9, Fees, NeedFacts
<1>16. TakerPays(t) \in Nat \ {0}
      BY <1>8, <1>14, <1>15 DEF TakerPays
<1>17. ASSUME ~Dearer(order, reference, fills)
       PROVE  /\ Need(order.side, reference, b, TakerFeeBps) \in Nat
              /\ Left(holds, HoldOf(order.id)) >=
                    TakerPays(t) + Need(order.side, reference, b, TakerFeeBps)
  <2>1. PICK l : l = reference
        OBVIOUS
  <2>2. l \in Nat /\ (o = "buy" => p <= l)
    <3>1. l \in Nat
          BY <1>1, <2>1 DEF ReferenceOK
    <3>2. o = "buy" => p <= l
          BY <1>8, <1>9, <1>14, <1>17, <2>1, <3>1 DEF Dearer
    <3> QED BY <3>1, <3>2
  <2>3. /\ Need(o, l, b, TakerFeeBps) \in Nat
        /\ Need(o, p, q, TakerFeeBps) + Need(o, l, b, TakerFeeBps) <= Need(o, l, q + b, TakerFeeBps)
        BY <1>7, <1>9, <2>2, Fees, NeedFacts
  <2>4. Need(o, l, q + b, TakerFeeBps) \in Nat
        BY <1>7, <1>9, <2>2, Fees, NeedGrows
  <2>5. Owed(fills) + OpenOf(live, order.id) = q + b
        BY <1>2, <1>4, <1>5, <1>6, <1>8
  <2>6. Left(holds, HoldOf(order.id)) \in Nat /\ Left(holds, HoldOf(order.id)) >= Need(o, l, q + b, TakerFeeBps)
        BY <1>1, <1>12, <1>14, <1>17, <2>1, <2>5 DEF TakerCovered
  <2>7. Left(holds, HoldOf(order.id)) >= Need(o, p, q, TakerFeeBps) + Need(o, l, b, TakerFeeBps)
        BY <1>15, <2>3, <2>4, <2>6
  <2> QED BY <1>8, <1>14, <2>1, <2>3, <2>7 DEF TakerPays
<1> QED BY <1>1, <1>2, <1>3, <1>4, <1>7, <1>13, <1>16, <1>17

\* The fill of a trade takes from each hold what the trade costs its order.
LEMMA FillCosts ==
    ASSUME PInv, stage = "settle", fills # << >>, NEW t, t = fills[1], NEW f, f = FillOf(t)
    PROVE  /\ f \in CP!Fills /\ f.qty = t.qty
           /\ order.side = "buy" =>
                 /\ f.buyerHold = HoldOf(order.id) /\ f.sellerHold = HoldOf(t.maker)
                 /\ f.buyer = registry[order.id].user /\ f.seller = registry[t.maker].user
                 /\ C!BuyerConsumes(f) = TakerPays(t) /\ f.qty = MakerPays(t)
           /\ order.side = "sell" =>
                 /\ f.buyerHold = HoldOf(t.maker) /\ f.sellerHold = HoldOf(order.id)
                 /\ f.buyer = registry[t.maker].user /\ f.seller = registry[order.id].user
                 /\ C!BuyerConsumes(f) = MakerPays(t) /\ f.qty = TakerPays(t)
<1>1. /\ order \in Orders /\ t \in Trades /\ IsTracked(order, registry) /\ t.maker \in DOMAIN registry
      BY FirstDue
<1>2. /\ order.id \in OrderIds /\ order.side \in {"buy", "sell"}
      /\ registry[order.id].side = order.side /\ order.id \in DOMAIN registry
      BY <1>1, OrderFacts DEF IsTracked
<1>3. /\ t.maker \in OrderIds /\ t.price \in Prices /\ t.qty \in Nat
      BY <1>1 DEF Trades
<1>4. registry[order.id].user \in Users /\ registry[t.maker].user \in Users
      BY <1>1, <1>2 DEF PInv, FlowInv, TrackedOK
<1>5. /\ f.trade = TradeId(t.maker, order.id) /\ f.price = t.price /\ f.qty = t.qty
      /\ f.buyerIsTaker = (order.side = "buy")
      BY <1>2 DEF FillOf
<1>6. CASE order.side = "buy"
  <2>1. /\ f.buyerHold = HoldOf(order.id) /\ f.sellerHold = HoldOf(t.maker)
        /\ f.buyer = registry[order.id].user /\ f.seller = registry[t.maker].user
        BY <1>2, <1>6 DEF FillOf
  <2>2. C!BuyerConsumes(f) = TakerPays(t)
        BY <1>5, <1>6 DEF C!BuyerConsumes, C!BuyerFee, C!Notional, TakerPays, Need, Cost
  <2>3. f.qty = MakerPays(t)
        BY <1>5, <1>6 DEF MakerPays, Need, E!Opposite
  <2>4. f \in CP!Fills
        BY <1>2, <1>3, <1>4, <1>6 DEF FillOf, CP!Fills
  <2> QED BY <1>5, <1>6, <2>1, <2>2, <2>3, <2>4
<1>7. CASE order.side = "sell"
  <2>1. /\ f.buyerHold = HoldOf(t.maker) /\ f.sellerHold = HoldOf(order.id)
        /\ f.buyer = registry[t.maker].user /\ f.seller = registry[order.id].user
        BY <1>2, <1>7 DEF FillOf
  <2>2. C!BuyerConsumes(f) = MakerPays(t)
        BY <1>5, <1>7 DEF C!BuyerConsumes, C!BuyerFee, C!Notional, MakerPays, Need, Cost, E!Opposite
  <2>3. f.qty = TakerPays(t)
        BY <1>5, <1>7 DEF TakerPays, Need
  <2>4. f \in CP!Fills
        BY <1>2, <1>3, <1>4, <1>7 DEF FillOf, CP!Fills
  <2> QED BY <1>5, <1>7, <2>1, <2>2, <2>3, <2>4
<1> QED BY <1>2, <1>6, <1>7

\* What settling a trade does; it is refused only when rounding decides so or it
\* is dearer than what the taker's hold was taken for.
LEMMA TradeSettles ==
    ASSUME PInv, stage = "settle", fills # << >>, NEW t, t = fills[1], NEW f, f = FillOf(t),
           C!SettleSpotTrade(f)
    PROVE  /\ LedgerInv'
           /\ status' # "applied" => holds' = holds /\ accounts' = accounts
           /\ status' = "applied" => Spent(t)
           /\ \A x \in Users \ {f.buyer, f.seller} : accounts'[x] = accounts[x]
           /\ \/ status' \in {"applied", "duplicate"}
              \/ Dearer(order, reference, fills)
              \/ C!DecidedByRounding(f)
<1>1. LedgerInv /\ TrackedOK(holds, registry) /\ f \in CP!Fills
      BY FillCosts DEF PInv, FlowInv
<1>2. /\ order \in Orders /\ t.maker # order.id /\ t \in Trades
      /\ IsTracked(order, registry) /\ t.maker \in DOMAIN registry
      /\ registry[t.maker].side = E!Opposite(order.side)
      /\ TakerPays(t) \in Nat \ {0} /\ MakerPays(t) \in Nat \ {0}
      BY FirstDue
<1>3. /\ LedgerInv'
      /\ status' # "applied" => UNCHANGED <<accounts, holds>>
      /\ status' = "applied" => Consumed(f, C!BuyerConsumes(f))
      /\ \A x \in Users \ {f.buyer, f.seller} : accounts'[x] = accounts[x]
      BY <1>1, SettleEffect
<1>4. order.side \in {"buy", "sell"} /\ order.id \in DOMAIN registry /\ registry[order.id].side = order.side
      BY <1>2, OrderFacts DEF IsTracked
<1>5. HoldOf(order.id) # HoldOf(t.maker)
      BY <1>2, HoldsApart
<1>6. ASSUME status' = "applied" PROVE Spent(t)
  <2>1. /\ DOMAIN holds' \subseteq DOMAIN holds
        /\ \A h \in DOMAIN holds' : holds'[h].account = holds[h].account /\ holds'[h].asset = holds[h].asset
        /\ \A h : h \notin {f.buyerHold, f.sellerHold} => Left(holds', h) = Left(holds, h)
        /\ Left(holds', f.buyerHold) = Left(holds, f.buyerHold) - C!BuyerConsumes(f)
        /\ Left(holds', f.sellerHold) = Left(holds, f.sellerHold) - f.qty
        BY <1>3, <1>6 DEF Consumed
  <2>2. {f.buyerHold, f.sellerHold} = {HoldOf(order.id), HoldOf(t.maker)}
        BY <1>4, FillCosts
  <2>3. \A id : id \notin {order.id, t.maker} => Left(holds', HoldOf(id)) = Left(holds, HoldOf(id))
    <3> SUFFICES ASSUME NEW id, id # order.id, id # t.maker
                 PROVE  Left(holds', HoldOf(id)) = Left(holds, HoldOf(id))
        OBVIOUS
    <3>1. PICK h : h = HoldOf(id)
          OBVIOUS
    <3>2. h # HoldOf(order.id) /\ h # HoldOf(t.maker)
          BY <3>1, HoldsApart
    <3> QED BY <2>1, <2>2, <3>1, <3>2
  <2>4. /\ Left(holds', HoldOf(order.id)) = Left(holds, HoldOf(order.id)) - TakerPays(t)
        /\ Left(holds', HoldOf(t.maker)) = Left(holds, HoldOf(t.maker)) - MakerPays(t)
    <3>1. CASE order.side = "buy"
          BY <2>1, <3>1, FillCosts
    <3>2. CASE order.side = "sell"
          BY <2>1, <3>2, FillCosts
    <3> QED BY <1>4, <3>1, <3>2
  <2> QED BY <2>1, <2>3, <2>4 DEF Spent
<1>7. ASSUME ~Dearer(order, reference, fills)
      PROVE  status' \in {"applied", "duplicate"} \/ C!DecidedByRounding(f)
  <2>1. PICK a, b : a = OpenOf(live, t.maker) /\ b = Owed(Tail(fills)) + OpenOf(live, order.id)
        OBVIOUS
  <2>2. /\ Need(E!Opposite(order.side), t.price, a, TakerFeeBps) \in Nat
        /\ Left(holds, HoldOf(t.maker)) >=
                 MakerPays(t) + Need(E!Opposite(order.side), t.price, a, TakerFeeBps)
        BY <2>1, FirstDue
  <2>3. /\ Need(order.side, reference, b, TakerFeeBps) \in Nat
        /\ Left(holds, HoldOf(order.id)) >= TakerPays(t) + Need(order.side, reference, b, TakerFeeBps)
        BY <1>7, <2>1, FirstDue
  <2>4. \A h : Left(holds, h) \in Nat
        BY <1>1, LeftFacts
  <2>5. Left(holds, HoldOf(t.maker)) >= MakerPays(t)
    <3>1. Left(holds, HoldOf(t.maker)) \in Nat
          BY <2>4
    <3> QED BY <1>2, <2>2, <3>1
  <2>6. Left(holds, HoldOf(order.id)) >= TakerPays(t)
    <3>1. Left(holds, HoldOf(order.id)) \in Nat
          BY <2>4
    <3> QED BY <1>2, <2>3, <3>1
  <2>7. /\ HoldOf(order.id) \in DOMAIN holds =>
             /\ holds[HoldOf(order.id)].account = registry[order.id].user
             /\ holds[HoldOf(order.id)].asset = HoldAsset(order.side)
        /\ HoldOf(t.maker) \in DOMAIN holds =>
             /\ holds[HoldOf(t.maker)].account = registry[t.maker].user
             /\ holds[HoldOf(t.maker)].asset = HoldAsset(E!Opposite(order.side))
        BY <1>1, <1>2, <1>4 DEF TrackedOK
  <2>8. f.qty > 0
        BY <1>2, FillCosts DEF Trades
  <2>9. CASE order.side = "buy"
    <3>1. /\ f.buyerHold = HoldOf(order.id) /\ f.sellerHold = HoldOf(t.maker)
          /\ f.buyer = registry[order.id].user /\ f.seller = registry[t.maker].user
          /\ C!BuyerConsumes(f) = TakerPays(t) /\ f.qty = MakerPays(t)
          BY <2>9, FillCosts
    <3>2. HoldAsset(order.side) = "quote" /\ HoldAsset(E!Opposite(order.side)) = "base"
          BY <2>9 DEF HoldAsset, E!Opposite
    <3> QED BY <1>1, <1>2, <2>5, <2>6, <2>7, <2>8, <3>1, <3>2, SettleSucceeds
  <2>10. CASE order.side = "sell"
    <3>1. /\ f.buyerHold = HoldOf(t.maker) /\ f.sellerHold = HoldOf(order.id)
          /\ f.buyer = registry[t.maker].user /\ f.seller = registry[order.id].user
          /\ C!BuyerConsumes(f) = MakerPays(t) /\ f.qty = TakerPays(t)
          BY <2>10, FillCosts
    <3>2. HoldAsset(order.side) = "base" /\ HoldAsset(E!Opposite(order.side)) = "quote"
          BY <2>10 DEF HoldAsset, E!Opposite
    <3> QED BY <1>1, <1>2, <2>5, <2>6, <2>7, <2>8, <3>1, <3>2, SettleSucceeds
  <2> QED BY <1>4, <2>9, <2>10
<1> QED BY <1>3, <1>6, <1>7
\* What is left after a trade has been settled, now or before.
LEMMA AfterTrade ==
    ASSUME PInv, stage = "settle", fills # << >>, NEW t, t = fills[1],
           LedgerInv', holds' = holds \/ Spent(t)
    PROVE  /\ TrackedOK(holds', registry) /\ RestingOK(live, registry, holds')
           /\ DueOK(Tail(fills), live, registry, holds', order)
           /\ \/ Dearer(order, reference, Tail(fills))
              \/ TakerCovered(holds', order, reference, Owed(Tail(fills)) + OpenOf(live, order.id))
<1>1. /\ EP!IInv /\ LedgerInv /\ order \in Orders /\ ReferenceOK(order, reference)
      /\ TrackedOK(holds, registry) /\ RestingOK(live, registry, holds)
      /\ DueOK(fills, live, registry, holds, order)
      /\ order.id \in DOMAIN live => order.type = "limit" /\ live[order.id].price = order.price
      BY DEF PInv, FlowInv, StageOK, SettleOK, PricedOrders
<1>2. /\ 1 \in DOMAIN fills /\ t \in Trades /\ Tail(fills) \in Seq(Trades)
      /\ Owed(fills) = t.qty + Owed(Tail(fills))
      /\ \A i \in DOMAIN Tail(fills) : i + 1 \in DOMAIN fills /\ Tail(fills)[i] = fills[i + 1] /\ i + 1 # 1
      BY <1>1, OwedTail DEF DueOK
<1>3. PICK a, b : a = OpenOf(live, t.maker) /\ b = Owed(Tail(fills)) + OpenOf(live, order.id)
      OBVIOUS
<1>4. /\ t.maker # order.id /\ IsTracked(order, registry)
      /\ registry[t.maker].side = E!Opposite(order.side)
      /\ a \in Nat /\ b \in Nat /\ TakerPays(t) \in Nat \ {0} /\ MakerPays(t) \in Nat \ {0}
      /\ Need(E!Opposite(order.side), t.price, a, TakerFeeBps) \in Nat
      /\ Left(holds, HoldOf(t.maker)) >=
            MakerPays(t) + Need(E!Opposite(order.side), t.price, a, TakerFeeBps)
      /\ t.price \in Nat \ {0} /\ E!PriceAllows(order, t.price)
      /\ ~Dearer(order, reference, fills) =>
            /\ Need(order.side, reference, b, TakerFeeBps) \in Nat
            /\ Left(holds, HoldOf(order.id)) >=
                  TakerPays(t) + Need(order.side, reference, b, TakerFeeBps)
      BY <1>3, FirstDue
<1>5. \A h : Left(holds, h) \in Nat
      BY <1>1, LeftFacts
<1>6. /\ \A id : id \notin {order.id, t.maker} => Left(holds', HoldOf(id)) = Left(holds, HoldOf(id))
      /\ Left(holds', HoldOf(order.id)) \in {Left(holds, HoldOf(order.id)), Left(holds, HoldOf(order.id)) - TakerPays(t)}
      /\ Left(holds', HoldOf(t.maker)) \in {Left(holds, HoldOf(t.maker)), Left(holds, HoldOf(t.maker)) - MakerPays(t)}
      BY DEF Spent
<1>7. Left(holds', HoldOf(t.maker)) >= Need(E!Opposite(order.side), t.price, a, TakerFeeBps)
  <2>1. Left(holds, HoldOf(t.maker)) \in Nat
        BY <1>5
  <2> QED BY <1>4, <1>6, <2>1
<1>8. ASSUME ~Dearer(order, reference, fills)
      PROVE  Left(holds', HoldOf(order.id)) >= Need(order.side, reference, b, TakerFeeBps)
  <2>1. Left(holds, HoldOf(order.id)) \in Nat
        BY <1>5
  <2> QED BY <1>4, <1>6, <1>8, <2>1
<1>9. Dearer(order, reference, Tail(fills)) \/ TakerCovered(holds', order, reference, b)
  <2>1. CASE ~Dearer(order, reference, fills)
        BY <1>8, <2>1 DEF TakerCovered
  <2>2. CASE Dearer(order, reference, fills) /\ Tail(fills) # << >>
    <3>1. 1 \in DOMAIN Tail(fills)
          BY <1>2, <2>2
    <3>2. 1 + 1 \in DOMAIN fills /\ Tail(fills)[1] = fills[1 + 1]
          BY <1>2, <3>1
    <3>3. order.side = "buy" /\ t.price > reference /\ reference \in Nat
          BY <1>1, <2>2 DEF Dearer, ReferenceOK
    <3>4. t.price <= Tail(fills)[1].price
          BY <1>1, <1>2, <3>2, <3>3 DEF DueOK
    <3>5. PICK p, q, l : p = t.price /\ q = Tail(fills)[1].price /\ l = reference
          OBVIOUS
    <3>6. fills[1 + 1] \in Trades
          BY <1>1, <3>2 DEF DueOK
    <3>7. p \in Nat /\ q \in Nat /\ l \in Nat
          BY <1>4, <3>2, <3>3, <3>5, <3>6, EngineParts DEF Trades
    <3>8. l < p /\ p <= q
          BY <3>3, <3>4, <3>5
    <3>9. Tail(fills)[1].price > reference
      <4>1. q > l
            BY <3>7, <3>8
      <4> QED BY <3>5, <4>1
    <3> QED BY <2>2, <3>3, <3>9 DEF Dearer
  <2>3. CASE Dearer(order, reference, fills) /\ Tail(fills) = << >>
    <3>1. order.side = "buy" /\ t.price > reference /\ reference \in Nat
          BY <1>1, <2>3 DEF Dearer, ReferenceOK
    <3>2. order.id \notin DOMAIN live
      <4> SUFFICES ASSUME order.id \in DOMAIN live PROVE FALSE
          OBVIOUS
      <4>1. order.type = "limit" /\ reference = order.price
            BY <1>1 DEF ReferenceOK
      <4>2. t.price <= reference
            BY <1>4, <3>1, <4>1 DEF E!PriceAllows
      <4> QED BY <1>4, <3>1, <4>2
    <3>3. b = 0
      <4>1. Owed(Tail(fills)) = 0
            BY <2>3, OwedType
      <4>2. OpenOf(live, order.id) = 0
            BY <3>2 DEF OpenOf
      <4> QED BY <1>3, <4>1, <4>2
    <3>4. Need(order.side, reference, 0, TakerFeeBps) = 0
          BY <3>1, Fees, NoNeed
    <3>5. Left(holds', HoldOf(order.id)) \in Nat
      <4>1. \A h \in DOMAIN holds' :
                 holds'[h] \in [account : Users, asset : {"quote", "base"}, amount : Nat \ {0}]
            BY DEF LedgerInv, CP!HeldInv, CP!IInv, CP!LedgerOK, CP!HoldsOK, CP!HoldRecords, CP!Assets
      <4> QED BY <4>1 DEF Left
    <3>6. Left(holds', HoldOf(order.id)) >= 0
          BY <3>5
    <3> QED BY <3>3, <3>4, <3>6 DEF TakerCovered
  <2> QED BY <2>1, <2>2, <2>3
<1>10. TrackedOK(holds', registry)
  <2>1. /\ DOMAIN holds' \subseteq DOMAIN holds
        /\ \A h \in DOMAIN holds' : holds'[h].account = holds[h].account /\ holds'[h].asset = holds[h].asset
        BY DEF Spent
  <2> QED BY <1>1, <2>1 DEF TrackedOK
<1>11. DueOK(Tail(fills), live, registry, holds', order)
  <2>1. PICK due : due = Tail(fills)
        OBVIOUS
  <2>2. /\ due \in Seq(Trades)
        /\ \A i \in DOMAIN due : i + 1 \in DOMAIN fills /\ due[i] = fills[i + 1] /\ i + 1 # 1
        BY <1>2, <2>1
  <2>3. \A i \in DOMAIN due : i \in Nat
        BY <2>2
  <2>4. ASSUME NEW i \in DOMAIN due, NEW j \in DOMAIN due, due[i].maker = due[j].maker PROVE i = j
    <3>1. i + 1 = j + 1
          BY <1>1, <2>2, <2>4 DEF DueOK
    <3> QED BY <2>3, <3>1
  <2>5. ASSUME NEW i \in DOMAIN due PROVE Left(holds', HoldOf(due[i].maker)) = Left(holds, HoldOf(due[i].maker))
    <3>1. due[i].maker # order.id /\ due[i].maker # t.maker
          BY <1>1, <1>2, <2>2 DEF DueOK
    <3> QED BY <1>6, <3>1
  <2>6. ASSUME order.side = "buy", NEW i \in DOMAIN due, NEW j \in DOMAIN due, i <= j
        PROVE  due[i].price <= due[j].price
    <3>1. i + 1 <= j + 1
          BY <2>3, <2>6
    <3> QED BY <1>1, <2>2, <2>6, <3>1 DEF DueOK
  <2> QED BY <1>1, <2>1, <2>2, <2>4, <2>5, <2>6 DEF DueOK
<1>12. RestingOK(live, registry, holds')
  <2> SUFFICES ASSUME NEW id \in DOMAIN live
               PROVE  /\ id \in DOMAIN registry /\ registry[id].side = live[id].side
                      /\ Left(holds', HoldOf(id)) >= Need(live[id].side, live[id].price, live[id].open, TakerFeeBps)
      BY DEF RestingOK
  <2>1. /\ id \in DOMAIN registry /\ registry[id].side = live[id].side
        /\ Left(holds, HoldOf(id)) >= Need(live[id].side, live[id].price, live[id].open, TakerFeeBps)
        BY <1>1 DEF RestingOK
  <2>2. CASE id \notin {order.id, t.maker}
        BY <1>6, <2>1, <2>2
  <2>3. CASE id = t.maker
    <3>1. live[id].price = t.price /\ live[id].side = E!Opposite(order.side) /\ live[id].open = a
          BY <1>1, <1>2, <1>3, <1>4, <2>1, <2>3 DEF DueOK, OpenOf
    <3> QED BY <1>7, <2>1, <2>3, <3>1
  <2>4. CASE id = order.id
    <3>1. /\ live[id].price = reference /\ live[id].side = order.side /\ reference \in Nat
          /\ OpenOf(live, order.id) = live[id].open
          BY <1>1, <1>4, <2>1, <2>4 DEF IsTracked, OpenOf, ReferenceOK
    <3>2. PICK s, l, x, y : s = order.side /\ l = reference /\ x = Owed(Tail(fills)) /\ y = live[id].open
          OBVIOUS
    <3>3. l \in Nat /\ x \in Nat /\ y \in Nat /\ b = x + y
          BY <1>1, <1>2, <1>3, <3>1, <3>2, OwedType, LiveFacts
    <3>4. /\ Need(s, l, y, TakerFeeBps) \in Nat /\ Need(s, l, x + y, TakerFeeBps) \in Nat
          /\ Need(s, l, y, TakerFeeBps) <= Need(s, l, x + y, TakerFeeBps)
          BY <3>3, Fees, NeedGrows
    <3>5. Left(holds', HoldOf(id)) >= Need(s, l, x + y, TakerFeeBps)
      <4>1. ~Dearer(order, reference, fills)
        <5>1. order.type = "limit" /\ reference = order.price
              BY <1>1, <2>4 DEF ReferenceOK
        <5> QED BY <1>4, <3>1, <5>1 DEF E!PriceAllows, Dearer
      <4> QED BY <1>8, <2>4, <3>2, <3>3, <4>1
    <3>6. Left(holds', HoldOf(id)) \in Int
      <4>1. Left(holds, HoldOf(id)) \in Nat
            BY <1>5
      <4> QED BY <1>4, <1>6, <2>4, <4>1
    <3>7. Left(holds', HoldOf(id)) >= Need(s, l, y, TakerFeeBps)
          BY <3>4, <3>5, <3>6
    <3> QED BY <2>1, <3>1, <3>2, <3>7
  <2> QED BY <2>2, <2>3, <2>4
<1> QED BY <1>3, <1>9, <1>10, <1>11, <1>12

\* No trade of an order of which something rests is refused if rounding spares it.
LEMMA RestingIsSpared ==
    ASSUME PInv, stage = "settle", fills # << >>, NEW t, t = fills[1], NEW f, f = FillOf(t),
           RoundingSpares, order.id \in DOMAIN live
    PROVE  ~Dearer(order, reference, fills) /\ ~C!DecidedByRounding(f)
<1>1. PICK a, b : a = OpenOf(live, t.maker) /\ b = Owed(Tail(fills)) + OpenOf(live, order.id)
      OBVIOUS
<1>2. /\ EP!IInv /\ LedgerInv /\ order.type = "limit" /\ TrackedOK(holds, registry)
      /\ live[order.id].price = order.price /\ DueOK(fills, live, registry, holds, order)
      BY DEF PInv, FlowInv, SettleOK
<1>3. /\ order \in Orders /\ ReferenceOK(order, reference) /\ t \in Trades
      /\ t.price \in Nat \ {0} /\ E!PriceAllows(order, t.price)
      /\ IsTracked(order, registry) /\ t.maker \in DOMAIN registry
      /\ registry[t.maker].side = E!Opposite(order.side)
      /\ b \in Nat /\ TakerPays(t) \in Nat \ {0} /\ MakerPays(t) \in Nat \ {0}
      /\ Need(E!Opposite(order.side), t.price, t.qty, TakerFeeBps) \in Nat
      /\ Left(holds, HoldOf(t.maker)) >= Need(E!Opposite(order.side), t.price, t.qty, TakerFeeBps)
      /\ ~Dearer(order, reference, fills) =>
            /\ Need(order.side, reference, b, TakerFeeBps) \in Nat
            /\ Left(holds, HoldOf(order.id)) >=
                  TakerPays(t) + Need(order.side, reference, b, TakerFeeBps)
      BY <1>1, FirstDue
<1>4. reference = order.price /\ reference \in Nat \ {0} /\ live[order.id].open \in Nat \ {0}
  <2>1. live[order.id].price \in Nat \ {0} /\ live[order.id].open \in Nat \ {0}
        BY <1>2, LiveFacts, EngineAssumption
  <2> QED BY <1>2, <1>3, <2>1 DEF ReferenceOK
<1>5. ~Dearer(order, reference, fills)
      BY <1>2, <1>3, <1>4 DEF E!PriceAllows, Dearer
<1>6. b > 0
  <2>1. Owed(Tail(fills)) \in Nat
        BY <1>2, OwedTail, OwedType DEF DueOK
  <2>2. OpenOf(live, order.id) = live[order.id].open
        BY DEF OpenOf
  <2> QED BY <1>1, <1>4, <2>1, <2>2
<1>7. CASE Inexact = {}
      BY <1>5, <1>7 DEF C!DecidedByRounding, C!UsesUp
<1>8. CASE Inexact # {}
  <2>1. /\ "base" \notin Inexact
        /\ \A p \in Prices : \A q \in Nat \ {0} :
              C!FeeAmount(p * q, MakerFeeBps) < C!FeeAmount(p * q, TakerFeeBps)
        BY <1>8 DEF RoundingSpares
  <2>2. /\ order.side \in {"buy", "sell"} /\ order.id \in DOMAIN registry /\ registry[order.id].side = order.side
        BY <1>3, OrderFacts DEF IsTracked
  <2>3. \A h : Left(holds, h) \in Nat
        BY <1>2, LeftFacts
  <2>4. CASE order.side = "buy"
    <3>1. /\ f.buyerHold = HoldOf(order.id) /\ f.buyer = registry[order.id].user
          /\ C!BuyerConsumes(f) = TakerPays(t)
          BY <2>4, FillCosts
    <3>2. PICK s, l : s = order.side /\ l = reference
          OBVIOUS
    <3>3. l \in Nat \ {0} /\ l \in Nat /\ l <= l /\ TakerFeeBps <= TakerFeeBps /\ 0 \in Nat
          BY <1>4, <3>2, Fees
    <3>4. Need(s, l, b, TakerFeeBps) > 0
          BY <1>3, <1>6, <3>3, Fees, NeedFacts
    <3>5. Left(holds, HoldOf(order.id)) > TakerPays(t)
      <4>1. Left(holds, HoldOf(order.id)) \in Nat
            BY <2>3
      <4>2. Need(order.side, reference, b, TakerFeeBps) \in Nat \ {0}
            BY <1>3, <1>5, <3>2, <3>4
      <4> QED BY <1>3, <1>5, <4>1, <4>2
    <3>6. HoldOf(order.id) \in DOMAIN holds =>
             /\ holds[HoldOf(order.id)].account = registry[order.id].user
             /\ holds[HoldOf(order.id)].asset = "quote"
          BY <1>2, <2>2, <2>4 DEF TrackedOK, HoldAsset
    <3>7. ~C!DecidedByRounding(f)
          BY <1>2, <1>3, <2>1, <3>1, <3>5, <3>6, NotDecidedByRounding
    <3> QED BY <1>5, <3>7
  <2>5. CASE order.side = "sell"
    <3>1. /\ f.buyerHold = HoldOf(t.maker) /\ f.buyer = registry[t.maker].user
          /\ C!BuyerConsumes(f) = MakerPays(t)
          BY <2>5, FillCosts
    <3>2. PICK x : x = t.price * t.qty
          OBVIOUS
    <3>3. x \in Nat /\ C!FeeAmount(x, MakerFeeBps) < C!FeeAmount(x, TakerFeeBps)
      <4>1. t.price \in Prices /\ t.qty \in Nat \ {0}
            BY <1>3 DEF Trades
      <4> QED BY <1>3, <2>1, <3>2, <4>1
    <3>4. C!FeeAmount(x, MakerFeeBps) \in Nat /\ C!FeeAmount(x, TakerFeeBps) \in Nat
          BY <3>3, Fees, FeeFacts
    <3>5. /\ MakerPays(t) = x + C!FeeAmount(x, MakerFeeBps)
          /\ Need(E!Opposite(order.side), t.price, t.qty, TakerFeeBps) = x + C!FeeAmount(x, TakerFeeBps)
          BY <2>5, <3>2 DEF MakerPays, Need, Cost, E!Opposite
    <3>6. Left(holds, HoldOf(t.maker)) > MakerPays(t)
      <4>1. Left(holds, HoldOf(t.maker)) \in Nat
            BY <2>3
      <4> QED BY <1>3, <3>3, <3>4, <3>5, <4>1
    <3>7. HoldOf(t.maker) \in DOMAIN holds =>
             /\ holds[HoldOf(t.maker)].account = registry[t.maker].user
             /\ holds[HoldOf(t.maker)].asset = "quote"
          BY <1>2, <1>3, <2>5 DEF TrackedOK, HoldAsset, E!Opposite
    <3>8. ~C!DecidedByRounding(f)
          BY <1>2, <1>3, <2>1, <3>1, <3>6, <3>7, NotDecidedByRounding
    <3> QED BY <1>5, <3>8
  <2> QED BY <2>2, <2>4, <2>5
<1> QED BY <1>7, <1>8

\* settle_trades, one trade.
LEMMA SettleKeeps ==
    ASSUME PInv, SettleTrade
    PROVE  /\ PInv'
           /\ \/ stage' = stage
              \/ /\ outcome' = "settlement_rejected"
                 /\ Dearer(order, reference, fills) \/ C!DecidedByRounding(FillOf(fills[1]))
<1>1. /\ stage = "settle" /\ fills # << >>
      /\ UNCHANGED engineVars /\ live' = live /\ pc' = pc /\ registry' = registry
      /\ top' = top /\ riskResting' = riskResting
      BY DEF SettleTrade, engineVars
<1>2. PICK t, f : t = fills[1] /\ f = FillOf(t)
      OBVIOUS
<1>3. /\ EP!IInv /\ StageOK /\ ViewsOK /\ SettleOK /\ IsTracked(order, registry) /\ t.maker \in DOMAIN registry
      BY <1>1, <1>2, FirstDue DEF PInv, FlowInv
<1>4. SettleOwned(f)
      BY <1>2, <1>3 DEF SettleTrade, IsTracked
<1>5. C!SettleSpotTrade(f)
      BY <1>4 DEF SettleOwned
<1>6. /\ LedgerInv'
      /\ status' # "applied" => holds' = holds /\ accounts' = accounts
      /\ status' = "applied" => Spent(t)
      /\ \A x \in Users \ {f.buyer, f.seller} : accounts'[x] = accounts[x]
      /\ \/ status' \in {"applied", "duplicate"}
         \/ Dearer(order, reference, fills)
         \/ C!DecidedByRounding(f)
      BY <1>1, <1>2, <1>5, TradeSettles
<1>7. /\ TrackedOK(holds', registry) /\ RestingOK(live, registry, holds')
      /\ DueOK(Tail(fills), live, registry, holds', order)
      /\ \/ Dearer(order, reference, Tail(fills))
         \/ TakerCovered(holds', order, reference, Owed(Tail(fills)) + OpenOf(live, order.id))
      BY <1>1, <1>2, <1>6, AfterTrade
<1>8. /\ riskAccounts = [u \in Users |-> View(accounts[u])] /\ top \in [bid : Nat, ask : Nat] /\ top # NoTop
      /\ KnownOK(live, registry, riskResting, {order.id})
      /\ order.id \in DOMAIN live => order.type = "limit" /\ live[order.id].price = order.price
      BY <1>1, <1>3 DEF ViewsOK, Newcomer, SettleOK
<1>9. EP!IInv' /\ TrackedOK(holds', registry') /\ RestingOK(live', registry', holds')
      BY <1>1, <1>3, <1>7, EngineKeeps
<1>10. CASE status' \in {"applied", "duplicate"}
  <2>1. /\ riskAccounts' = SettledViews(f) /\ fills' = Tail(fills)
        /\ stage' = stage /\ order' = order /\ reference' = reference
        BY <1>4, <1>10 DEF SettleOwned
  <2>2. riskAccounts' = [u \in Users |-> View(accounts'[u])]
        BY <1>6, <1>8, <2>1, SyncedViews DEF SettledViews
  <2>3. ViewsOK'
    <3>1. Newcomer' = {order.id}
          BY <1>1, <2>1 DEF Newcomer
    <3> QED BY <1>1, <1>8, <2>2, <3>1 DEF ViewsOK
  <2>4. SettleOK'
        BY <1>1, <1>3, <1>7, <1>8, <2>1 DEF SettleOK
  <2>5. StageOK' /\ SubmitOK' /\ MatchingStageOK' /\ RejectedOK' /\ CompletionReleasesHolds'
        BY <1>1, <1>3, <2>1 DEF StageOK, SubmitOK, MatchingStageOK, RejectedOK, CompletionReleasesHolds
  <2> QED BY <1>6, <1>9, <2>1, <2>3, <2>4, <2>5 DEF PInv, FlowInv
<1>11. CASE status' \notin {"applied", "duplicate"}
  <2>1. Answer("settlement_rejected") /\ riskAccounts' = riskAccounts
        BY <1>4, <1>11 DEF SettleOwned
  <2>2. stage' = "idle" /\ outcome' = "settlement_rejected" /\ fills' = << >>
        BY <2>1 DEF Answer
  <2>3. /\ accounts' = accounts /\ holds' = holds
        /\ Dearer(order, reference, fills) \/ C!DecidedByRounding(f)
        BY <1>6, <1>11
  <2>4. RoundingSpares => order.id \notin DOMAIN live
        BY <1>1, <1>2, <2>3, RestingIsSpared
  <2>5. ViewsOK'
    <3>1. Newcomer' = {}
          BY <2>2 DEF Newcomer
    <3>2. KnownOK(live, registry, riskResting, {})
          BY <1>8, <2>4 DEF KnownOK
    <3> QED BY <1>1, <1>8, <2>1, <2>3, <3>1, <3>2 DEF ViewsOK
  <2>6. StageOK' /\ SubmitOK' /\ MatchingStageOK' /\ RejectedOK' /\ SettleOK' /\ CompletionReleasesHolds'
        BY <1>1, <1>3, <2>2 DEF StageOK, SubmitOK, MatchingStageOK, RejectedOK, SettleOK, CompletionReleasesHolds
  <2> QED BY <1>2, <1>6, <1>9, <2>2, <2>3, <2>5, <2>6 DEF PInv, FlowInv
<1> QED BY <1>10, <1>11
-----------------------------------------------------------------------------
(* The theorems.                                                             *)

\* How a submit that has its hold may end.
OutcomeStep ==
    stage # "idle" /\ stage' = "idle" =>
        /\ outcome' # "invariant_violation"
        /\ outcome' = "settlement_rejected" =>
              \/ order.side = "buy" /\ fills[1].price > reference
              \/ C!DecidedByRounding(FillOf(fills[1]))

\* Every step keeps the invariant, and answers as it may.
LEMMA NextPInv == PInv /\ [Next]_vars => PInv' /\ (Next => OutcomeStep)
<1> SUFFICES ASSUME PInv, [Next]_vars PROVE PInv' /\ (Next => OutcomeStep)
    OBVIOUS
<1>1. LedgerInv /\ StageOK
      BY DEF PInv, FlowInv, StageOK
<1>2. CASE UNCHANGED vars
  <2>1. /\ UNCHANGED engineVars /\ UNCHANGED clearingVars /\ UNCHANGED viewVars /\ UNCHANGED flowVars
        BY <1>2 DEF vars
  <2>2. EP!IInv' /\ LedgerInv'
        BY <2>1, <1>1, EngineKeeps, LedgerStands DEF PInv
  <2>3. StageOK' /\ SubmitOK' /\ MatchingStageOK' /\ RejectedOK' /\ SettleOK' /\ CompletionReleasesHolds' /\ ViewsOK'
        BY <2>1 DEF PInv, FlowInv, engineVars, clearingVars, viewVars, flowVars, StageOK, SubmitOK,
           MatchingStageOK, RejectedOK, SettleOK, CompletionReleasesHolds, ViewsOK, Newcomer
  <2>4. TrackedOK(holds', registry') /\ RestingOK(live', registry', holds')
        BY <2>1 DEF PInv, FlowInv, engineVars, clearingVars, flowVars
  <2>5. stage' = stage
        BY <2>1 DEF flowVars
  <2> QED BY <1>1, <2>2, <2>3, <2>4, <2>5 DEF PInv, FlowInv, OutcomeStep
<1>3. CASE TurnedAway
  <2>1. PICK answer \in {"route_rejected", "invariant_violation", "parse_rejected"} : Answer(answer)
        BY <1>3 DEF TurnedAway
  <2>2. /\ stage = "idle" /\ UNCHANGED engineVars /\ UNCHANGED clearingVars /\ UNCHANGED viewVars
        /\ UNCHANGED registry /\ UNCHANGED <<accounts, holds>>
        BY <1>3 DEF TurnedAway, clearingVars
  <2>3. LedgerInv'
        BY <1>1, <2>2, LedgerStands
  <2>4. PInv'
        BY <2>1, <2>2, <2>3, ReturnsEarly
  <2> QED BY <2>2, <2>4 DEF OutcomeStep
<1>4. ASSUME NEW r \in Orders, RiskRejects(r) PROVE PInv' /\ OutcomeStep
  <2>1. /\ stage = "idle" /\ UNCHANGED engineVars /\ UNCHANGED clearingVars /\ UNCHANGED viewVars
        /\ UNCHANGED registry /\ UNCHANGED <<accounts, holds>> /\ Answer("risk_rejected")
        BY <1>4 DEF RiskRejects, clearingVars
  <2>2. LedgerInv'
        BY <1>1, <2>1, LedgerStands
  <2>3. PInv'
        BY <2>1, <2>2, ReturnsEarly
  <2> QED BY <2>1, <2>3 DEF OutcomeStep
<1>5. ASSUME NEW r \in Orders, ReserveFails(r) PROVE PInv' /\ OutcomeStep
  <2>1. /\ stage = "idle" /\ UNCHANGED engineVars /\ UNCHANGED viewVars
        /\ UNCHANGED registry /\ Freeze(r) /\ status' # "applied" /\ Answer("clearing_rejected")
        BY <1>5 DEF ReserveFails
  <2>2. LedgerInv' /\ UNCHANGED <<accounts, holds>>
        BY <2>1, ReserveFreezes
  <2>3. PInv'
        BY <2>1, <2>2, ReturnsEarly
  <2> QED BY <2>1, <2>3 DEF OutcomeStep
<1>6. ASSUME NEW r \in Orders, Reserve(r) PROVE PInv' /\ OutcomeStep
  <2>1. PInv' /\ stage' = "submit"
        BY <1>6, ReserveKeeps DEF Reserve
  <2> QED BY <2>1 DEF OutcomeStep
<1>7. CASE SubmitToEngine
  <2>1. PInv' /\ stage' = "matching"
        BY <1>7, SubmitKeeps DEF SubmitToEngine
  <2> QED BY <2>1 DEF OutcomeStep
<1>8. CASE EngineSteps
  <2>1. /\ stage = "matching" /\ (E!Match \/ E!Finish \/ E!EmitEvent)
        /\ UNCHANGED clearingVars /\ UNCHANGED viewVars /\ UNCHANGED flowVars
        BY <1>8 DEF EngineSteps
  <2>2. Engine /\ stage' = "matching" /\ fills' = fills
        BY <1>1, <2>1, LedgerStands DEF Engine, clearingVars, viewVars, flowVars
  <2>3. PInv'
        BY <2>1, <2>2, MatchKeeps, FinishKeeps, EmitKeeps
  <2> QED BY <2>2, <2>3 DEF OutcomeStep
<1>9. CASE Matched
  <2>1. PInv' /\ stage' # "idle"
        BY <1>9, MatchedKeeps DEF Matched
  <2> QED BY <2>1 DEF OutcomeStep
<1>10. CASE ReleaseRejected
      BY <1>10, RejectedKeeps DEF OutcomeStep
<1>11. CASE SettleTrade
      BY <1>11, SettleKeeps DEF OutcomeStep, Dearer
<1>12. ASSUME NEW id \in OrderIds, ReleaseClosed(id) PROVE PInv' /\ OutcomeStep
      BY <1>12, ClosedKeeps DEF OutcomeStep
<1>13. CASE Complete
      BY <1>13, CompleteKeeps DEF OutcomeStep
<1> QED BY <1>2, <1>3, <1>4, <1>5, <1>6, <1>7, <1>8, <1>9, <1>10, <1>11, <1>12, <1>13 DEF Next

\* The invariant holds of every behaviour.
LEMMA PipelineInvariant == Spec => []PInv
<1>1. PInv /\ [Next]_vars => PInv'
      BY NextPInv
<1> QED BY InitPInv, <1>1, PTL DEF Spec

\* Every order in the book can be settled in full at any time: submit never lets
\* a resting order's hold fall below what its open quantity costs.
THEOREM OrdersStayBacked == Spec => []RestingOrdersBacked
<1>1. PInv => RestingOrdersBacked
  <2> SUFFICES ASSUME PInv, NEW id \in DOMAIN live
               PROVE  /\ id \in DOMAIN registry /\ HoldOf(id) \in DOMAIN holds
                      /\ holds[HoldOf(id)].account = registry[id].user
                      /\ holds[HoldOf(id)].asset = HoldAsset(live[id].side)
                      /\ holds[HoldOf(id)].amount >=
                            Need(live[id].side, live[id].price, live[id].open, MakerFeeBps)
      BY DEF RestingOrdersBacked, Need, Cost, Fee, HoldAsset
  <2>1. /\ id \in DOMAIN registry /\ registry[id].side = live[id].side
        /\ Left(holds, HoldOf(id)) >= Need(live[id].side, live[id].price, live[id].open, TakerFeeBps)
        BY DEF PInv, FlowInv, RestingOK
  <2>2. HoldOf(id) \in DOMAIN holds
        BY LiveHeld DEF PInv, FlowInv
  <2>3. PICK s, p, n : s = live[id].side /\ p = live[id].price /\ n = live[id].open
        OBVIOUS
  <2>4. p \in Nat /\ n \in Nat /\ 0 \in Nat /\ 0 + n = n
    <3>1. live[id] \in [side : E!Sides, price : Prices, open : Nat \ {0}]
          BY LiveFacts DEF PInv
    <3>2. p \in Prices /\ n \in Nat
          BY <2>3, <3>1
    <3>3. p \in Nat
          BY <3>2, EngineParts
    <3> QED BY <3>2, <3>3
  <2>5. /\ Need(s, p, n, MakerFeeBps) \in Nat /\ Need(s, p, 0 + n, TakerFeeBps) \in Nat
        /\ Need(s, p, n, MakerFeeBps) <= Need(s, p, 0 + n, TakerFeeBps)
        BY <2>4, Fees, NeedGrows
  <2>6. Left(holds, HoldOf(id)) \in Nat
        BY LeftFacts DEF PInv
  <2>7. Left(holds, HoldOf(id)) >= Need(s, p, n, MakerFeeBps)
        BY <2>1, <2>3, <2>4, <2>5, <2>6
  <2> QED BY <2>1, <2>2, <2>3, <2>7 DEF PInv, FlowInv, TrackedOK, Left
<1> QED BY <1>1, PipelineInvariant, PTL

\* With self-trade prevention on, no trade that settle_trades is given has one
\* user on both sides, though the risk engine decides on a copy of the book: for
\* any constants with which rounding refuses no trade of an order that rests.
THEOREM NobodyTradesWithThemselves == RoundingSpares => (Spec => []NoSelfTrade)
<1> SUFFICES ASSUME RoundingSpares PROVE Spec => []NoSelfTrade
    OBVIOUS
<1>1. PInv => NoSelfTrade
  <2> SUFFICES ASSUME PInv, stage = "settle", SelfTradePrevention, NEW i \in DOMAIN fills
               PROVE  registry[order.id].user # registry[fills[i].maker].user
      BY DEF NoSelfTrade
  <2>1. fills # << >>
        OBVIOUS
  <2>2. IsTracked(order, registry) /\ registry[fills[i].maker].user # order.user
        BY <2>1 DEF PInv, FlowInv, SettleOK, DueOK
  <2> QED BY <2>2 DEF IsTracked
<1> QED BY <1>1, PipelineInvariant, PTL

\* Whichever way submit returned, the risk engine's balances are those of the
\* clearing system and it knows every order in the book: for any constants with
\* which rounding refuses no trade of an order that rests.
THEOREM RiskDecidesOnFreshViews == RoundingSpares => (Spec => []RiskViewsFresh)
<1> SUFFICES ASSUME RoundingSpares PROVE Spec => []RiskViewsFresh
    OBVIOUS
<1>1. PInv => RiskViewsFresh
  <2> SUFFICES ASSUME PInv, stage = "idle" PROVE RiskViewsFresh
      BY DEF RiskViewsFresh
  <2>1. \A u \in Users : riskAccounts[u] = View(accounts[u])
        BY DEF PInv, FlowInv, ViewsOK
  <2>2. KnownOK(live, registry, riskResting, {})
        BY DEF PInv, FlowInv, ViewsOK, Newcomer
  <2> QED BY <2>1, <2>2 DEF RiskViewsFresh, KnownOK
<1> QED BY <1>1, PipelineInvariant, PTL

\* A submit that completes leaves a hold for the orders in the book and for no
\* other, and tracks no other order.
THEOREM HoldsAreReleased == Spec => []CompletionReleasesHolds
<1>1. PInv => CompletionReleasesHolds
      BY DEF PInv, FlowInv
<1> QED BY <1>1, PipelineInvariant, PTL

\* A submit that has its hold never answers invariant_violation, and clearing
\* refuses only a trade of a buy above the price its hold was taken at or one
\* that takes the last of what is frozen or held for it, where rounding decides.
THEOREM HoldsSuffice == Spec => HoldsSufficeForTrades
<1>1. PInv /\ [Next]_vars => PInv'
      BY NextPInv
<1>2. PInv /\ [Next]_vars => [OutcomeStep]_vars
      BY NextPInv
<1> QED BY InitPInv, <1>1, <1>2, PTL DEF Spec, HoldsSufficeForTrades, OutcomeStep

=============================================================================

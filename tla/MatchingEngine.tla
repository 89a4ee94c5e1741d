--------------------------- MODULE MatchingEngine ---------------------------
(* core-exchange/orderbook-matching-engine: OrderbookMatchingEngine, the     *)
(* price-time priority book of one symbol, with the DepthBook it maintains   *)
(* and the events it emits.                                                  *)
(*                                                                           *)
(* submit and cancel run on the engine's thread; poll_event runs on the      *)
(* thread that consumes event_queue_, at any point of a call.  A call is     *)
(* therefore split where it emits: a step changes the book and lists the     *)
(* events it emits in `pending`, and they are emitted one by one before the  *)
(* call goes on.  event_queue_ is the bounded queue of module BoundedFifo.   *)
(* Prices and quantities are integers: the tolerance of 1e-9 with which the  *)
(* code compares doubles is exact equality here.                             *)
EXTENDS Naturals, Sequences, FiniteSets, FiniteSetsExt, SequencesExt, Maps

CONSTANTS
    OrderIds,       \* client order ids
    NoId,           \* the empty order id
    Prices,         \* limit prices
    Quantities,     \* requested quantities, 0 for a request that is not valid
    EventCapacity   \* capacity of event_queue_

ASSUME IdsAssumption == NoId \notin OrderIds
ASSUME PricesAssumption == Prices \subseteq Nat \ {0}
ASSUME QuantitiesAssumption == Quantities \subseteq Nat
ASSUME EventCapacityAssumption == EventCapacity \in Nat \ {0, 1}

Sides == {"buy", "sell"}
Tifs == {"gtc", "ioc", "fok", "gtx"}
Statuses == {"accepted", "partially_filled", "filled", "cancelled", "rejected"}
Reasons == {"none", "duplicate_order_id", "would_cross_post_only",
            "insufficient_liquidity", "market_order_would_rest", "order_not_found"}

\* OrderRequest; a market order's price is ignored and left at its default.
Requests ==
    [id : OrderIds \cup {NoId}, side : Sides, type : {"limit"}, tif : Tifs,
     price : Prices, qty : Quantities]
    \cup
    [id : OrderIds \cup {NoId}, side : Sides, type : {"market"}, tif : Tifs,
     price : {0}, qty : Quantities]

VARIABLES
    live,       \* live_orders_ and the pooled RestingOrder each id points at
    book,       \* bids_ and asks_: the queue of order ids of every price level
    depth,      \* depth_book_: published quantity of every level, 0 if absent
    events,     \* event_queue_: topics of the events not polled yet
    pc,         \* where the engine's thread is
    call,       \* the request being executed
    remaining,  \* its remaining_quantity
    trades,     \* result.trades so far
    result,     \* the MatchResult about to be returned
    pending,    \* events to emit before the call goes on
    published,  \* what this call gave the broadcaster, in order
    arrival     \* (history) the live orders in the order they came to rest

bookVars == <<live, book, depth, arrival>>
callVars == <<pc, call, remaining, trades, result>>
vars == <<bookVars, callVars, events, pending, published>>

-----------------------------------------------------------------------------
Idle == [kind |-> "none"]

Init ==
    /\ live = EmptyMap
    /\ book = [s \in Sides |-> [p \in Prices |-> << >>]]
    /\ depth = [s \in Sides |-> [p \in Prices |-> 0]]
    /\ events = << >>
    /\ pc = "idle" /\ call = Idle /\ remaining = 0 /\ trades = << >> /\ result = Idle
    /\ pending = << >>
    /\ published = << >>
    /\ arrival = << >>

-----------------------------------------------------------------------------
(* The book.                                                                 *)

Opposite(s) == IF s = "buy" THEN "sell" ELSE "buy"

Levels(s) == {p \in Prices : book[s][p] # << >>}

\* Bids sorted upwards like the asks.
BestPriceUnsorted(s) == IF Levels(s) = {} THEN 0 ELSE Min(Levels(s))

\* bids_.begin() and asks_.begin(): the bids are sorted downwards.
BestPrice(s) == IF s = "sell" THEN Min(Levels(s)) ELSE Max(Levels(s))

\* May a taker trade at price p?  Market orders at any.
PriceAllows(r, p) ==
    \/ r.type = "market"
    \/ r.side = "buy" /\ p <= r.price
    \/ r.side = "sell" /\ p >= r.price

Open(orders, q) == SumFunctionOnSet([id \in ToSet(q) |-> orders[id].open], ToSet(q))

\* What rests on side s at the given prices.
Resting(s, prices) == SumFunctionOnSet([p \in prices |-> Open(live, book[s][p])], prices)

\* can_fill_fully without the break at the limit price.
CanFillIgnoringPrice(r) ==
    Resting(Opposite(r.side), Levels(Opposite(r.side))) >= r.qty

Reachable(r) == {p \in Levels(Opposite(r.side)) : PriceAllows(r, p)}

\* can_fill_fully: what rests at prices the taker accepts covers its quantity.
CanFillFully(r) == Resting(Opposite(r.side), Reachable(r)) >= r.qty

\* DepthBook::update: the level's quantity is set, and erased if it is 0.
DepthUpdate(s, p, quantity) == [depth EXCEPT ![s][p] = quantity]

WouldCross(r) ==
    LET s == Opposite(r.side)
    IN  Levels(s) # {} /\ PriceAllows(r, BestPrice(s))

-----------------------------------------------------------------------------
(* Events, results.                                                          *)

OrderEvent(id, status, reason, open) ==
    [topic |-> "orders", id |-> id, status |-> status, reason |-> reason, open |-> open]

TradeEvent(t) == [topic |-> "trades", maker |-> t.maker, price |-> t.price, qty |-> t.qty]

\* The payload is the number of levels of a snapshot of depth 5.
DepthEvent(d) ==
    LET count(s) == Min({5, Cardinality({p \in Prices : d[s][p] > 0})})
    IN  [topic |-> "depth", bids |-> count("buy"), asks |-> count("sell")]

Result(accepted, status, reason, executed, left) ==
    [kind |-> "result", accepted |-> accepted, status |-> status, reason |-> reason,
     executed |-> executed, remaining |-> left]

Rejected(reason, left) == Result(FALSE, "rejected", reason, 0, left)

Answer(r, res) ==
    /\ pc' = "return"
    /\ call' = r
    /\ result' = res

-----------------------------------------------------------------------------
(* submit                                                                    *)

\* An empty id or no quantity is refused without an event.
SubmitInvalid(r) ==
    /\ pc = "idle"
    /\ r.id = NoId \/ r.qty = 0
    /\ Answer(r, Rejected("insufficient_liquidity", r.qty))
    /\ UNCHANGED <<bookVars, remaining, trades, events, pending, published>>

Refusal(r) ==
    CASE r.id \in DOMAIN live -> "duplicate_order_id"
      [] r.id \notin DOMAIN live /\ r.type = "limit" /\ r.tif = "gtx" /\ WouldCross(r) ->
            "would_cross_post_only"
      [] r.id \notin DOMAIN live /\ r.tif = "fok" /\ ~CanFillFully(r) ->
            "insufficient_liquidity"
      [] OTHER -> "none"

\* A live order's id, a post-only order that would trade, a fill-or-kill order
\* that cannot be filled: refused with an event, before the book is touched.
SubmitRefused(r) ==
    /\ pc = "idle"
    /\ r.id # NoId /\ r.qty > 0
    /\ Refusal(r) # "none"
    /\ Answer(r, Rejected(Refusal(r), r.qty))
    /\ pending' = <<OrderEvent(r.id, "rejected", Refusal(r), r.qty)>>
    /\ UNCHANGED <<bookVars, remaining, trades, events, published>>

SubmitAccepted(r) ==
    /\ pc = "idle"
    /\ r.id # NoId /\ r.qty > 0
    /\ Refusal(r) = "none"
    /\ pc' = "match"
    /\ call' = r
    /\ remaining' = r.qty
    /\ UNCHANGED <<bookVars, trades, result, events, pending, published>>

-----------------------------------------------------------------------------
(* Removing and adding resting orders.                                       *)

\* The front of the level is taken for the order.
RemoveRestingFront(id) ==
    LET o == live[id]
        queue == Tail(book[o.side][o.price])
    IN  /\ book' = [book EXCEPT ![o.side][o.price] = queue]
        /\ live' = Without(live, id)
        /\ depth' = DepthUpdate(o.side, o.price, Open(live, queue))
        /\ arrival' = RemoveFirst(arrival, id)

\* remove_resting_order: out of its queue and of live_orders_, back into the
\* pool; the level's depth is recomputed.
RemoveResting(id) ==
    LET o == live[id]
        queue == RemoveFirst(book[o.side][o.price], id)
    IN  /\ book' = [book EXCEPT ![o.side][o.price] = queue]
        /\ live' = Without(live, id)
        /\ depth' = DepthUpdate(o.side, o.price, Open(live, queue))
        /\ arrival' = RemoveFirst(arrival, id)

\* The newcomer ahead of the orders that already wait.
AddRestingInFront(r, left) ==
    /\ live' = With(live, r.id, [side |-> r.side, price |-> r.price, open |-> left])
    /\ book' = [book EXCEPT ![r.side][r.price] = <<r.id>> \o @]
    /\ depth' = DepthUpdate(r.side, r.price, left)
    /\ arrival' = Append(arrival, r.id)

\* add_resting_order: last of its level; depth_book_ is given the newcomer's
\* quantity alone.
AddResting(r, left) ==
    /\ live' = With(live, r.id, [side |-> r.side, price |-> r.price, open |-> left])
    /\ book' = [book EXCEPT ![r.side][r.price] = Append(@, r.id)]
    /\ depth' = DepthUpdate(r.side, r.price, left)
    /\ arrival' = Append(arrival, r.id)

-----------------------------------------------------------------------------
(* match_against_asks and match_against_bids, each the mirror image of the   *)
(* other: one fill a step.                                                   *)

CanMatch ==
    LET s == Opposite(call.side)
    IN  /\ remaining > 0
        /\ Levels(s) # {}
        /\ PriceAllows(call, BestPrice(s))

Maker == Head(book[Opposite(call.side)][BestPrice(Opposite(call.side))])

Fill == Min({remaining, live[Maker].open})

\* The trade and what is left of the request.
Execute ==
    /\ remaining' = remaining - Fill
    /\ trades' = Append(trades, [maker |-> Maker, price |-> live[Maker].price, qty |-> Fill])

FillMaker ==
    /\ pc = "match" /\ pending = << >>
    /\ CanMatch
    /\ Fill = live[Maker].open
    /\ Execute
    /\ RemoveResting(Maker)
    /\ pending' = <<TradeEvent(trades'[Len(trades')]),
                    OrderEvent(Maker, "filled", "none", 0), DepthEvent(depth')>>
    /\ UNCHANGED <<pc, call, result, events, published>>

\* The maker's event carries the quantity open before the fill.
FillPartlyMisreported ==
    /\ pc = "match" /\ pending = << >>
    /\ CanMatch
    /\ Fill < live[Maker].open
    /\ Execute
    /\ LET o == live[Maker]
       IN  /\ live' = [live EXCEPT ![Maker].open = @ - Fill]
           /\ depth' = DepthUpdate(o.side, o.price, Open(live', book[o.side][o.price]))
           /\ pending' = <<TradeEvent(trades'[Len(trades')]),
                           OrderEvent(Maker, "partially_filled", "none", o.open),
                           DepthEvent(depth')>>
    /\ UNCHANGED <<pc, call, result, events, published, book, arrival>>

\* The partly filled maker keeps its place and its open quantity shrinks.
FillPartly ==
    /\ pc = "match" /\ pending = << >>
    /\ CanMatch
    /\ Fill < live[Maker].open
    /\ Execute
    /\ LET o == live[Maker]
       IN  /\ live' = [live EXCEPT ![Maker].open = @ - Fill]
           /\ depth' = DepthUpdate(o.side, o.price, Open(live', book[o.side][o.price]))
           /\ pending' = <<TradeEvent(trades'[Len(trades')]),
                           OrderEvent(Maker, "partially_filled", "none", o.open - Fill),
                           DepthEvent(depth')>>
    /\ UNCHANGED <<pc, call, result, events, published, book, arrival>>

-----------------------------------------------------------------------------
(* finalize_limit_result and finalize_market_result                          *)

Finishing == pc = "match" /\ pending = << >> /\ ~CanMatch

Executed == call.qty - remaining

FinishFilled ==
    /\ Finishing
    /\ remaining = 0
    /\ Answer(call, Result(TRUE, "filled", "none", Executed, 0))
    /\ pending' = <<OrderEvent(call.id, "filled", "none", 0)>>
    /\ UNCHANGED <<bookVars, remaining, trades, events, published>>

\* The rest of an IOC order, and of a market order that traded, is dropped.
FinishDropped ==
    /\ Finishing
    /\ remaining > 0
    /\ call.tif = "ioc" \/ (call.type = "market" /\ Executed > 0)
    /\ LET status == IF Executed > 0 THEN "partially_filled" ELSE "cancelled"
       IN  /\ Answer(call, Result(TRUE, status, "none", Executed, remaining))
           /\ pending' = <<OrderEvent(call.id, status, "none", remaining)>>
    /\ UNCHANGED <<bookVars, remaining, trades, events, published>>

\* A market order that is not IOC and found nobody to trade with.
FinishMarketRejected ==
    /\ Finishing
    /\ remaining > 0
    /\ call.type = "market" /\ call.tif # "ioc" /\ Executed = 0
    /\ Answer(call, Result(FALSE, "rejected", "market_order_would_rest", 0, remaining))
    /\ pending' = <<OrderEvent(call.id, "rejected", "market_order_would_rest", remaining)>>
    /\ UNCHANGED <<bookVars, remaining, trades, events, published>>

\* What is left of any other limit order rests.
FinishResting ==
    /\ Finishing
    /\ remaining > 0
    /\ call.type = "limit" /\ call.tif # "ioc"
    /\ AddResting(call, remaining)
    /\ LET status == IF Executed > 0 THEN "partially_filled" ELSE "accepted"
       IN  /\ Answer(call, Result(TRUE, status, "none", Executed, remaining))
           /\ pending' = <<DepthEvent(depth'), OrderEvent(call.id, status, "none", remaining)>>
    /\ UNCHANGED <<remaining, trades, events, published>>

-----------------------------------------------------------------------------
(* cancel, and what every call and the event consumer do.                    *)

CancelRequest(id) == [kind |-> "cancel", id |-> id]

CancelUnknown(id) ==
    /\ pc = "idle"
    /\ id \notin DOMAIN live
    /\ Answer(CancelRequest(id), Rejected("order_not_found", 0))
    /\ UNCHANGED <<bookVars, remaining, trades, events, pending, published>>

CancelLive(id) ==
    /\ pc = "idle"
    /\ id \in DOMAIN live
    /\ RemoveResting(id)
    /\ Answer(CancelRequest(id), Result(TRUE, "cancelled", "none", 0, live[id].open))
    /\ pending' = <<DepthEvent(depth'), OrderEvent(id, "cancelled", "none", 0)>>
    /\ UNCHANGED <<remaining, trades, events, published>>

\* Publish to the broadcaster and push to event_queue_, whose refusal of an
\* event when it is full is not looked at.
EmitEvent ==
    /\ pending # << >>
    /\ published' = Append(published, Head(pending))
    /\ events' = IF Len(events) < EventCapacity
                   THEN Append(events, Head(pending).topic) ELSE events
    /\ pending' = Tail(pending)
    /\ UNCHANGED <<bookVars, callVars>>

Return ==
    /\ pc = "return" /\ pending = << >>
    /\ pc' = "idle" /\ call' = Idle /\ remaining' = 0 /\ trades' = << >>
    /\ result' = Idle /\ published' = << >>
    /\ UNCHANGED <<bookVars, events, pending>>

PollEvent ==
    /\ events # << >>
    /\ events' = Tail(events)
    /\ UNCHANGED <<bookVars, callVars, pending, published>>

Submit(r) == SubmitInvalid(r) \/ SubmitRefused(r) \/ SubmitAccepted(r)
Cancel(id) == CancelUnknown(id) \/ CancelLive(id)
Match == FillMaker \/ FillPartly
Finish == FinishFilled \/ FinishDropped \/ FinishMarketRejected \/ FinishResting

Next ==
    \/ \E r \in Requests : Submit(r)
    \/ \E id \in OrderIds : Cancel(id)
    \/ Match
    \/ Finish
    \/ EmitEvent
    \/ Return
    \/ PollEvent

Spec == Init /\ [][Next]_vars

-----------------------------------------------------------------------------
(* Properties.                                                               *)

\* The depth snapshot has exactly the levels of the book, and never shows more
\* quantity at a level than can be traded there.
DepthWithinBook ==
    \A s \in Sides : \A p \in Prices :
        /\ depth[s][p] > 0 <=> p \in Levels(s)
        /\ depth[s][p] <= Open(live, book[s][p])

\* The three copies of the book agree, at every point of a call: an order in a queue
\* is in live_orders_ with that side and price and something left to trade, and
\* a live order is in its queue, once.  No dangling RestingOrder* is ever kept
\* in a level, none is lost from the book while its id stays taken, and the
\* depth has the same levels.
BookMatchesLive ==
    /\ \A s \in Sides : \A p \in Prices : \A i \in DOMAIN book[s][p] :
          LET id == book[s][p][i]
          IN  /\ id \in DOMAIN live
              /\ live[id].side = s /\ live[id].price = p /\ live[id].open > 0
              /\ \A j \in DOMAIN book[s][p] : book[s][p][j] = id => i = j
    /\ \A id \in DOMAIN live : \E i \in DOMAIN book[live[id].side][live[id].price] :
          book[live[id].side][live[id].price][i] = id
    /\ DepthWithinBook

\* The best bid stays below the best ask: no order is left resting against one
\* it should have traded with, whatever mix of order types came before.
BookUncrossed == \A b \in Levels("buy") : \A a \in Levels("sell") : b < a

\* The step gives its fill, if it has one, to the order of the opposite side
\* with the best price that came to rest first.
FillInPriority ==
    trades' # trades /\ trades' # << >> =>
        LET maker == trades'[Len(trades')].maker
            rank(id) == CHOOSE i \in DOMAIN arrival : arrival[i] = id
            better(p, q) == IF live[maker].side = "sell" THEN p < q ELSE p > q
        IN  \A id \in DOMAIN live \ {maker} : live[id].side = live[maker].side =>
               /\ ~better(live[id].price, live[maker].price)
               /\ live[id].price = live[maker].price => rank(maker) < rank(id)

\* Every fill goes to the resting order with the best price and, among those,
\* to the one that came to rest first (README: "Price-time priority matching");
\* a partial fill does not cost an order its place.
PriceTimePriority == [][FillInPriority]_vars

\* What each time in force promises about the finished call: fill-or-kill all
\* or nothing, post-only never takes, IOC and market orders never rest, a
\* refused order leaves no trace in the trades.
TimeInForceHonoured ==
    pc = "return" /\ call \in Requests =>
        /\ call.tif = "fok" /\ result.accepted => result.executed = call.qty
        /\ call.tif = "gtx" /\ call.type = "limit" => trades = << >>
        /\ result.accepted /\ (call.tif \in {"ioc", "fok"} \/ call.type = "market")
              => call.id \notin DOMAIN live
        /\ ~result.accepted => trades = << >>

\* When a submit returns, what it published is a true account of it: the trade
\* messages add up to the executed quantity, the last message is the taker's
\* with its final state, and the last message about each maker tells what is
\* left of it in the book.
ReportMatchesOutcome ==
    pc = "return" /\ pending = << >> /\ trades # << >> =>
        LET at(topic) == {i \in DOMAIN published : published[i].topic = topic}
            about(id) == {i \in at("orders") : published[i].id = id}
            last == published[Len(published)]
        IN  /\ SumFunction([i \in at("trades") |-> published[i].qty]) = result.executed
            /\ result.executed + result.remaining = call.qty
            /\ last = OrderEvent(call.id, result.status, "none", result.remaining)
            /\ \A i \in at("trades") :
                  LET m == published[i].maker
                      k == Max(about(m))
                      open == IF m \in DOMAIN live THEN live[m].open ELSE 0
                  IN  i < k /\ published[k].open = open

\* The quantity a snapshot shows for a level is what rests at that level, as
\* the engine's tests of snapshot() and the recomputation in
\* remove_resting_order expect.
DepthShowsOpenQuantity ==
    \A s \in Sides : \A p \in Prices : depth[s][p] = Open(live, book[s][p])

=============================================================================

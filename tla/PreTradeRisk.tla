---------------------------- MODULE PreTradeRisk ----------------------------
(* core-exchange/pre-trade-risk-engine: the rules of PreTradeRiskEngine, as  *)
(* operators over the views it keeps (top of book, spendable balances, the   *)
(* resting orders it was told of); `limited` says whether the request window *)
(* is full.  A request of quantity 0 stands for every request                *)
(* validate_request_shape or validate_market_presence refuses.               *)
EXTENDS Integers

CONSTANTS
    MaxOrderQuantity, MaxOrderNotional,
    BandNum, BandDen,       \* max_price_deviation_ratio
    SelfTradePrevention     \* enable_self_trade_prevention

ASSUME LimitsAssumption ==
    /\ MaxOrderQuantity \in Nat \ {0} /\ MaxOrderNotional \in Nat \ {0}
    /\ BandNum \in Nat /\ BandDen \in Nat \ {0}
    /\ SelfTradePrevention \in BOOLEAN

Distance(x, y) == IF x >= y THEN x - y ELSE y - x

\* A market without prices.  update_top_of_book sets bid and ask together.
NoTop == [bid |-> 0, ask |-> 0]

\* reference_price, twice: the mean of bid and ask, without them the price of
\* a limit order.
TwiceReference(top, r) ==
    IF top # NoTop THEN top.bid + top.ask
    ELSE IF r.type = "limit" THEN 2 * r.price ELSE 0

\* would_self_trade, with a limit order at the price of the resting one let
\* through.
WouldSelfTradeStrict(r, resting) ==
    \E o \in resting :
        /\ o.user = r.user /\ o.side # r.side /\ o.qty > 0
        /\ \/ r.type = "market"
           \/ r.side = "buy" /\ r.price > o.price
           \/ r.side = "sell" /\ r.price < o.price

WouldSelfTrade(r, resting) ==
    \E o \in resting :
        /\ o.user = r.user /\ o.side # r.side /\ o.qty > 0
        /\ \/ r.type = "market"
           \/ r.side = "buy" /\ r.price >= o.price
           \/ r.side = "sell" /\ r.price <= o.price

\* evaluate: the first rule that fails gives the reason.
Verdict(r, top, account, resting, limited) ==
    LET ref2 == TwiceReference(top, r)
    IN  IF r.qty = 0 THEN "invalid_request"
        ELSE IF r.qty > MaxOrderQuantity THEN "quantity_limit_exceeded"
        ELSE IF ref2 * r.qty > 2 * MaxOrderNotional THEN "notional_limit_exceeded"
        ELSE IF r.type = "limit" /\ ref2 > 0 /\ Distance(2 * r.price, ref2) * BandDen > BandNum * ref2
          THEN "price_band_exceeded"
        ELSE IF r.side = "buy" /\ 2 * account.quote < ref2 * r.qty THEN "insufficient_balance"
        ELSE IF r.side = "sell" /\ account.base < r.qty THEN "insufficient_position"
        ELSE IF limited THEN "rate_limited"
        ELSE IF SelfTradePrevention /\ WouldSelfTrade(r, resting) THEN "self_trade_prevented"
        ELSE "none"

=============================================================================

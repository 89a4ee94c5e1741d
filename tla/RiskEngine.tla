----------------------------- MODULE RiskEngine -----------------------------
(* core-exchange/pre-trade-risk-engine: PreTradeRiskEngine with the state it *)
(* keeps between requests, for one market: the views its rules read, the     *)
(* request windows of user and ip, and the audit log.  All calls are made by *)
(* one thread.  The audit queue is emptied into the log before every call    *)
(* returns, so only the log is kept.                                         *)
EXTENDS PreTradeRisk, RequestWindow, Maps

CONSTANTS
    RiskLimits,     \* max_requests_per_window, rate_limit_window_ms
    RiskTops, RiskStates, RiskOrders,   \* what the views are set to
    OpeningStates   \* accounts_ before traffic

ASSUME RiskAssumption == \A limit \in RiskLimits : limit.max \in Nat /\ limit.window \in Int

VARIABLES
    riskLimit,      \* of the market's config
    riskTop,        \* best_bid, best_ask
    riskAccounts,   \* accounts_
    riskResting,    \* resting_orders_
    riskWindows,    \* request_windows_: user and ip -> timestamps
    auditLog        \* audit_history_, with the limit in force

riskVars == <<riskLimit, riskTop, riskAccounts, riskResting, riskWindows, auditLog>>

\* A configured market with prices and accounts.
RiskInit ==
    /\ riskLimit \in RiskLimits
    /\ riskTop \in RiskTops
    /\ riskAccounts = OpeningStates
    /\ riskResting = {}
    /\ riskWindows = EmptyMap
    /\ auditLog = << >>

\* configure_market makes a new MarketState, without prices.  The windows and
\* the other views stay.
ConfigureMarket(limit) ==
    /\ riskLimit' = limit
    /\ riskTop' = NoTop
    /\ UNCHANGED <<riskAccounts, riskResting, riskWindows, auditLog>>

UpdateTopOfBook(top) ==
    /\ riskTop' = top
    /\ UNCHANGED <<riskLimit, riskAccounts, riskResting, riskWindows, auditLog>>

SetAccountState(user, state) ==
    /\ riskAccounts' = With(riskAccounts, user, state)
    /\ UNCHANGED <<riskLimit, riskTop, riskResting, riskWindows, auditLog>>

TrackRestingOrder(order) ==
    /\ riskResting' = riskResting \cup {order}
    /\ UNCHANGED <<riskLimit, riskTop, riskAccounts, riskWindows, auditLog>>

ClearUserRestingOrders(user) ==
    /\ riskResting' = {o \in riskResting : o.user # user}
    /\ UNCHANGED <<riskLimit, riskTop, riskAccounts, riskWindows, auditLog>>

AccountOf(user) ==
    IF user \in DOMAIN riskAccounts THEN riskAccounts[user] ELSE [quote |-> 0, base |-> 0]

WindowOf(key) == IF key \in DOMAIN riskWindows THEN riskWindows[key] ELSE << >>

\* make_decision, with the limit in force.
Decision(id, key, time, reason) ==
    [id |-> id, key |-> key, time |-> time, reason |-> reason, limit |-> riskLimit]

\* finalize_decision: the decision goes through the audit queue into the log.
FinalizeDecision(decision) == auditLog' = Append(auditLog, decision)

\* evaluate.  A refused request takes its place in the window like an accepted
\* one, unless it is malformed.
Evaluate(id, time, order) ==
    LET key == <<order.user, order.ip>>
        window == Trim(WindowOf(key), time, riskLimit.window)
        reason == Verdict(order, riskTop, AccountOf(order.user), riskResting,
                          Len(window) >= riskLimit.max)
    IN  /\ riskWindows' = IF reason = "invalid_request" THEN riskWindows
                          ELSE With(riskWindows, key, Append(window, time))
        /\ FinalizeDecision(Decision(id, key, time, reason))
        /\ UNCHANGED <<riskLimit, riskTop, riskAccounts, riskResting>>

\* The requests of one user and ip as their window saw them.
Judged(key) ==
    LET entries == Filter(auditLog, LAMBDA e : e.key = key /\ e.reason # "invalid_request")
    IN  [k \in DOMAIN entries |->
            [time |-> entries[k].time, limit |-> entries[k].limit, counted |-> TRUE,
             passed |-> entries[k].reason = "none", held |-> entries[k].reason = "rate_limited"]]

=============================================================================

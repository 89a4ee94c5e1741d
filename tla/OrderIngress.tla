---------------------------- MODULE OrderIngress ----------------------------
(* The way of an order from the gateway to the risk engine, as the exchange  *)
(* pipeline joins them, with the two sides of the gateway's queue on threads *)
(* of their own: the routing thread, the backend thread that polls and       *)
(* evaluates and owns the risk engine, and a reader that follows the route   *)
(* events by replaying what came after the last one it has.                  *)
EXTENDS AccessGateway, RiskEngine

CONSTANTS
    Requests,       \* what clients send: user, key, secret, path, payload, time
    MaxCalls        \* bound: calls that reach the rate limit or change the setup

ASSUME RequestsAssumption == \A q \in Requests : q.time \in Int

VARIABLES
    seen,           \* route events the reader has
    calls           \* calls so far, up to MaxCalls

vars == <<gatewayVars, broadcastVars, riskVars, seen, calls>>

Init ==
    /\ GatewayInit
    /\ BroadcastInit
    /\ RiskInit
    /\ seen = << >>
    /\ calls = 0

Counted == calls < MaxCalls /\ calls' = calls + 1

\* The call numbers the request.
Sent(q) ==
    LET id == calls + 1
    IN  [id |-> id, user |-> q.user, key |-> q.key, signature |-> Signature(q.key, q.secret, id),
         path |-> q.path, payload |-> q.payload, time |-> q.time]

RouteCall ==
    \E r \in {Sent(q) : q \in Requests} :
        \/ RouteRefused(r) /\ UNCHANGED <<broadcastVars, calls>>
        \/ RouteLimited(r) /\ Counted /\ UNCHANGED broadcastVars
        \/ RouteQueueFull(r) /\ Counted /\ UNCHANGED broadcastVars
        \/ RoutePush(r) /\ Counted /\ UNCHANGED broadcastVars

ConfigureGateway ==
    /\ \/ \E c \in Credentials : RegisterCredential(c)
       \/ \E c \in RouteConfigs : ConfigureRoute(c)
       \/ \E user \in {c.user : c \in Credentials}, limit \in UserLimits : SetUserRateLimit(user, limit)
       \/ \E b \in Backends, healthy \in BOOLEAN : SetBackendHealth(b, healthy)
    /\ Counted
    /\ UNCHANGED broadcastVars

SessionCall ==
    /\ \/ \E s \in SessionIds, timeout \in Timeouts, now \in Times : OpenSession(s, timeout, now)
       \/ \E s \in SessionIds, now \in Times : RecordHeartbeat(s, now)
       \/ \E now \in Times : CloseStaleSessions(now)
    /\ Counted
    /\ UNCHANGED broadcastVars

GatewayThread ==
    /\ RouteCall \/ ConfigureGateway \/ SessionCall \/ (RoutePublish /\ UNCHANGED calls)
    /\ UNCHANGED <<riskVars, seen>>

\* The payload names the order and the ip it comes from.
EvaluateNext ==
    /\ PollForwardedRequest
    /\ LET r == Head(ingress)
       IN  Evaluate(r.id, r.time, [r.payload EXCEPT !.user = r.user])
    /\ UNCHANGED <<broadcastVars, seen, calls>>

UpdateRisk ==
    /\ \/ \E limit \in RiskLimits : ConfigureMarket(limit)
       \/ \E top \in RiskTops : UpdateTopOfBook(top)
       \/ \E user \in {c.user : c \in Credentials}, state \in RiskStates : SetAccountState(user, state)
       \/ \E order \in RiskOrders : TrackRestingOrder(order)
       \/ \E user \in {c.user : c \in Credentials} : ClearUserRestingOrders(user)
    /\ Counted
    /\ UNCHANGED <<gatewayVars, broadcastVars, seen>>

LastSeen == IF seen = << >> THEN 0 ELSE Last(seen).sequence

ReadEvents ==
    /\ seen' = seen \o ReplayRouteEvents(LastSeen)
    /\ UNCHANGED <<gatewayVars, broadcastVars, riskVars, calls>>

Next == GatewayThread \/ EvaluateNext \/ UpdateRisk \/ ReadEvents

Spec == Init /\ [][Next]_vars

-----------------------------------------------------------------------------
(* Properties.                                                               *)

\* The gateway's limit per user and the risk engine's per user and ip both
\* hold as told by the requests themselves: those that arrive in the order of
\* their timestamps never get more of them through than a window allows, with
\* the border of the window inside it, and nobody is refused for the rate
\* without that many requests in the window.  consume_rate_limit, evaluate.
RateLimitsHonoured ==
    /\ \A user \in DOMAIN arrivals : KeepsLimit(arrivals[user])
    /\ \A key \in DOMAIN riskWindows : KeepsLimit(Judged(key))

\* What route accepts is decided and told of once, in the order accepted: the
\* audit log and then the queue hold the accepted requests, the route events
\* are those requests without at most the one route is still at, and the
\* reader has a gapless beginning of the events, whichever of the event and
\* the decision comes first.
IngressOrder ==
    LET decided == [k \in DOMAIN auditLog |-> auditLog[k].id]
        queued == [k \in DOMAIN ingress |-> ingress[k].id]
        told == [k \in DOMAIN HistoryOf(Topic) |-> HistoryOf(Topic)[k].payload]
    IN  /\ decided \o queued = accepted
        /\ told \o (IF Idle THEN << >> ELSE <<publishing.id>>) = accepted
        /\ IsPrefix(seen, HistoryOf(Topic))

\* A session ends by silence and stays ended: it was closed later than its
\* timeout after every heartbeat it sent, given that they arrived in order, and
\* no late heartbeat brings it back, only open_session does.
SessionsEndBySilence ==
    \A s \in DOMAIN sessions :
        LET heard == beats[s].heard
        IN  /\ sessions[s].live <=> beats[s].ended = Open
            /\ ~sessions[s].live =>
                  \/ \E k \in 2 .. Len(heard) : heard[k] < heard[k - 1]
                  \/ \A k \in DOMAIN heard : Head(beats[s].ended) - heard[k] > sessions[s].timeout

=============================================================================

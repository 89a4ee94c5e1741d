--------------------------- MODULE AccessGateway ---------------------------
(* core-exchange/unified-access-gateway: UnifiedAccessGateway.  One thread   *)
(* routes requests and configures the gateway, another polls the forwarded   *)
(* requests, readers replay the route events.  ingress_queue_ is the queue   *)
(* SpscRingQueue is shown to implement, so route is two steps: up to the     *)
(* push, and the publication of the event after it.                          *)
EXTENDS Broadcaster, RequestWindow, SequencesExt, FiniteSetsExt

CONSTANTS
    Credentials,    \* what register_credential is given: key, secret, user
    RouteConfigs,   \* what configure_route is given: prefix, backend
    UserLimits,     \* max_requests, window_ms
    Backends,
    SessionIds, Timeouts,
    Times,          \* timestamps, 0 for one that is not valid
    QueueCapacity,  \* ingress_queue_capacity
    Setup           \* credentials, routes, limits and sessions made before traffic

\* Times, timeouts and window lengths are signed and not checked by the code.
ASSUME GatewayAssumption ==
    /\ Times \subseteq Int /\ Timeouts \subseteq Int
    /\ \A limit \in UserLimits : limit.max \in Nat /\ limit.window \in Int
    /\ \A u \in DOMAIN Setup.limits : Setup.limits[u].max \in Nat /\ Setup.limits[u].window \in Int
    /\ \A s \in DOMAIN Setup.sessions :
          Setup.sessions[s] \in [timeout : Int, last : Int, live : {TRUE}]

VARIABLES
    credentials,    \* credentials_: key -> secret and user
    routes,         \* routes_, the longest prefix first
    limits,         \* user_limits_
    windows,        \* user_windows_
    health,         \* backend_health_
    sessions,       \* sessions_
    ingress,        \* ingress_queue_
    publishing,     \* the request route has pushed and not published yet
    arrivals,       \* user -> the requests its window judged
    accepted,       \* ids of the requests pushed, in order
    beats           \* session -> its opening and heartbeats since, and when it was closed

configVars == <<credentials, routes, limits, health>>
sessionVars == <<sessions, beats>>
routeVars == <<windows, ingress, publishing, arrivals, accepted>>
gatewayVars == <<configVars, sessionVars, routeVars>>

Topic == "gateway.routes"
NoRequest == [id |-> 0]
Open == << >>    \* of a session that has not been closed

GatewayInit ==
    /\ credentials = Setup.credentials
    /\ routes = Setup.routes
    /\ limits = Setup.limits
    /\ windows = EmptyMap
    /\ health = [b \in Backends |-> TRUE]
    /\ sessions = Setup.sessions
    /\ ingress = << >>
    /\ publishing = NoRequest
    /\ arrivals = EmptyMap
    /\ accepted = << >>
    /\ beats = [s \in DOMAIN sessions |-> [heard |-> <<sessions[s].last>>, ended |-> Open]]

\* The routing thread is between two calls.
Idle == publishing = NoRequest

-----------------------------------------------------------------------------
(* Configuration.                                                            *)

RegisterCredential(c) ==
    /\ Idle
    /\ credentials' = With(credentials, c.key, [secret |-> c.secret, user |-> c.user])
    /\ UNCHANGED <<routes, limits, health, sessionVars, routeVars>>

\* std::sort is not stable: routes of one length come in any order.
ConfigureRoute(c) ==
    /\ Idle
    /\ LET all == Append(routes, c)
       IN  \E p \in Permutations(DOMAIN all) :
              /\ \A i, j \in DOMAIN all :
                    i < j => Len(all[p[i]].prefix) >= Len(all[p[j]].prefix)
              /\ routes' = [i \in DOMAIN all |-> all[p[i]]]
    /\ UNCHANGED <<credentials, limits, health, sessionVars, routeVars>>

SetUserRateLimit(user, limit) ==
    /\ Idle
    /\ limits' = With(limits, user, limit)
    /\ UNCHANGED <<credentials, routes, health, sessionVars, routeVars>>

SetBackendHealth(backend, healthy) ==
    /\ Idle
    /\ health' = [health EXCEPT ![backend] = healthy]
    /\ UNCHANGED <<credentials, routes, limits, sessionVars, routeVars>>

-----------------------------------------------------------------------------
(* Sessions.                                                                 *)

OpenSession(s, timeout, now) ==
    /\ Idle
    /\ sessions' = With(sessions, s, [timeout |-> timeout, last |-> now, live |-> TRUE])
    /\ beats' = With(beats, s, [heard |-> <<now>>, ended |-> Open])
    /\ UNCHANGED <<configVars, routeVars>>

IsLive(s) == s \in DOMAIN sessions /\ sessions[s].live

\* A heartbeat counts by its own timestamp, even one older than the last.  A
\* session that is closed or unknown is answered with false.
RecordHeartbeat(s, now) ==
    /\ Idle
    /\ IF IsLive(s)
         THEN /\ sessions' = [sessions EXCEPT ![s].last = now]
              /\ beats' = [beats EXCEPT ![s].heard = Append(@, now)]
         ELSE UNCHANGED sessionVars
    /\ UNCHANGED <<configVars, routeVars>>

\* The live ones of the stale sessions are closed.
Close(stale, now) ==
    /\ Idle
    /\ sessions' = [s \in DOMAIN sessions |-> [sessions[s] EXCEPT !.live = @ /\ s \notin stale]]
    /\ beats' = [s \in DOMAIN beats |-> IF IsLive(s) /\ s \in stale THEN [beats[s] EXCEPT !.ended = <<now>>]
                                        ELSE beats[s]]
    /\ UNCHANGED <<configVars, routeVars>>

\* A session is closed at the end of its timeout, not after it.
CloseStaleSessionsEarly(now) ==
    Close({s \in DOMAIN sessions : now - sessions[s].last >= sessions[s].timeout}, now)

CloseStaleSessions(now) ==
    Close({s \in DOMAIN sessions : now - sessions[s].last > sessions[s].timeout}, now)

-----------------------------------------------------------------------------
(* route.                                                                    *)

\* expected_signature; a client signs with the secret it knows.
Signature(key, secret, id) == <<key, secret, id>>

HasValidRequestShape(r) == r.time > 0

HasValidCredentials(r) ==
    /\ r.key \in DOMAIN credentials
    /\ credentials[r.key].user = r.user
    /\ r.signature = Signature(r.key, credentials[r.key].secret, r.id)

\* match_route: the index of the first route that matches, 0 for none.
MatchRoute(path) == SelectInSeq(routes, LAMBDA c : IsPrefix(c.prefix, path))

BackendAvailable(backend) == health[backend]

\* The first check that fails, in the order route makes them.
Refusal(r) ==
    LET k == MatchRoute(r.path)
    IN  IF ~HasValidRequestShape(r) THEN "invalid_request"
        ELSE IF ~HasValidCredentials(r) THEN "authentication_failed"
        ELSE IF k = 0 THEN "unknown_route"
        ELSE IF ~BackendAvailable(routes[k].backend) THEN "circuit_open"
        ELSE "none"

\* route answers with the reason and has changed nothing.
RouteRefused(r) ==
    /\ Idle
    /\ Refusal(r) # "none"
    /\ UNCHANGED gatewayVars

\* consume_rate_limit: `pass` is its answer.  A user without a limit has no
\* window.
ConsumeRateLimit(r, pass) ==
    LET get(f) == IF r.user \in DOMAIN f THEN f[r.user] ELSE << >>
        limit == limits[r.user]
        window == Trim(get(windows), r.time, limit.window)
    IN  IF r.user \notin DOMAIN limits
          THEN pass /\ UNCHANGED <<windows, arrivals>>
          ELSE /\ pass = (Len(window) < limit.max)
               /\ windows' = With(windows, r.user, IF pass THEN Append(window, r.time) ELSE window)
               /\ arrivals' = With(arrivals, r.user, Append(get(arrivals),
                     [time |-> r.time, limit |-> limit, counted |-> pass, passed |-> pass, held |-> ~pass]))

\* Answered with kRateLimited; the window was trimmed.
RouteLimited(r) ==
    /\ Idle
    /\ Refusal(r) = "none"
    /\ ConsumeRateLimit(r, FALSE)
    /\ UNCHANGED <<configVars, sessionVars, ingress, publishing, accepted>>

\* make_forwarded_request
Forwarded(r) ==
    [id |-> r.id, user |-> r.user, payload |-> r.payload, time |-> r.time,
     backend |-> routes[MatchRoute(r.path)].backend]

\* Answered with kQueueFull; the place in the rate window is used all the same.
RouteQueueFull(r) ==
    /\ Idle
    /\ Refusal(r) = "none"
    /\ ConsumeRateLimit(r, TRUE)
    /\ Len(ingress) = QueueCapacity
    /\ UNCHANGED <<configVars, sessionVars, ingress, publishing, accepted>>

\* The request goes ahead of those that wait.
RoutePushAhead(r) ==
    /\ Idle
    /\ Refusal(r) = "none"
    /\ ConsumeRateLimit(r, TRUE)
    /\ Len(ingress) < QueueCapacity
    /\ ingress' = <<Forwarded(r)>> \o ingress
    /\ publishing' = Forwarded(r)
    /\ accepted' = Append(accepted, r.id)
    /\ UNCHANGED <<configVars, sessionVars>>

RoutePush(r) ==
    /\ Idle
    /\ Refusal(r) = "none"
    /\ ConsumeRateLimit(r, TRUE)
    /\ Len(ingress) < QueueCapacity
    /\ ingress' = Append(ingress, Forwarded(r))
    /\ publishing' = Forwarded(r)
    /\ accepted' = Append(accepted, r.id)
    /\ UNCHANGED <<configVars, sessionVars>>

\* route publishes the event and returns the accepted result.
RoutePublish ==
    /\ ~Idle
    /\ Publish(Topic, publishing.id)
    /\ publishing' = NoRequest
    /\ UNCHANGED <<configVars, sessionVars, windows, ingress, arrivals, accepted>>

\* poll_forwarded_request, by the other thread, while it finds something.
PollForwardedRequest ==
    /\ ingress # << >>
    /\ ingress' = Tail(ingress)
    /\ UNCHANGED <<configVars, sessionVars, windows, publishing, arrivals, accepted>>

\* replay_route_events
ReplayRouteEvents(after) == Replay(Topic, after)

=============================================================================

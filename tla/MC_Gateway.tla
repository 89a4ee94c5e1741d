----------------------------- MODULE MC_Gateway -----------------------------
(* Two users with a credential each, one route at first, a queue of two, and *)
(* limits small enough for the requests of a run to reach their borders.     *)
EXTENDS OrderIngress

CONSTANTS u1, u2

MCKeyOf == (u1 :> "k1") @@ (u2 :> "k2")
MCCredentials == {[key |-> "k1", secret |-> "new", user |-> u1]}
MCOrder(ip, side, qty) ==
    [user |-> u1, ip |-> ip, side |-> side, type |-> "limit", price |-> 2, qty |-> qty]
MCRequest(u, secret, path, p, t) ==
    [user |-> u, key |-> MCKeyOf[u], secret |-> secret, path |-> path, payload |-> p, time |-> t]
MCRequests ==
    {MCRequest(u1, "old", <<"orders">>, MCOrder("ip1", "buy", 1), t) : t \in Times}
    \cup {MCRequest(u1, "old", <<"orders">>, p, 2) :
             p \in {MCOrder("ip2", "buy", 1), MCOrder("ip1", "buy", 3)}}
    \cup {MCRequest(u2, "old", <<"orders">>, MCOrder("ip1", "sell", 0), 2)}
    \cup {MCRequest(u1, "new", path, MCOrder("ip1", "buy", 1), 1) :
             path \in {<<"orders", "cancel">>, <<"depth">>}}
    \cup {MCRequest(u1, "old", <<"orders">>, MCOrder("ip1", "buy", 1), 0)}
MCRouteConfigs == {[prefix |-> <<"orders", "cancel">>, backend |-> "matching"]}
MCSetup ==
    [credentials |-> [k \in {"k1", "k2"} |-> [secret |-> "old", user |-> IF k = "k1" THEN u1 ELSE u2]],
     routes |-> <<[prefix |-> <<"orders">>, backend |-> "risk"]>>,
     limits |-> [u \in {u1} |-> [max |-> 2, window |-> 1]],
     sessions |-> [s \in {"s1"} |-> [timeout |-> 1, last |-> 1, live |-> TRUE]]]
MCUserLimits == {[max |-> 1, window |-> 1]}
MCRiskLimits == {[max |-> 1, window |-> 1]}
MCRiskTops == {[bid |-> 2, ask |-> 2]}
MCOpeningStates == (u1 :> [quote |-> 9, base |-> 0]) @@ (u2 :> [quote |-> 0, base |-> 5])
MCRiskStates == {[quote |-> 1, base |-> 1]}
MCRiskOrders == {[user |-> u1, side |-> "sell", price |-> 2, qty |-> 1]}

\* Filter yields what SelectSeq does, for every sequence of up to four values.
ShortSeqs == UNION {[1 .. n -> {TRUE, FALSE} \X {0, 1}] : n \in 0 .. 4}
ASSUME FilterIsSelectSeq ==
    \A s \in ShortSeqs : Filter(s, LAMBDA x : x[1]) = SelectSeq(s, LAMBDA x : x[1])

=============================================================================

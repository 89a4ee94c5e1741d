---------------------------- MODULE RequestWindow ----------------------------
(* The sliding window with which the access gateway and the pre-trade risk   *)
(* engine limit request rates: the timestamps of the requests counted, in    *)
(* order of arrival.  The timestamps are the clients' own.                   *)
EXTENDS Integers, Sequences, FiniteSets, Filters

\* A request exactly one window length ago is forgotten.
TrimAtBorder(window, now, length) == Filter(window, LAMBDA t : t > now - length)

\* trim_request_window, and the remove_if of consume_rate_limit.
Trim(window, now, length) == Filter(window, LAMBDA t : t >= now - length)

-----------------------------------------------------------------------------
(* What a window does, told from a log of the requests it judged: their time,*)
(* the limit in force, whether they were counted, passed or held up.         *)

\* Arrivals i to j came in the order of their timestamps, under one limit.
Orderly(log, i, j) ==
    \A k \in i .. j :
        log[k].limit = log[j].limit /\ (k < j => log[k].time <= log[k + 1].time)

\* Nobody gets more requests through a window than its limit allows, as long
\* as they arrive in order; and nobody is held up who has not used the limit.
KeepsLimit(log) ==
    \A j \in DOMAIN log :
        LET limit == log[j].limit
            counted(k) == log[k].counted /\ log[k].time >= log[j].time - limit.window
        IN  /\ log[j].passed =>
                  \A i \in 1 .. j : Orderly(log, i, j) =>
                      Cardinality({k \in i .. j : counted(k)}) <= limit.max
            /\ log[j].held => Cardinality({k \in 1 .. (j - 1) : counted(k)}) >= limit.max

=============================================================================

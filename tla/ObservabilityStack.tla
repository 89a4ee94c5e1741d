------------------------- MODULE ObservabilityStack -------------------------
(* tooling/observability-stack: ObservabilityStack.  One thread publishes    *)
(* telemetry, another flushes it and owns the aggregates, rules, alerts and  *)
(* history.  Between them are queue_, the queue SpscRingQueue is shown to    *)
(* implement, of pointers to envelopes from a pool both threads use, whose   *)
(* blocks FixedBlockPool is shown to hand to one owner at a time.            *)
EXTENDS Integers, SequencesExt, FiniteSetsExt, Maps, Filters

CONSTANTS
    Envelopes, NoEnvelope,  \* addresses the pool hands out
    Telemetry,      \* metric points and spans published
    AlertRules,     \* what register_rule is given
    QueueCapacity, HistoryLimit,
    MaxPublished,   \* bound: publish calls
    MaxRegistered   \* bound: register_rule calls

ASSUME ObservabilityAssumption ==
    /\ HistoryLimit \in Nat \ {0}
    /\ NoEnvelope \notin Envelopes
    /\ \A c \in Telemetry : c.kind \in {"metric", "span"} /\ c.value \in Int
    /\ \A rule \in AlertRules : rule.breaches \in Nat \ {0}

VARIABLES
    pool,           \* envelope_pool_: live envelope -> its content
    queue,          \* queue_
    publishing,     \* the envelope publish_* has made and not pushed
    stage,          \* of the flushing thread: idle, flush, draining, gone
    flushed,        \* the envelope flush has popped and not destroyed
    done,           \* whether its content has been processed
    metrics,        \* metrics_: name -> accumulator
    rules,          \* rules_
    breachCounts,   \* breach_counts_
    alerts,         \* alerts_, with the place in the log of their sample
    history,        \* history_
    dropped,        \* dropped_events_
    calls,          \* publish calls so far, up to MaxPublished
    sent,           \* content of the envelopes pushed, in order
    log             \* content processed and rules registered, in order

publisherVars == <<publishing, dropped, calls, sent>>
viewVars == <<metrics, rules, breachCounts, alerts, history, log>>
vars == <<pool, queue, stage, flushed, done, publisherVars, viewVars>>

Init ==
    /\ pool = EmptyMap
    /\ queue = << >>
    /\ publishing = NoEnvelope /\ flushed = NoEnvelope
    /\ stage = "idle"
    /\ done = FALSE
    /\ metrics = EmptyMap /\ rules = EmptyMap /\ breachCounts = EmptyMap
    /\ alerts = << >> /\ history = << >>
    /\ dropped = 0 /\ calls = 0
    /\ sent = << >> /\ log = << >>

-----------------------------------------------------------------------------
(* publish_metric and publish_span.                                          *)

\* make_metric_envelope, make_span_envelope
MakeEnvelope(content) ==
    /\ stage \in {"idle", "flush"}
    /\ publishing = NoEnvelope
    /\ calls < MaxPublished
    /\ \E e \in Envelopes \ DOMAIN pool :
          /\ pool' = With(pool, e, content)
          /\ publishing' = e
    /\ calls' = calls + 1
    /\ UNCHANGED <<queue, stage, flushed, done, dropped, sent, viewVars>>

PushEnvelope ==
    /\ publishing # NoEnvelope
    /\ Len(queue) < QueueCapacity
    /\ queue' = Append(queue, publishing)
    /\ sent' = Append(sent, pool[publishing])
    /\ publishing' = NoEnvelope
    /\ UNCHANGED <<pool, stage, flushed, done, dropped, calls, viewVars>>

DropEnvelope ==
    /\ publishing # NoEnvelope
    /\ Len(queue) = QueueCapacity
    /\ pool' = Without(pool, publishing)
    /\ dropped' = dropped + 1
    /\ publishing' = NoEnvelope
    /\ UNCHANGED <<queue, stage, flushed, done, calls, sent, viewVars>>

-----------------------------------------------------------------------------
(* The flushing thread.                                                      *)

\* A rule registered again starts from no breaches.
RegisterRule(rule) ==
    /\ stage = "idle"
    /\ Cardinality({k \in DOMAIN log : log[k].kind = "rule"}) < MaxRegistered
    /\ rules' = With(rules, rule.id, rule)
    /\ breachCounts' = Without(breachCounts, rule.id)
    /\ log' = Append(log, [kind |-> "rule", rule |-> rule])
    /\ UNCHANGED <<pool, queue, stage, flushed, done, metrics, alerts, history, publisherVars>>

FlushCall ==
    /\ stage = "idle"
    /\ stage' = "flush"
    /\ UNCHANGED <<pool, queue, flushed, done, publisherVars, viewVars>>

\* The envelope goes back to the pool before its content is read.
FlushPopDestroys ==
    /\ stage = "flush" /\ flushed = NoEnvelope
    /\ queue # << >>
    /\ flushed' = Head(queue)
    /\ queue' = Tail(queue)
    /\ pool' = Without(pool, Head(queue))
    /\ UNCHANGED <<stage, done, publisherVars, viewVars>>

FlushPop ==
    /\ stage = "flush" /\ flushed = NoEnvelope
    /\ queue # << >>
    /\ flushed' = Head(queue)
    /\ queue' = Tail(queue)
    /\ UNCHANGED <<pool, stage, done, publisherVars, viewVars>>

\* The accumulator after one more sample; the first one fixes the type.
Accumulate(name, value, type) ==
    IF name \notin DOMAIN metrics
      THEN [type |-> type, samples |-> 1, sum |-> value, last |-> value, min |-> value, max |-> value]
      ELSE [metrics[name] EXCEPT !.samples = @ + 1, !.sum = @ + value, !.last = value,
                                 !.min = Min({@, value}), !.max = Max({@, value})]

\* record_event lets the oldest entry go even when there is room for one more.
RecordEarly(entries) ==
    LET all == history \o entries
    IN  SubSeq(all, Max({1, Len(all) - HistoryLimit + 2}), Len(all))

\* record_event, for each of the entries.
Record(entries) ==
    LET all == history \o entries
    IN  SubSeq(all, Max({1, Len(all) - HistoryLimit + 1}), Len(all))

CountOf(id) == IF id \in DOMAIN breachCounts THEN breachCounts[id] ELSE 0

\* evaluate_rules: every further breach of a streak alerts.
BreachesAgain(rule, value) ==
    IF value >= rule.threshold
      THEN [count |-> Min({CountOf(rule.id) + 1, rule.breaches}),
            alert |-> CountOf(rule.id) + 1 >= rule.breaches]
      ELSE [count |-> 0, alert |-> FALSE]

\* evaluate_rules, for one rule: the new count, and whether it alerts.  The
\* count stops at the rule's number, so that a streak alerts once.
Breaches(rule, value) ==
    IF value >= rule.threshold
      THEN [count |-> Min({CountOf(rule.id) + 1, rule.breaches}),
            alert |-> CountOf(rule.id) + 1 = rule.breaches]
      ELSE [count |-> 0, alert |-> FALSE]

\* emit_alert: the notification, and its entry in the history.
Alert(id, value) == [rule |-> id, value |-> value, at |-> Len(log) + 1]
AlertEntry(id, value) == [kind |-> "alert", name |-> id, value |-> value]

\* TelemetryEvent
Entry(c) == [kind |-> c.kind, name |-> c.name, value |-> c.value]

\* process_metric.  rules_ is visited in any order.
ProcessMetric(c) ==
    LET ids == {id \in DOMAIN rules : rules[id].metric = c.name}
        verdict == [id \in ids |-> Breaches(rules[id], c.value)]
    IN  /\ metrics' = With(metrics, c.name, Accumulate(c.name, c.value, c.type))
        /\ breachCounts' = [id \in DOMAIN breachCounts \cup ids |->
                               IF id \in ids THEN verdict[id].count ELSE breachCounts[id]]
        /\ \E firing \in SetToSeqs({id \in ids : verdict[id].alert}) :
              /\ alerts' = alerts \o [k \in DOMAIN firing |-> Alert(firing[k], c.value)]
              /\ history' = Record(<<Entry(c)>> \o
                              [k \in DOMAIN firing |-> AlertEntry(firing[k], c.value)])

\* process_span: the value is the duration.
ProcessSpan(c) ==
    /\ history' = Record(<<Entry(c)>>)
    /\ UNCHANGED <<metrics, breachCounts, alerts>>

FlushProcess ==
    /\ flushed # NoEnvelope /\ ~done
    /\ LET c == pool[flushed]
       IN  /\ IF c.kind = "metric" THEN ProcessMetric(c) ELSE ProcessSpan(c)
           /\ log' = Append(log, c)
    /\ done' = TRUE
    /\ UNCHANGED <<pool, queue, stage, flushed, rules, publisherVars>>

FlushDestroy ==
    /\ flushed # NoEnvelope /\ done
    /\ pool' = Without(pool, flushed)
    /\ flushed' = NoEnvelope
    /\ done' = FALSE
    /\ UNCHANGED <<queue, stage, publisherVars, viewVars>>

FlushReturn ==
    /\ stage = "flush" /\ flushed = NoEnvelope
    /\ queue = << >>
    /\ stage' = "idle"
    /\ UNCHANGED <<pool, queue, flushed, done, publisherVars, viewVars>>

\* metric_snapshot, for the flushing thread between two flushes.
NoSnapshot == [samples |-> 0]
MetricSnapshot(name) == IF name \in DOMAIN metrics THEN metrics[name] ELSE NoSnapshot

-----------------------------------------------------------------------------
(* The destructor, when both threads are through with their calls.           *)

Destruct ==
    /\ stage = "idle" /\ publishing = NoEnvelope
    /\ stage' = "draining"
    /\ UNCHANGED <<pool, queue, flushed, done, publisherVars, viewVars>>

\* drain_and_dispose_pending, one turn of its loop.
DrainAndDispose ==
    /\ stage = "draining"
    /\ IF queue # << >>
         THEN /\ pool' = Without(pool, Head(queue))
              /\ queue' = Tail(queue)
              /\ UNCHANGED stage
         ELSE /\ stage' = "gone"
              /\ UNCHANGED <<pool, queue>>
    /\ UNCHANGED <<flushed, done, publisherVars, viewVars>>

Next ==
    \/ \E content \in Telemetry : MakeEnvelope(content)
    \/ PushEnvelope
    \/ DropEnvelope
    \/ \E rule \in AlertRules : RegisterRule(rule)
    \/ FlushCall
    \/ FlushPop
    \/ FlushProcess
    \/ FlushDestroy
    \/ FlushReturn
    \/ Destruct
    \/ DrainAndDispose

Spec == Init /\ [][Next]_vars

-----------------------------------------------------------------------------
(* Properties.                                                               *)

Held(e) == IF e = NoEnvelope THEN << >> ELSE <<e>>
Processed == Filter(log, LAMBDA c : c.kind # "rule")

\* No envelope is lost, used twice or read after it went back to the pool: the
\* live ones are in the publisher's hands, in the queue or in the flusher's
\* hands, each in one place; what was pushed is what flush processed, in order,
\* and then what is still under way; every publish ended in a push or a drop;
\* and nothing is left in the pool when the destructor has returned.
EnvelopesAccounted ==
    LET places == Held(flushed) \o queue \o Held(publishing)
        under == (IF done THEN << >> ELSE Held(flushed)) \o queue
    IN  /\ IsInjective(places) /\ ToSet(places) = DOMAIN pool
        /\ stage \in {"idle", "flush"} =>
              sent = Processed \o [k \in DOMAIN under |-> pool[under[k]]]
        /\ calls = Len(sent) + dropped + Len(Held(publishing))
        /\ stage = "gone" => DOMAIN pool = {}

\* The rule of that id in force at entry j of the log, by its entry, 0 for none.
RuleAt(id, j) ==
    LET set == {k \in 1 .. (j - 1) : log[k].kind = "rule" /\ log[k].rule.id = id}
    IN  IF set = {} THEN 0 ELSE Max(set)

\* Entry j completes the run of breaches that rule id waits for: the samples of
\* its metric since it was registered end in that many at or over the threshold.
CompletesStreak(id, j) ==
    LET k == RuleAt(id, j)
        rule == log[k].rule
        samples == {i \in (k + 1) .. j : log[i].kind = "metric" /\ log[i].name = rule.metric}
        streak == {i \in samples : \A n \in samples : n >= i => log[n].value >= rule.threshold}
    IN  k # 0 /\ j \in samples /\ Cardinality(streak) = rule.breaches

\* There is one alert for every run of breaches that reaches its rule's number
\* and none besides, in the order of the samples, however rules are registered
\* again and samples of other metrics and spans come between.
AlertsMatchStreaks ==
    LET ids == {rule.id : rule \in AlertRules}
        due == {e \in ids \X DOMAIN log : CompletesStreak(e[1], e[2])}
    IN  /\ {<<alerts[k].rule, alerts[k].at>> : k \in DOMAIN alerts} = due
        /\ Len(alerts) = Cardinality(due)
        /\ \A k \in 2 .. Len(alerts) : alerts[k - 1].at <= alerts[k].at

\* Everything flush recorded: each content with the alerts it set off.
Recorded ==
    FlattenSeq([j \in DOMAIN log |->
        IF log[j].kind = "rule" THEN << >>
        ELSE LET set == Filter(alerts, LAMBDA a : a.at = j)
             IN  <<Entry(log[j])>> \o [k \in DOMAIN set |-> AlertEntry(set[k].rule, set[k].value)]])

\* The snapshots are those of the samples processed, and the history is the end
\* of what was recorded, complete up to its limit.
ViewsMatchProcessed ==
    /\ LET n == Min({HistoryLimit, Len(Recorded)})
       IN  history = SubSeq(Recorded, Len(Recorded) - n + 1, Len(Recorded))
    /\ \A name \in {c.name : c \in {d \in Telemetry : d.kind = "metric"}} :
          LET samples == Filter(log, LAMBDA c : c.kind = "metric" /\ c.name = name)
              values == [k \in DOMAIN samples |-> samples[k].value]
          IN  MetricSnapshot(name) =
                 IF samples = << >> THEN NoSnapshot
                 ELSE [type |-> Head(samples).type, samples |-> Len(samples),
                       sum |-> SumFunction(values), last |-> Last(values),
                       min |-> Min(ToSet(values)), max |-> Max(ToSet(values))]

=============================================================================

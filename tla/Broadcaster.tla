---------------------------- MODULE Broadcaster ----------------------------
(* infrastructure/market-data-push-system: MarketDataBroadcaster as the      *)
(* gateway and the matching engine use it, which publish and replay and have *)
(* no subscribers.  Both calls hold mutex_ throughout.                       *)
EXTENDS Naturals, Sequences, Maps, Filters

VARIABLES
    nextSequence,   \* next_sequence_, one for all topics
    history         \* history_: topic -> messages in the order published

broadcastVars == <<nextSequence, history>>

BroadcastInit ==
    /\ nextSequence = 0
    /\ history = EmptyMap

HistoryOf(topic) == IF topic \in DOMAIN history THEN history[topic] ELSE << >>

Publish(topic, payload) ==
    /\ nextSequence' = nextSequence + 1
    /\ history' = With(history, topic,
                      Append(HistoryOf(topic), [sequence |-> nextSequence + 1, payload |-> payload]))

\* replay(topic, sequence_after)
Replay(topic, after) == Filter(HistoryOf(topic), LAMBDA m : m.sequence > after)

=============================================================================

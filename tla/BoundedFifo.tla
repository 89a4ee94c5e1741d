---------------------------- MODULE BoundedFifo ----------------------------
(* What SpscRingQueue promises its callers: a first-in first-out queue of at *)
(* most Capacity values on which push and try_pop each take effect at one    *)
(* instant.  push is refused exactly when the queue is full at that instant, *)
(* try_pop returns nothing exactly when it is empty.                         *)
EXTENDS Naturals, Sequences

CONSTANTS
    Values,     \* what may be pushed
    Null,       \* std::nullopt: the answer of try_pop on an empty queue
    Capacity    \* the most values the queue holds

VARIABLES
    queue,      \* the values in the queue, oldest first
    pushRet,    \* answer of the producer's last completed push
    popRet      \* answer of the consumer's last completed try_pop

vars == <<queue, pushRet, popRet>>

Init ==
    /\ queue = << >>
    /\ pushRet = "none"
    /\ popRet = Null

Push(v) ==
    /\ Len(queue) < Capacity
    /\ queue' = Append(queue, v)
    /\ pushRet' = "ok"
    /\ UNCHANGED popRet

PushFull ==
    /\ Len(queue) = Capacity
    /\ pushRet' = "full"
    /\ UNCHANGED <<queue, popRet>>

Pop ==
    /\ queue # << >>
    /\ popRet' = Head(queue)
    /\ queue' = Tail(queue)
    /\ UNCHANGED pushRet

PopEmpty ==
    /\ queue = << >>
    /\ popRet' = Null
    /\ UNCHANGED <<queue, pushRet>>

Next ==
    \/ \E v \in Values : Push(v)
    \/ PushFull
    \/ Pop
    \/ PopEmpty

Spec == Init /\ [][Next]_vars

=============================================================================

--------------------------- MODULE SpscRingQueue ---------------------------
(* infrastructure/lock-free-structures: SpscRingQueue<T> and the drain loop  *)
(* of QueueFacade.  One producer thread, one consumer thread and a third     *)
(* thread that only asks for the size share head_, tail_ and the slots.      *)
(* A step is one access to shared memory, so every interleaving of the       *)
(* accesses the three functions make is a behaviour.  head_ and tail_ are    *)
(* free-running counters of the width of std::size_t that wrap around.       *)
EXTENDS Naturals, Sequences

CONSTANTS
    Values,             \* what may be pushed
    Null,               \* a disengaged std::optional
    Moved,              \* an engaged optional whose value was moved away
    RequestedCapacity,  \* the constructor's argument
    CounterBits,        \* width of std::size_t
    MaxDrain,           \* largest max_items the consumer passes to drain
    MaxPops             \* pops told apart between the two loads of size_approx

\* The number of values a counter can take.
CounterMod == 2^CounterBits

\* std::bit_ceil: the least power of two that is not below n.
BitCeil(n) ==
    CHOOSE c \in {2^k : k \in 0..CounterBits - 1} :
        /\ c >= n
        /\ \A d \in {2^k : k \in 0..CounterBits - 1} : d >= n => c <= d

\* normalize_capacity: smaller requests than 2 throw, so no queue exists.
Capacity == BitCeil(RequestedCapacity)

ASSUME RequestedCapacityAssumption == RequestedCapacity \in Nat \ {0, 1}

\* What the two powers of two give: the capacity divides the counter range.
ASSUME CapacityAssumption ==
    /\ Capacity \in Nat \ {0, 1}
    /\ CounterMod \in Nat
    /\ \E laps \in 2..CounterMod : CounterMod = Capacity * laps

ASSUME ValuesAssumption ==
    /\ Null \notin Values
    /\ Moved \notin Values
    /\ Null # Moved

ASSUME BoundsAssumption == MaxDrain \in Nat \ {0} /\ MaxPops \in Nat

VARIABLES
    head, tail,         \* head_ and tail_
    buffer,             \* buffer_
    ppc, pval,          \* the producer: where it is in emplace, its argument
    pushRet,            \* the answer of its last push
    cpc, cval,          \* the consumer: where it is in try_pop_impl, `result`
    budget,             \* pops left to the drain call it executes
    popRet,             \* the answer of its last try_pop
    opc, ohead,         \* the observer: where it is in size_approx, its `head`
    opops,              \* (history) pops completed since it loaded head_
    osize               \* the answer of its last size_approx

producerVars == <<ppc, pval, pushRet>>
consumerVars == <<cpc, cval, budget, popRet>>
observerVars == <<opc, ohead, opops, osize>>
ringVars == <<head, tail, buffer, producerVars, consumerVars, observerVars>>

-----------------------------------------------------------------------------
\* Arithmetic of std::size_t on counters.
Inc(c) == IF c + 1 = CounterMod THEN 0 ELSE c + 1
Diff(a, b) == IF a >= b THEN a - b ELSE a + CounterMod - b

\* counter & mask_
Slot(c) == c % Capacity

Size == Diff(tail, head)

-----------------------------------------------------------------------------
RingInit ==
    /\ head = 0
    /\ tail = 0
    /\ buffer = [s \in 0..Capacity - 1 |-> Null]
    /\ ppc = "idle" /\ pval = Null /\ pushRet = "none"
    /\ cpc = "idle" /\ cval = Null /\ budget = 0 /\ popRet = Null
    /\ opc = "idle" /\ ohead = 0 /\ opops = 0 /\ osize = 0

-----------------------------------------------------------------------------
(* The producer: push -> push_impl -> emplace.                               *)

PushCall(v) ==
    /\ ppc = "idle"
    /\ ppc' = "load_head"
    /\ pval' = v
    /\ UNCHANGED <<head, tail, buffer, pushRet, consumerVars, observerVars>>

\* Off by one in the full test: one value more than there are slots.
LoadHeadOffByOne ==
    /\ ppc = "load_head"
    /\ IF Size = Capacity + 1
         THEN ppc' = "idle" /\ pval' = Null /\ pushRet' = "full"
         ELSE ppc' = "write" /\ UNCHANGED <<pval, pushRet>>
    /\ UNCHANGED <<head, tail, buffer, consumerVars, observerVars>>

\* One slot is kept free, as rings without free-running counters do.
LoadHeadKeepOneFree ==
    /\ ppc = "load_head"
    /\ IF Size >= Capacity - 1
         THEN ppc' = "idle" /\ pval' = Null /\ pushRet' = "full"
         ELSE ppc' = "write" /\ UNCHANGED <<pval, pushRet>>
    /\ UNCHANGED <<head, tail, buffer, consumerVars, observerVars>>

\* Load head_ and compare; tail_ is written by this thread alone, so its own
\* relaxed load of it is part of the step.
LoadHead ==
    /\ ppc = "load_head"
    /\ IF Size = Capacity
         THEN ppc' = "idle" /\ pval' = Null /\ pushRet' = "full"
         ELSE ppc' = "write" /\ UNCHANGED <<pval, pushRet>>
    /\ UNCHANGED <<head, tail, buffer, consumerVars, observerVars>>

\* buffer_[tail & mask_] = value
WriteSlot ==
    /\ ppc = "write"
    /\ buffer' = [buffer EXCEPT ![Slot(tail)] = pval]
    /\ ppc' = "store_tail"
    /\ UNCHANGED <<head, tail, pval, pushRet, consumerVars, observerVars>>

\* tail_.store(tail + 1); return true
StoreTail ==
    /\ ppc = "store_tail"
    /\ tail' = Inc(tail)
    /\ ppc' = "idle"
    /\ pval' = Null
    /\ pushRet' = "ok"
    /\ UNCHANGED <<head, buffer, consumerVars, observerVars>>

-----------------------------------------------------------------------------
(* The consumer: try_pop is a drain of one item as far as the ring goes.     *)

PopCall(n) ==
    /\ cpc = "idle"
    /\ cpc' = "load_tail"
    /\ budget' = n
    /\ UNCHANGED <<head, tail, buffer, cval, popRet, producerVars, observerVars>>

\* A drain that goes on polling an empty queue until it has its max_items.
LoadTailSpin ==
    /\ cpc = "load_tail"
    /\ IF head = tail
         THEN cpc' = "load_tail" /\ popRet' = Null /\ UNCHANGED budget
         ELSE cpc' = "take" /\ UNCHANGED <<budget, popRet>>
    /\ UNCHANGED <<head, tail, buffer, cval, producerVars, observerVars>>

\* Empty judged by the slot numbers: a full ring looks empty too.
LoadTailMasked ==
    /\ cpc = "load_tail"
    /\ IF Slot(head) = Slot(tail)
         THEN cpc' = "idle" /\ budget' = 0 /\ popRet' = Null
         ELSE cpc' = "take" /\ UNCHANGED <<budget, popRet>>
    /\ UNCHANGED <<head, tail, buffer, cval, producerVars, observerVars>>

\* if (head == tail_.load()) return nullopt, which also ends drain.
LoadTail ==
    /\ cpc = "load_tail"
    /\ IF head = tail
         THEN cpc' = "idle" /\ budget' = 0 /\ popRet' = Null
         ELSE cpc' = "take" /\ UNCHANGED <<budget, popRet>>
    /\ UNCHANGED <<head, tail, buffer, cval, producerVars, observerVars>>

\* result = std::move(slot)
TakeSlot ==
    /\ cpc = "take"
    /\ cval' = buffer[Slot(head)]
    /\ buffer' = [buffer EXCEPT ![Slot(head)] = Moved]
    /\ cpc' = "reset"
    /\ UNCHANGED <<head, tail, budget, popRet, producerVars, observerVars>>

\* The slot keeps its moved-from value.
ResetSlotForgotten ==
    /\ cpc = "reset"
    /\ cpc' = "store_head"
    /\ UNCHANGED <<head, tail, buffer, cval, budget, popRet, producerVars, observerVars>>

\* slot.reset()
ResetSlot ==
    /\ cpc = "reset"
    /\ buffer' = [buffer EXCEPT ![Slot(head)] = Null]
    /\ cpc' = "store_head"
    /\ UNCHANGED <<head, tail, cval, budget, popRet, producerVars, observerVars>>

\* head_.store(head + 1); return result; the drain loop goes on while its
\* max_items is not reached.
StoreHead ==
    /\ cpc = "store_head"
    /\ head' = Inc(head)
    /\ popRet' = cval
    /\ cval' = Null
    /\ budget' = budget - 1
    /\ cpc' = IF budget = 1 THEN "idle" ELSE "load_tail"
    /\ opops' = IF opc = "load_tail" /\ opops <= MaxPops THEN opops + 1 ELSE opops
    /\ UNCHANGED <<tail, buffer, producerVars, opc, ohead, osize>>

-----------------------------------------------------------------------------
(* Any other thread: size_approx, and empty, which compares it with 0.       *)

SizeLoadHead ==
    /\ opc = "idle"
    /\ ohead' = head
    /\ opops' = 0
    /\ osize' = 0
    /\ opc' = "load_tail"
    /\ UNCHANGED <<head, tail, buffer, producerVars, consumerVars>>

\* The operands of the subtraction exchanged.
SizeLoadTailExchanged ==
    /\ opc = "load_tail"
    /\ osize' = Diff(ohead, tail)
    /\ ohead' = 0
    /\ opc' = "idle"
    /\ UNCHANGED <<head, tail, buffer, opops, producerVars, consumerVars>>

SizeLoadTail ==
    /\ opc = "load_tail"
    /\ osize' = Diff(tail, ohead)
    /\ ohead' = 0
    /\ opc' = "idle"
    /\ UNCHANGED <<head, tail, buffer, opops, producerVars, consumerVars>>

-----------------------------------------------------------------------------
Producer == (\E v \in Values : PushCall(v)) \/ LoadHead \/ WriteSlot \/ StoreTail
Consumer ==
    (\E n \in 1..MaxDrain : PopCall(n)) \/ LoadTail \/ TakeSlot \/ ResetSlot \/ StoreHead
Observer == SizeLoadHead \/ SizeLoadTail

RingNext == Producer \/ Consumer \/ Observer

RingSpec == RingInit /\ [][RingNext]_ringVars

\* A thread inside a function goes on with it, and the consumer keeps polling.
\* Nobody has to push and nobody has to ask for the size.
Fairness ==
    /\ WF_ringVars(LoadHead \/ WriteSlot \/ StoreTail)
    /\ WF_ringVars(Consumer)
    /\ WF_ringVars(SizeLoadTail)

FairSpec == RingSpec /\ Fairness

-----------------------------------------------------------------------------
(* Properties.                                                               *)

\* The values of all variables: counters in range, slots that hold a value, a
\* moved-from value or nothing, every thread at a point of its function.
RingTypeOK ==
    /\ head \in 0..CounterMod - 1
    /\ tail \in 0..CounterMod - 1
    /\ buffer \in [0..Capacity - 1 -> Values \cup {Null, Moved}]
    /\ ppc \in {"idle", "load_head", "write", "store_tail"}
    /\ pval \in Values \cup {Null}
    /\ pushRet \in {"none", "ok", "full"}
    /\ cpc \in {"idle", "load_tail", "take", "reset", "store_head"}
    /\ cval \in Values \cup {Null, Moved}
    /\ budget \in 0..MaxDrain
    /\ popRet \in Values \cup {Null, Moved}
    /\ opc \in {"idle", "load_tail"}
    /\ ohead \in 0..CounterMod - 1
    /\ opops \in 0..MaxPops + 1
    /\ osize \in 0..CounterMod - 1

\* The slots are not atomic: the producer about to assign a slot and the
\* consumer about to move from it or reset it are never at the same slot.
NoSlotRace ==
    ppc = "write" /\ cpc \in {"take", "reset"} => Slot(tail) # Slot(head)

\* The slot i places after the one head_ points at.
SlotAt(i) ==
    IF Slot(head) + i >= Capacity THEN Slot(head) + i - Capacity ELSE Slot(head) + i

\* The slots the counters call filled hold values and the others are
\* disengaged, up to the one slot each thread is working on: no value is left
\* behind in a free slot and no free slot is counted, around any wrap of the
\* counters and of the ring.
SlotsMatchCounters ==
    \A i \in 0..Capacity - 1 :
        LET slot == buffer[SlotAt(i)]
            taken == i = 0 /\ cpc \in {"reset", "store_head"}
            written == i = Size /\ ppc = "store_tail"
        IN  /\ i < Size /\ ~taken => slot \in Values
            /\ taken => slot = IF cpc = "reset" THEN Moved ELSE Null
            /\ written => slot = pval
            /\ i >= Size /\ ~written => slot = Null

\* size_approx loads head_ before tail_: the answer exceeds the capacity by at
\* most the pops that completed between the two loads, and so never is the
\* huge number a negative difference of counters would wrap to.
SizeApproxBounded ==
    opc = "idle" /\ opops <= MaxPops => osize <= Capacity + opops

\* The ring as its callers see it: an element leaves the queue when head_ is
\* stored, though its slot was emptied before.
Contents ==
    [i \in 1..Size |->
        IF i = 1 /\ cpc \in {"reset", "store_head"} THEN cval ELSE buffer[SlotAt(i - 1)]]

Fifo == INSTANCE BoundedFifo WITH queue <- Contents

\* Every behaviour of the ring is one of the bounded first-in first-out queue:
\* nothing lost, duplicated or reordered, refused only when really full, empty
\* only when really empty.
ImplementsFifo == Fifo!Spec

\* A value that reached a slot is eventually popped: full and empty are never
\* mistaken for each other.
EveryValuePopped ==
    \A s \in 0..Capacity - 1 : buffer[s] \in Values ~> buffer[s] \notin Values

\* A drain with a finite max_items returns even if the producer keeps pushing
\* and even if there are fewer items than it asked for.
DrainReturns == cpc # "idle" ~> cpc = "idle"

=============================================================================

-------------------------- MODULE MpmcLinkedQueue --------------------------
(* infrastructure/lock-free-structures: MpmcLinkedQueue<T>, the Michael and  *)
(* Scott queue with epoch based reclamation.  A step is one access to shared *)
(* memory (a load, a store, a compare-exchange), in sequentially consistent  *)
(* order.  A compare_exchange_weak may fail for no reason.                   *)
(*                                                                           *)
(* Nodes are numbered in the order they are allocated and a number is used   *)
(* once, so a pointer to a freed node is recognised for ever; the properties *)
(* ask that no thread goes on with such a pointer, which is also what makes  *)
(* the reuse of addresses by the allocator harmless.  The value pushed with  *)
(* a node is identified with the node.                                       *)
EXTENDS Naturals, Sequences, FiniteSets, FiniteSetsExt, Functions

CONSTANTS
    Producers, Consumers,   \* threads that push, threads that pop
    Registered,             \* threads handed a token at the start, in that order
    Leavers,                \* threads that may give their token back
    MaxThreads,             \* number of epoch slots
    RetireThreshold,        \* kRetireThreshold
    MaxPushes,              \* bound: pushes in a behaviour
    SizeMod                 \* number of values of size_'s type

Threads == Producers \cup Consumers
Slots == 1..MaxThreads
Nodes == 0..MaxPushes
Stub == 0
Nil == MaxPushes + 1

ASSUME ThreadsAssumption ==
    /\ IsFiniteSet(Threads) /\ Leavers \subseteq Threads /\ MaxThreads \in Nat
    /\ Registered \in Seq(Threads) /\ IsInjective(Registered) /\ Len(Registered) <= MaxThreads
ASSUME BoundsAssumption ==
    /\ RetireThreshold \in Nat \ {0}
    /\ MaxPushes \in Nat
    /\ SizeMod \in Nat /\ SizeMod > MaxPushes + 1

VARIABLES
    head, tail,     \* head_, tail_
    next,           \* next of every node
    full,           \* nodes whose value is engaged
    allocated,      \* number of nodes allocated so far, the stub included
    freed,          \* nodes deleted
    size,           \* size_
    globalEpoch,    \* global_epoch_
    slots,          \* slots_: occupied, active, epoch, retired
    pc,             \* where each thread is
    loc,            \* its local variables
    sawEmpty        \* (history) pops during which the queue was empty once

shared == <<head, tail, next, full, allocated, freed, size, globalEpoch>>
vars == <<shared, slots, pc, loc, sawEmpty>>

FreeSlot == [occupied |-> FALSE, active |-> FALSE, epoch |-> 0, retired |-> {}]

\* slot, the node to push, head, tail and next as loaded, the index and the
\* minimum of min_active_epoch (the epoch just loaded, in enter_critical).
NoLocals == [slot |-> 0, node |-> Nil, head |-> Nil, tail |-> Nil, next |-> Nil,
             index |-> 0, minimum |-> 0]

\* The constructor, followed by the make_token calls whose tokens are moved to
\* the Registered threads; the others make their own.
Init ==
    /\ head = Stub /\ tail = Stub
    /\ next = [n \in Nodes |-> Nil]
    /\ full = {}
    /\ allocated = 1
    /\ freed = {}
    /\ size = 0
    /\ globalEpoch = 1
    /\ slots = [s \in Slots |-> IF s \in DOMAIN Registered
                                 THEN [FreeSlot EXCEPT !.occupied = TRUE, !.epoch = 1]
                                 ELSE FreeSlot]
    /\ pc = [t \in Threads |-> IF t \in Range(Registered) THEN "ready" ELSE "outside"]
    /\ loc = [t \in Threads |-> IF t \in Range(Registered)
                                 THEN [NoLocals EXCEPT !.slot = AntiFunction(Registered)[t]]
                                 ELSE NoLocals]
    /\ sawEmpty = {}

-----------------------------------------------------------------------------
(* The queue as its users see it: the nodes after head_, oldest first.       *)

\* The nodes that links leads to, one by one, from first.
Chain(first, links) ==
    LET from[k \in 0..MaxPushes + 1] ==
            IF k = 0 THEN first
            ELSE IF from[k - 1] = Nil THEN Nil ELSE links[from[k - 1]]
        length == Max({k \in 0..MaxPushes + 1 : from[k] # Nil})
    IN  [k \in 1..length |-> from[k]]

Contents == Chain(head, next)

At(t, here) == pc[t] = here
Goto(t, there) == pc' = [pc EXCEPT ![t] = there]
Slot(t) == loc[t].slot
Inside == {t \in Threads : pc[t] \notin {"outside", "ready"}}

-----------------------------------------------------------------------------
(* Tokens.                                                                   *)

\* acquire_slot: the first slot that is not occupied.  Without one it throws
\* and the thread stays without a token.
MakeToken(t) ==
    /\ At(t, "outside")
    /\ LET vacant == {s \in Slots : ~slots[s].occupied}
       IN  /\ vacant # {}
           /\ slots' = [slots EXCEPT ![Min(vacant)] =
                          [@ EXCEPT !.occupied = TRUE, !.retired = {}, !.epoch = globalEpoch]]
           /\ loc' = [loc EXCEPT ![t].slot = Min(vacant)]
    /\ Goto(t, "ready")
    /\ UNCHANGED <<shared, sawEmpty>>

\* ~Token -> unregister_slot: what the slot has retired is deleted at once
\* (force_all), whatever the epochs of the others.
ReleaseToken(t) ==
    /\ t \in Leavers
    /\ At(t, "ready")
    /\ freed' = freed \cup {r.node : r \in slots[Slot(t)].retired}
    /\ slots' = [slots EXCEPT ![Slot(t)] = [FreeSlot EXCEPT !.epoch = slots[Slot(t)].epoch]]
    /\ loc' = [loc EXCEPT ![t] = NoLocals]
    /\ Goto(t, "outside")
    /\ UNCHANGED <<head, tail, next, full, allocated, size, globalEpoch, sawEmpty>>

-----------------------------------------------------------------------------
(* OperationGuard: enter_critical loads the global epoch, stores it in the   *)
(* slot and then sets the active flag.                                       *)

Call(t) ==
    /\ At(t, "ready")
    /\ t \in Consumers \/ allocated <= MaxPushes
    /\ loc' = [loc EXCEPT ![t].minimum = globalEpoch]
    /\ Goto(t, "store_epoch")
    /\ sawEmpty' = IF Contents = << >> THEN sawEmpty \cup {t} ELSE sawEmpty
    /\ UNCHANGED <<shared, slots>>

StoreEpoch(t) ==
    /\ At(t, "store_epoch")
    /\ slots' = [slots EXCEPT ![Slot(t)].epoch = loc[t].minimum]
    /\ loc' = [loc EXCEPT ![t].minimum = 0]
    /\ Goto(t, "enter")
    /\ UNCHANGED <<shared, sawEmpty>>

Enter(t) ==
    /\ At(t, "enter")
    /\ slots' = [slots EXCEPT ![Slot(t)].active = TRUE]
    /\ \/ t \in Producers /\ allocated <= MaxPushes /\ Goto(t, "new")
       \/ t \in Consumers /\ Goto(t, "pop")
    /\ UNCHANGED <<shared, loc, sawEmpty>>

Leave(t) ==
    /\ At(t, "leave") \/ At(t, "leave_empty")
    /\ slots' = [slots EXCEPT ![Slot(t)].active = FALSE]
    /\ loc' = [loc EXCEPT ![t] = [NoLocals EXCEPT !.slot = Slot(t)]]
    /\ Goto(t, "ready")
    /\ sawEmpty' = sawEmpty \ {t}
    /\ UNCHANGED shared

-----------------------------------------------------------------------------
(* push_with_token                                                           *)

NewNode(t) ==
    /\ At(t, "new")
    /\ allocated <= MaxPushes
    /\ allocated' = allocated + 1
    /\ full' = full \cup {allocated}
    /\ loc' = [loc EXCEPT ![t].node = allocated]
    /\ Goto(t, "push")
    /\ UNCHANGED <<head, tail, next, freed, size, globalEpoch, slots, sawEmpty>>

PushLoadTail(t) ==
    /\ At(t, "push")
    /\ loc' = [loc EXCEPT ![t].tail = tail]
    /\ Goto(t, "push_next")
    /\ UNCHANGED <<shared, slots, sawEmpty>>

PushLoadNext(t) ==
    /\ At(t, "push_next")
    /\ loc' = [loc EXCEPT ![t].next = next[loc[t].tail]]
    /\ Goto(t, "push_recheck")
    /\ UNCHANGED <<shared, slots, sawEmpty>>

PushRecheck(t) ==
    /\ At(t, "push_recheck")
    /\ Goto(t, IF loc[t].tail # tail THEN "push"
               ELSE IF loc[t].next = Nil THEN "push_link" ELSE "push_help")
    /\ UNCHANGED <<shared, slots, loc, sawEmpty>>

\* A store for the compare-exchange: the link of a node that another producer
\* appended meanwhile is lost.
PushLinkBlindly(t) ==
    /\ At(t, "push_link")
    /\ next' = [next EXCEPT ![loc[t].tail] = loc[t].node]
    /\ Goto(t, "push_swing")
    /\ UNCHANGED <<head, tail, full, allocated, freed, size, globalEpoch, slots, loc, sawEmpty>>

\* tail->next.compare_exchange_weak(nullptr, node)
PushLink(t) ==
    /\ At(t, "push_link")
    /\ \/ /\ next[loc[t].tail] = Nil
          /\ next' = [next EXCEPT ![loc[t].tail] = loc[t].node]
          /\ Goto(t, "push_swing")
       \/ /\ Goto(t, "push")
          /\ UNCHANGED next
    /\ UNCHANGED <<head, tail, full, allocated, freed, size, globalEpoch, slots, loc, sawEmpty>>

\* tail_.compare_exchange_strong(tail, node): if it fails, another thread has
\* already helped.
PushSwing(t) ==
    /\ At(t, "push_swing")
    /\ tail' = IF tail = loc[t].tail THEN loc[t].node ELSE tail
    /\ Goto(t, "push_count")
    /\ UNCHANGED <<head, next, full, allocated, freed, size, globalEpoch, slots, loc, sawEmpty>>

PushCount(t) ==
    /\ At(t, "push_count")
    /\ size' = (size + 1) % SizeMod
    /\ Goto(t, "leave")
    /\ UNCHANGED <<head, tail, next, full, allocated, freed, globalEpoch, slots, loc, sawEmpty>>

\* tail_ lags behind: move it on for the thread that linked the node.
PushHelp(t) ==
    /\ At(t, "push_help")
    /\ tail' \in {tail, IF tail = loc[t].tail THEN loc[t].next ELSE tail}
    /\ Goto(t, "push")
    /\ UNCHANGED <<head, next, full, allocated, freed, size, globalEpoch, slots, loc, sawEmpty>>

-----------------------------------------------------------------------------
(* try_pop_with_token                                                        *)

PopLoadHead(t) ==
    /\ At(t, "pop")
    /\ loc' = [loc EXCEPT ![t].head = head]
    /\ Goto(t, "pop_tail")
    /\ UNCHANGED <<shared, slots, sawEmpty>>

PopLoadTail(t) ==
    /\ At(t, "pop_tail")
    /\ loc' = [loc EXCEPT ![t].tail = tail]
    /\ Goto(t, "pop_next")
    /\ UNCHANGED <<shared, slots, sawEmpty>>

PopLoadNext(t) ==
    /\ At(t, "pop_next")
    /\ loc' = [loc EXCEPT ![t].next = next[loc[t].head]]
    /\ Goto(t, "pop_recheck")
    /\ UNCHANGED <<shared, slots, sawEmpty>>

\* Empty as soon as head and tail agree, though tail_ may lag.
PopRecheckTailOnly(t) ==
    /\ At(t, "pop_recheck")
    /\ Goto(t, IF loc[t].head # head THEN "pop"
               ELSE IF loc[t].head = loc[t].tail THEN "leave_empty" ELSE "pop_claim")
    /\ UNCHANGED <<shared, slots, loc, sawEmpty>>

PopRecheck(t) ==
    /\ At(t, "pop_recheck")
    /\ Goto(t, IF loc[t].head # head THEN "pop"
               ELSE IF loc[t].next = Nil THEN "leave_empty"
               ELSE IF loc[t].head = loc[t].tail THEN "pop_help" ELSE "pop_claim")
    /\ UNCHANGED <<shared, slots, loc, sawEmpty>>

PopHelp(t) ==
    /\ At(t, "pop_help")
    /\ tail' \in {tail, IF tail = loc[t].tail THEN loc[t].next ELSE tail}
    /\ Goto(t, "pop")
    /\ UNCHANGED <<head, next, full, allocated, freed, size, globalEpoch, slots, loc, sawEmpty>>

\* head_ is stored to without being compared.
PopClaimBlindly(t) ==
    /\ At(t, "pop_claim")
    /\ head' = loc[t].next
    /\ Goto(t, "pop_take")
    /\ UNCHANGED <<tail, next, full, allocated, freed, size, globalEpoch, slots, loc>>
    /\ sawEmpty' = IF Contents' = << >> THEN Inside ELSE sawEmpty

\* head_.compare_exchange_weak(head, next)
PopClaim(t) ==
    /\ At(t, "pop_claim")
    /\ \/ /\ head = loc[t].head
          /\ head' = loc[t].next
          /\ Goto(t, "pop_take")
       \/ /\ Goto(t, "pop")
          /\ UNCHANGED head
    /\ UNCHANGED <<tail, next, full, allocated, freed, size, globalEpoch, slots, loc>>
    /\ sawEmpty' = IF Contents' = << >> THEN Inside ELSE sawEmpty

\* The value is moved out of the new first node, after the exchange.
PopTake(t) ==
    /\ At(t, "pop_take")
    /\ full' = full \ {loc[t].next}
    /\ Goto(t, "pop_count")
    /\ UNCHANGED <<head, tail, next, allocated, freed, size, globalEpoch, slots, loc, sawEmpty>>

\* fetch_sub of an unsigned counter, which a fast consumer can reach before
\* the producer's fetch_add.
PopCount(t) ==
    /\ At(t, "pop_count")
    /\ size' = (size + SizeMod - 1) % SizeMod
    /\ Goto(t, "retire")
    /\ UNCHANGED <<head, tail, next, full, allocated, freed, globalEpoch, slots, loc, sawEmpty>>

-----------------------------------------------------------------------------
(* retire_node, collect_retired and min_active_epoch                         *)

Retire(t) ==
    /\ At(t, "retire")
    /\ slots' = [slots EXCEPT ![Slot(t)].retired =
                   @ \cup {[node |-> loc[t].head, epoch |-> globalEpoch]}]
    /\ Goto(t, IF Cardinality(slots'[Slot(t)].retired) >= RetireThreshold
                 THEN "advance" ELSE "leave")
    /\ UNCHANGED <<shared, loc, sawEmpty>>

AdvanceEpoch(t) ==
    /\ At(t, "advance")
    /\ globalEpoch' = globalEpoch + 1
    /\ Goto(t, "scan_start")
    /\ UNCHANGED <<head, tail, next, full, allocated, freed, size, slots, loc, sawEmpty>>

ScanStart(t) ==
    /\ At(t, "scan_start")
    /\ loc' = [loc EXCEPT ![t].minimum = globalEpoch + 1, ![t].index = 1]
    /\ Goto(t, "scan")
    /\ UNCHANGED <<shared, slots, sawEmpty>>

\* One slot's flags (occupied changes only while active is false, so the two
\* loads act as one); its epoch is loaded by a step of its own.
ScanFlags(t) ==
    /\ At(t, "scan")
    /\ loc[t].index <= MaxThreads
    /\ LET s == slots[loc[t].index]
       IN  IF s.occupied /\ s.active
             THEN Goto(t, "scan_epoch") /\ UNCHANGED loc
             ELSE loc' = [loc EXCEPT ![t].index = loc[t].index + 1] /\ UNCHANGED pc
    /\ UNCHANGED <<shared, slots, sawEmpty>>

ScanEpoch(t) ==
    /\ At(t, "scan_epoch")
    /\ loc' = [loc EXCEPT ![t].minimum = Min({@, slots[loc[t].index].epoch}),
                          ![t].index = @ + 1]
    /\ Goto(t, "scan")
    /\ UNCHANGED <<shared, slots, sawEmpty>>

\* `<=` for `<`: nodes retired in the oldest active epoch go too.
ReclaimTooEarly(t) ==
    /\ At(t, "scan")
    /\ loc[t].index > MaxThreads
    /\ LET old == {r \in slots[Slot(t)].retired : r.epoch <= loc[t].minimum}
       IN  /\ freed' = freed \cup {r.node : r \in old}
           /\ slots' = [slots EXCEPT ![Slot(t)].retired = @ \ old]
    /\ Goto(t, "leave")
    /\ UNCHANGED <<head, tail, next, full, allocated, size, globalEpoch, loc, sawEmpty>>

\* The whole list is cleared, the nodes that are too young with it.
ReclaimForgetting(t) ==
    /\ At(t, "scan")
    /\ loc[t].index > MaxThreads
    /\ LET old == {r \in slots[Slot(t)].retired : r.epoch < loc[t].minimum}
       IN  /\ freed' = freed \cup {r.node : r \in old}
           /\ slots' = [slots EXCEPT ![Slot(t)].retired = {}]
    /\ Goto(t, "leave")
    /\ UNCHANGED <<head, tail, next, full, allocated, size, globalEpoch, loc, sawEmpty>>

Reclaim(t) ==
    /\ At(t, "scan")
    /\ loc[t].index > MaxThreads
    /\ LET old == {r \in slots[Slot(t)].retired : r.epoch < loc[t].minimum}
       IN  /\ freed' = freed \cup {r.node : r \in old}
           /\ slots' = [slots EXCEPT ![Slot(t)].retired = @ \ old]
    /\ Goto(t, "leave")
    /\ UNCHANGED <<head, tail, next, full, allocated, size, globalEpoch, loc, sawEmpty>>

-----------------------------------------------------------------------------
Push(t) ==
    \/ NewNode(t) \/ PushLoadTail(t) \/ PushLoadNext(t) \/ PushRecheck(t)
    \/ PushLink(t) \/ PushSwing(t) \/ PushCount(t) \/ PushHelp(t)
Pop(t) ==
    \/ PopLoadHead(t) \/ PopLoadTail(t) \/ PopLoadNext(t) \/ PopRecheck(t)
    \/ PopHelp(t) \/ PopClaim(t) \/ PopTake(t) \/ PopCount(t)
Collect(t) ==
    Retire(t) \/ AdvanceEpoch(t) \/ ScanStart(t) \/ ScanFlags(t) \/ ScanEpoch(t) \/ Reclaim(t)

Next ==
    \E t \in Threads :
        \/ MakeToken(t) \/ ReleaseToken(t)
        \/ Call(t) \/ StoreEpoch(t) \/ Enter(t) \/ Leave(t)
        \/ Push(t) \/ Pop(t) \/ Collect(t)

Spec == Init /\ [][Next]_vars

-----------------------------------------------------------------------------
(* Properties.                                                               *)

\* Where a thread still reads through, or compares, what it loaded from head_,
\* from tail_ and from a next.
UsesHead == {"pop_tail", "pop_next", "pop_recheck", "pop_claim", "pop_take", "pop_count", "retire"}
UsesTail == {"push_next", "push_recheck", "push_link", "push_swing", "push_help",
             "pop_next", "pop_recheck", "pop_help"}
UsesNext == {"push_recheck", "push_help", "pop_recheck", "pop_help", "pop_claim", "pop_take"}

InUse(t) ==
    (IF pc[t] \in UsesHead THEN {loc[t].head} ELSE {})
      \cup (IF pc[t] \in UsesTail THEN {loc[t].tail} ELSE {})
      \cup (IF pc[t] \in UsesNext THEN {loc[t].next} ELSE {})

\* Epoch reclamation is safe: a thread inside push or try_pop never goes on
\* with a pointer to a deleted node, neither to read the node nor to compare
\* its address in a compare_exchange, though other threads unlink and delete
\* nodes at any time.
NoStalePointer == \A t \in Threads : InUse(t) \cap freed = {}

\* First in, first out, as one list: a step appends one node, removes the
\* oldest, or leaves the contents alone.
FifoStep ==
    \/ Contents' = Contents
    \/ \E n \in Nodes : Contents' = Append(Contents, n)
    \/ Contents # << >> /\ Contents' = Tail(Contents)

FifoSteps == [][FifoStep]_vars

\* Exactly once: the consumer about to move a value out finds it there, and no
\* other consumer is about to take the same one; what is still in the queue has
\* its value.
TakenOnce ==
    /\ \A t \in Threads : At(t, "pop_take") =>
          /\ loc[t].next \in full
          /\ \A u \in Threads \ {t} : At(u, "pop_take") => loc[u].next # loc[t].next
    /\ \A i \in DOMAIN Contents : Contents[i] \in full

\* try_pop returns nothing only if the queue was empty at some moment of the
\* call.
EmptyAnswersAreTrue == \A t \in Threads : At(t, "leave_empty") => t \in sawEmpty

\* The nodes of the list, those that wait in a slot for their reclamation, and
\* the one that only thread t knows of or is to retire.
Listed == {head} \cup {Contents[i] : i \in DOMAIN Contents}
Waiting(s) == {r.node : r \in slots[s].retired}
Private(t) ==
    IF pc[t] \in {"push", "push_next", "push_recheck", "push_link", "push_help"} THEN {loc[t].node}
    ELSE IF pc[t] \in {"pop_take", "pop_count", "retire"} THEN {loc[t].head} ELSE {}

\* The threads whose push is linked and whose pop is claimed, but not counted.
Linked == {t \in Threads : pc[t] \in {"push_swing", "push_count"}}
Claimed == {t \in Threads : pc[t] \in {"pop_take", "pop_count"}}

\* No node is leaked or deleted twice: each one ever allocated is in the list,
\* waits once in one slot for its reclamation, is in the hands of one thread, or
\* is deleted.  And size_ is off by the pushes linked but not counted yet and the
\* pops claimed but not counted yet, and by nothing else, although its updates
\* come in any order and take it below zero on the way.
NodesAccounted ==
    /\ Listed \cup freed \cup (UNION {Waiting(s) : s \in Slots}) \cup (UNION {Private(t) : t \in Threads})
         = 0..allocated - 1
    /\ Listed \cap freed = {}
    /\ \A s \in Slots : Waiting(s) \cap (Listed \cup freed) = {}
    /\ \A t \in Threads : Private(t) \cap (Listed \cup freed) = {}
    /\ \A s \in Slots, t \in Threads : Waiting(s) \cap Private(t) = {}
    /\ \A s, u \in Slots : s # u => Waiting(s) \cap Waiting(u) = {}
    /\ \A t, u \in Threads : t # u => Private(t) \cap Private(u) = {}
    /\ \A s \in Slots : \A r, q \in slots[s].retired : r.node = q.node => r = q
    /\ (size + Cardinality(Linked)) % SizeMod = (Len(Contents) + Cardinality(Claimed)) % SizeMod

=============================================================================

----------------------- MODULE MpmcLinkedQueueProofs -----------------------
(* What holds of the queue for any threads, slots, retire threshold and      *)
(* number of pushes, as long as no thread that pops gives its token back:    *)
(* the list is never broken, and no thread goes on with a deleted node.      *)
EXTENDS MpmcLinkedQueue, FiniteSetTheorems, WellFoundedInduction, TLAPS

-----------------------------------------------------------------------------
(* The inductive invariant.                                                  *)

\* Inside try_pop, retire_node and collect_retired; inside push.
Popping == {"pop", "pop_tail", "pop_next", "pop_recheck", "pop_help", "pop_claim", "pop_take",
            "pop_count", "retire", "advance", "scan_start", "scan", "scan_epoch", "leave_empty"}
Pushing == {"new", "push", "push_next", "push_recheck", "push_link", "push_swing", "push_count",
            "push_help"}
\* Under the guard of an active slot, and not.
Critical == Popping \cup Pushing \cup {"leave"}
Steps == Critical \cup {"outside", "ready", "store_epoch", "enter"}

\* With a node that is not linked yet.
Unlinked == {"push", "push_next", "push_recheck", "push_link", "push_help"}

Pointers == Nodes \cup {Nil}
Locals == [slot : Nat, node : Pointers, head : Pointers, tail : Pointers, next : Pointers,
           index : Nat, minimum : Nat]
SlotRecords == [occupied : BOOLEAN, active : BOOLEAN, epoch : Nat,
                retired : SUBSET [node : Nodes, epoch : Nat]]

TypeOK ==
    /\ allocated \in 1..MaxPushes + 1
    /\ freed \in SUBSET Nodes
    /\ globalEpoch \in Nat
    /\ slots \in [Slots -> SlotRecords]
    /\ pc \in [Threads -> Steps]
    /\ loc \in [Threads -> Locals]

\* A thread with a token has a slot of its own, which is active while it is
\* inside and announces an epoch that has been reached; only threads that pop
\* retire nodes.
TokenOK(t) ==
    /\ pc[t] # "outside" => Slot(t) \in Slots /\ slots[Slot(t)].occupied
    /\ pc[t] = "store_epoch" => loc[t].minimum <= globalEpoch
    /\ pc[t] \in Critical \cup {"enter"} => slots[Slot(t)].epoch <= globalEpoch
    /\ pc[t] \in Critical => slots[Slot(t)].active
    /\ pc[t] \in {"scan", "scan_epoch"} => loc[t].index # 0
    /\ pc[t] = "scan_epoch" => loc[t].index \in Slots
    /\ pc[t] \in Popping => t \in Consumers
    /\ t \notin Consumers /\ pc[t] # "outside" => slots[Slot(t)].retired = {}

TokensOK ==
    /\ \A t \in Threads : TokenOK(t)
    /\ \A t, u \in Threads :
          t # u /\ pc[t] # "outside" /\ pc[u] # "outside" => Slot(t) # Slot(u)

\* rank numbers the nodes in the order they were linked, up to top, with 0 for
\* those that were not.
Numbers(rank, top) ==
    /\ top \in Nat
    /\ rank \in [Nodes -> 0..top]
    /\ \A m, n \in Nodes : rank[m] = rank[n] /\ rank[m] # 0 => m = n
    /\ \A k \in 1..top : \E n \in Nodes : rank[n] = k

\* links leads from each node to the one linked after it.
Joins(links, rank, top) ==
    /\ links \in [Nodes -> Pointers]
    /\ \A n \in Nodes : IF rank[n] \in 1..top - 1
                          THEN links[n] \in Nodes /\ rank[links[n]] = rank[n] + 1
                          ELSE links[n] = Nil

\* The nodes are linked in the order of their numbers; tail_ is not behind head_.
ListOK(rank, top) ==
    /\ Numbers(rank, top)
    /\ Joins(next, rank, top)
    /\ \A n \in Nodes : rank[n] # 0 => n < allocated
    /\ head \in Nodes /\ rank[head] # 0
    /\ tail \in Nodes /\ rank[head] <= rank[tail]

\* What thread t knows of the list.
LocalOK(rank, t) ==
    LET here == pc[t]
        l == loc[t]
    IN  /\ here \in UsesTail => l.tail \in Nodes /\ rank[l.tail] # 0 /\ rank[l.tail] <= rank[tail]
        /\ here \in {"push_recheck", "push_help"} => l.next \in {Nil, next[l.tail]}
        /\ here = "push_help" => l.next # Nil
        /\ here = "push_swing" => l.node \in Nodes /\ next[l.tail] = l.node
        /\ here \in Unlinked => l.node \in Nodes /\ rank[l.node] = 0 /\ l.node < allocated
        /\ here \in UsesHead => l.head \in Nodes /\ rank[l.head] # 0 /\ rank[l.head] <= rank[head]
        /\ here \in {"pop_next", "pop_recheck"} => rank[l.head] <= rank[l.tail]
        /\ here \in {"pop_recheck", "pop_claim", "pop_take"} => l.next \in {Nil, next[l.head]}
        /\ here = "pop_help" => l.next = next[l.tail]
        /\ here \in {"pop_help", "pop_claim", "pop_take"} => l.next # Nil
        /\ here = "pop_claim" => rank[l.head] < rank[tail]
        /\ here \in {"pop_take", "pop_count", "retire"} => rank[l.head] < rank[head]

\* The nodes being pushed are different ones.
NodesApart ==
    \A t, u \in Threads :
        t # u /\ pc[t] \in Unlinked /\ pc[u] \in Unlinked => loc[t].node # loc[u].node

\* Node n was linked before all that t uses.
Before(rank, n, t) == \A p \in InUse(t) \ {Nil} : rank[n] < rank[p]

\* A node is deleted, or waits for it, only when it is off the list.  What t uses
\* is younger than all deleted nodes, and younger than those that wait and were
\* retired before the epoch t announces.  A scan has accounted for the threads
\* of the slots it has passed: their epoch is not below its minimum, or they use
\* nothing that the scan may delete.
ReclamationOK(rank) ==
    /\ \A n \in freed : rank[n] # 0 /\ rank[n] < rank[head]
    /\ \A s \in Slots : \A r \in slots[s].retired :
          rank[r.node] # 0 /\ rank[r.node] < rank[head]
    /\ \A t \in Threads : \A n \in freed : Before(rank, n, t)
    /\ \A t \in Threads, s \in Slots : \A r \in slots[s].retired :
          Before(rank, r.node, t) \/ slots[Slot(t)].epoch <= r.epoch
    /\ \A t, u \in Threads :
          /\ pc[t] \in {"scan", "scan_epoch"}
          /\ pc[u] \in Critical /\ Slot(u) < loc[t].index
          => \/ loc[t].minimum <= slots[Slot(u)].epoch
             \/ \A r \in slots[Slot(t)].retired : Before(rank, r.node, u)

SafeInv(rank, top) ==
    /\ TypeOK /\ TokensOK /\ NodesApart
    /\ ListOK(rank, top)
    /\ \A t \in Threads : LocalOK(rank, t)
    /\ ReclamationOK(rank)

-----------------------------------------------------------------------------
(* Types.                                                                    *)

\* A non-empty set of numbers has a least element.
LEMMA LeastExists ==
    ASSUME NEW S \in SUBSET Nat, S # {}
    PROVE  \E x \in S : \A y \in S : x <= y
<1>1. PICK R : R = OpToRel(<, Nat)
      OBVIOUS
<1>2. IsWellFoundedOn(R, Nat)
      BY <1>1, NatLessThanWellFounded
<1>3. PICK x \in S : \A y \in S : ~(<<y, x>> \in R)
      BY <1>2, WFMin
<1>4. ASSUME NEW y \in S, y < x PROVE <<y, x>> \in R
      BY <1>1, <1>4 DEF OpToRel
<1>5. \A y \in S : ~(y < x)
      BY <1>3, <1>4
<1> QED BY <1>5, SMT

\* Min picks an element.
LEMMA MinExists ==
    ASSUME NEW S \in SUBSET Nat, S # {}
    PROVE  Min(S) \in S
  BY LeastExists DEF Min

\* The slot a new token gets is one that nobody has.
LEMMA VacantSlot ==
    ASSUME TypeOK, NEW t \in Threads, MakeToken(t)
    PROVE  \E s \in Slots :
              /\ ~slots[s].occupied
              /\ slots' = [slots EXCEPT ![s] =
                             [@ EXCEPT !.occupied = TRUE, !.retired = {}, !.epoch = globalEpoch]]
              /\ loc' = [loc EXCEPT ![t].slot = s]
<1> DEFINE vacant == {s \in Slots : ~slots[s].occupied}
<1>1. vacant \in SUBSET Nat /\ vacant # {}
      BY ThreadsAssumption DEF MakeToken, Slots
<1>2. Min(vacant) \in vacant
      BY <1>1, MinExists
<1>3. /\ slots' = [slots EXCEPT ![Min(vacant)] =
                     [@ EXCEPT !.occupied = TRUE, !.retired = {}, !.epoch = globalEpoch]]
      /\ loc' = [loc EXCEPT ![t].slot = Min(vacant)]
      BY DEF MakeToken
<1> HIDE DEF vacant
<1>4. PICK s : s = Min(vacant)
      OBVIOUS
<1> QED BY <1>2, <1>3, <1>4 DEF vacant

\* Nil is no node.
LEMMA NilIsNoNode == Nil \notin Nodes /\ MaxPushes \in Nat /\ Nodes \subseteq Nat
  BY BoundsAssumption DEF Nil, Nodes

\* The node after a linked one, once there is one, is linked next.
LEMMA NextIsLinked ==
    ASSUME NEW rank, NEW top, ListOK(rank, top), NEW n \in Nodes, rank[n] # 0, next[n] # Nil
    PROVE  next[n] \in Nodes /\ rank[next[n]] = rank[n] + 1
  BY DEF ListOK, Numbers, Joins

\* What a thread uses is linked.
LEMMA UsedAreLinked ==
    ASSUME NEW rank, NEW top, ListOK(rank, top), NEW t \in Threads, LocalOK(rank, t)
    PROVE  \A p \in InUse(t) \ {Nil} : p \in Nodes /\ rank[p] # 0
<1>1. pc[t] \in UsesHead => loc[t].head \in Nodes /\ rank[loc[t].head] # 0
      BY DEF LocalOK
<1>2. pc[t] \in UsesTail => loc[t].tail \in Nodes /\ rank[loc[t].tail] # 0
      BY DEF LocalOK
<1>3. ASSUME pc[t] \in UsesNext, loc[t].next # Nil
      PROVE  loc[t].next \in Nodes /\ rank[loc[t].next] # 0
  <2>1. \/ pc[t] \in UsesTail /\ loc[t].next = next[loc[t].tail]
        \/ pc[t] \in UsesHead /\ loc[t].next = next[loc[t].head]
        BY <1>3 DEF LocalOK, UsesNext, UsesHead, UsesTail
  <2>2. rank \in [Nodes -> Nat]
        BY DEF ListOK, Numbers, Joins
  <2> QED BY <1>1, <1>2, <1>3, <2>1, <2>2, NextIsLinked
<1> QED BY <1>1, <1>2, <1>3 DEF InUse

\* Where a thread is and what it has, beside t, is left alone.
Others(t) == \A u \in Threads \ {t} : pc'[u] = pc[u] /\ loc'[u] = loc[u]

\* A step of t inside push or try_pop that may extend the list and move head_
\* and tail_ on, but leaves slots, epochs and deleted nodes alone, keeps the
\* invariant if what t comes to use is no older than head_ or than something it
\* used before.
LEMMA InsideStep ==
    ASSUME NEW rank, NEW top, SafeInv(rank, top),
           NEW rank2, NEW top2, ListOK(rank2, top2)',
           NEW t \in Threads, Others(t),
           \A n \in Nodes : rank[n] # 0 => rank2[n] = rank[n],
           rank[head] <= rank2[head'], rank[tail] <= rank2[tail'],
           \A n \in Nodes : next[n] # Nil => next'[n] = next[n],
           allocated' \in allocated..MaxPushes + 1,
           UNCHANGED <<freed, globalEpoch, slots>>,
           pc' \in [Threads -> Steps], loc' \in [Threads -> Locals],
           pc[t] \in Critical, pc'[t] \in Critical \ {"scan", "scan_epoch"},
           pc'[t] \in Popping => pc[t] \in Popping,
           loc'[t].slot = loc[t].slot,
           NodesApart', LocalOK(rank2, t)',
           \A u \in Threads \ {t} : pc[u] \in Unlinked => rank2[loc[u].node] = 0,
           \A n \in Nodes : rank[n] # 0 /\ rank[n] < rank[head] /\ Before(rank, n, t)
                              => Before(rank2, n, t)'
    PROVE  SafeInv(rank2, top2)'
<1>1. TypeOK'
      BY DEF SafeInv, TypeOK
<1>2. TokensOK'
  <2>1. \A u \in Threads : Slot(u)' = Slot(u)
        BY DEF Slot, Others
  <2>2. \A u \in Threads : pc'[u] # "outside" <=> pc[u] # "outside"
        BY DEF Others, Critical, Popping, Pushing
  <2>3. ASSUME NEW u \in Threads
        PROVE  /\ pc'[u] # "outside" => Slot(u) \in Slots /\ slots[Slot(u)].occupied
               /\ pc'[u] = "store_epoch" => loc'[u].minimum <= globalEpoch
               /\ pc'[u] \in Critical \cup {"enter"} => slots[Slot(u)].epoch <= globalEpoch
               /\ pc'[u] \in Critical => slots[Slot(u)].active
               /\ pc'[u] \in {"scan", "scan_epoch"} => loc'[u].index # 0
               /\ pc'[u] = "scan_epoch" => loc'[u].index \in Slots
               /\ pc'[u] \in Popping => u \in Consumers
               /\ u \notin Consumers /\ pc'[u] # "outside" => slots[Slot(u)].retired = {}
    <3>1. CASE u = t
          BY <2>2, <3>1 DEF SafeInv, TokensOK, TokenOK, Critical, Popping, Pushing
    <3>2. CASE u # t
          BY <3>2 DEF SafeInv, TokensOK, TokenOK, Others
    <3> QED BY <3>1, <3>2
  <2>4. \A u, v \in Threads :
            u # v /\ pc'[u] # "outside" /\ pc'[v] # "outside" => Slot(u) # Slot(v)
        BY <2>2 DEF SafeInv, TokensOK, TokenOK
  <2> QED BY <2>1, <2>3, <2>4 DEF TokensOK, TokenOK
<1>3. ASSUME NEW u \in Threads PROVE LocalOK(rank2, u)'
  <2>1. CASE u = t
        BY <2>1
  <2>2. CASE u # t
    <3>1. pc'[u] = pc[u] /\ loc'[u] = loc[u] /\ LocalOK(rank, u)
          BY <2>2 DEF Others, SafeInv
    <3>2. pc[u] \in Unlinked => rank2[loc[u].node] = 0
          BY <2>2
    <3>3. /\ rank \in [Nodes -> Nat] /\ rank2 \in [Nodes -> Nat]
          /\ {head, tail, head', tail'} \subseteq Nodes
          BY DEF SafeInv, ListOK, Numbers, Joins
    <3>4. allocated <= allocated' /\ allocated \in Nat /\ allocated' \in Nat /\ Nodes \subseteq Nat
          BY NilIsNoNode DEF SafeInv, TypeOK
    <3> DEFINE here == pc[u]
               l == loc[u]
    <3>5. here \in UsesTail => /\ l.tail \in Nodes /\ rank[l.tail] # 0 /\ rank2[l.tail] = rank[l.tail]
                               /\ rank2[l.tail] <= rank2[tail']
                               /\ next[l.tail] # Nil => next'[l.tail] = next[l.tail]
          BY <3>1, <3>3 DEF LocalOK
    <3>6. here \in UsesHead => /\ l.head \in Nodes /\ rank[l.head] # 0 /\ rank2[l.head] = rank[l.head]
                               /\ rank2[l.head] <= rank2[head']
                               /\ next[l.head] # Nil => next'[l.head] = next[l.head]
          BY <3>1, <3>3 DEF LocalOK
    <3>7. here \in Unlinked => l.node \in Nodes /\ rank2[l.node] = 0 /\ l.node < allocated'
      <4>1. here \in Unlinked => l.node \in Nodes /\ l.node < allocated
            BY <3>1 DEF LocalOK
      <4>2. ASSUME NEW n \in Nodes, n < allocated PROVE n < allocated'
        <5>1. n \in Nat
              BY <3>4
        <5> QED BY <3>4, <4>2, <5>1
      <4> QED BY <3>2, <4>1, <4>2
    <3>8. /\ here \in {"push_recheck", "push_help"} => l.next \in {Nil, next'[l.tail]}
          /\ here = "push_help" => l.next # Nil
          /\ here = "push_swing" => l.node \in Nodes /\ next'[l.tail] = l.node
          BY <3>1, <3>5, NilIsNoNode DEF LocalOK, UsesTail
    <3>9. /\ here \in {"pop_next", "pop_recheck"} => rank2[l.head] <= rank2[l.tail]
          /\ here \in {"pop_recheck", "pop_claim", "pop_take"} => l.next \in {Nil, next'[l.head]}
          /\ here = "pop_help" => l.next = next'[l.tail]
          /\ here \in {"pop_help", "pop_claim", "pop_take"} => l.next # Nil
          BY <3>1, <3>5, <3>6 DEF LocalOK, UsesTail, UsesHead
    <3>10. /\ here = "pop_claim" => rank2[l.head] < rank2[tail']
           /\ here \in {"pop_take", "pop_count", "retire"} => rank2[l.head] < rank2[head']
          BY <3>1, <3>3, <3>6 DEF LocalOK, UsesHead
    <3> QED BY <3>1, <3>5, <3>6, <3>7, <3>8, <3>9, <3>10 DEF LocalOK
  <2> QED BY <2>1, <2>2
<1>4. ASSUME NEW u \in Threads, NEW n \in Nodes, rank[n] # 0, rank[n] < rank[head], Before(rank, n, u)
      PROVE  Before(rank2, n, u)'
  <2>1. CASE u = t
        BY <1>4, <2>1
  <2>2. CASE u # t
    <3>1. InUse(u)' = InUse(u)
          BY <2>2 DEF InUse, Others
    <3>2. \A p \in InUse(u) \ {Nil} : p \in Nodes /\ rank[p] # 0
          BY UsedAreLinked DEF SafeInv
    <3> QED BY <1>4, <3>1, <3>2 DEF Before
  <2> QED BY <2>1, <2>2
<1>5. ReclamationOK(rank2)'
  <2>1. \A u \in Threads : Slot(u)' = Slot(u)
        BY DEF Slot, Others
  <2>2. \A n \in freed' : rank2[n] # 0 /\ rank2[n] < rank2[head']
        BY DEF SafeInv, ReclamationOK, ListOK, Numbers, Joins, TypeOK
  <2>3. \A s \in Slots : \A r \in slots[s].retired :
            r.node \in Nodes /\ rank[r.node] # 0 /\ rank[r.node] < rank[head]
        BY DEF SafeInv, ReclamationOK, TypeOK, SlotRecords
  <2>4. \A s \in Slots : \A r \in slots[s].retired : rank2[r.node] # 0 /\ rank2[r.node] < rank2[head']
        BY <2>3 DEF SafeInv, ListOK, Numbers, Joins
  <2>5. \A u \in Threads : \A n \in freed' : Before(rank2, n, u)'
        BY <1>4 DEF SafeInv, ReclamationOK, TypeOK
  <2>6. \A u \in Threads, s \in Slots : \A r \in slots'[s].retired :
            Before(rank2, r.node, u)' \/ slots'[Slot(u)'].epoch <= r.epoch
        BY <1>4, <2>1, <2>3 DEF SafeInv, ReclamationOK
  <2>7. ASSUME NEW u \in Threads, NEW v \in Threads, pc'[u] \in {"scan", "scan_epoch"},
               pc'[v] \in Critical, Slot(v)' < loc'[u].index
        PROVE  \/ loc'[u].minimum <= slots'[Slot(v)'].epoch
               \/ \A r \in slots'[Slot(u)'].retired : Before(rank2, r.node, v)'
    <3>1. u # t /\ pc[u] = pc'[u] /\ loc'[u] = loc[u]
          BY <2>7 DEF Others
    <3>2. pc[v] \in Critical
          BY <2>7 DEF Others
    <3>3. Slot(u) \in Slots
          BY <2>7, <3>1 DEF SafeInv, TokensOK, TokenOK
    <3>4. \/ loc[u].minimum <= slots[Slot(v)].epoch
          \/ \A r \in slots[Slot(u)].retired : Before(rank, r.node, v)
          BY <2>1, <2>7, <3>1, <3>2 DEF SafeInv, ReclamationOK
    <3> QED BY <1>4, <2>1, <2>3, <3>1, <3>3, <3>4
  <2> QED BY <2>2, <2>4, <2>5, <2>6, <2>7 DEF ReclamationOK
<1> QED BY <1>1, <1>2, <1>3, <1>5 DEF SafeInv

-----------------------------------------------------------------------------
(* The steps of push.                                                        *)

\* What a step inside push or try_pop leaves alone, when it only loads.
Loads(t, there) ==
    /\ Goto(t, there)
    /\ UNCHANGED <<head, tail, next, allocated, freed, globalEpoch, slots>>

\* A step of t that only loads keeps the invariant if it keeps what t knows.
LEMMA LoadStep ==
    ASSUME NEW rank, NEW top, SafeInv(rank, top),
           NEW t \in Threads, NEW there, Loads(t, there),
           pc[t] \in Critical, there \in Critical \ {"scan", "scan_epoch"},
           there \in Popping => pc[t] \in Popping,
           there \in Unlinked => pc[t] \in Unlinked,
           NEW l \in Locals, loc' = [loc EXCEPT ![t] = l],
           l.slot = loc[t].slot, l.node = loc[t].node,
           LocalOK(rank, t)',
           \A p \in InUse(t)' \ {Nil} :
              /\ p \in Nodes
              /\ rank[head] <= rank[p] \/ \E q \in InUse(t) \ {Nil} : rank[q] <= rank[p]
    PROVE  SafeInv(rank, top)'
<1>1. /\ pc' \in [Threads -> Steps] /\ loc' \in [Threads -> Locals]
      /\ pc'[t] = there /\ loc'[t] = l /\ Others(t)
      BY DEF Loads, Goto, Others, SafeInv, TypeOK, Steps
<1>2. ListOK(rank, top)' /\ head' = head /\ tail' = tail /\ next' = next
      BY DEF Loads, SafeInv, ListOK, Numbers, Joins
<1>3. rank \in [Nodes -> Nat] /\ {head, tail} \subseteq Nodes
      BY DEF SafeInv, ListOK, Numbers, Joins
<1>4. /\ \A n \in Nodes : rank[n] # 0 => rank[n] = rank[n]
      /\ rank[head] <= rank[head'] /\ rank[tail] <= rank[tail']
      /\ \A n \in Nodes : next[n] # Nil => next'[n] = next[n]
      BY <1>2, <1>3
<1>5. allocated' \in allocated..MaxPushes + 1 /\ UNCHANGED <<freed, globalEpoch, slots>>
      BY BoundsAssumption DEF Loads, SafeInv, TypeOK
<1>6. NodesApart'
      BY <1>1 DEF SafeInv, NodesApart, Others
<1>7. \A u \in Threads \ {t} : pc[u] \in Unlinked => rank[loc[u].node] = 0
      BY DEF SafeInv, LocalOK
<1>8. ASSUME NEW n \in Nodes, rank[n] # 0, rank[n] < rank[head], Before(rank, n, t)
      PROVE  Before(rank, n, t)'
  <2>1. \A q \in InUse(t) \ {Nil} : q \in Nodes
        BY UsedAreLinked DEF SafeInv
  <2>2. \A p \in InUse(t)' \ {Nil} : rank[n] < rank[p]
        BY <1>3, <1>8, <2>1 DEF Before
  <2> QED BY <2>2 DEF Before
<1> QED BY <1>1, <1>2, <1>4, <1>5, <1>6, <1>7, <1>8, InsideStep

\* The places LoadStep asks about, for a step of push and for one of try_pop.
LEMMA PlaceFacts ==
    /\ Pushing \cup {"leave"} \subseteq Critical \ {"scan", "scan_epoch"}
    /\ Unlinked \subseteq Pushing
    /\ Popping \subseteq Critical
    /\ Popping \cap Pushing = {} /\ "leave" \notin Popping \cup Pushing
  BY DEF Pushing, Popping, Critical, Unlinked

\* The facts about head_ and tail_ that every step of push and try_pop may use.
LEMMA EndsFacts ==
    ASSUME NEW rank, NEW top, SafeInv(rank, top)
    PROVE  /\ rank \in [Nodes -> Nat]
           /\ head \in Nodes /\ rank[head] # 0 /\ rank[head] <= rank[tail]
           /\ tail \in Nodes /\ rank[tail] # 0
           /\ next \in [Nodes -> Pointers]
  BY DEF SafeInv, ListOK, Numbers, Joins

\* push loads tail_: the thread now uses the node that is the tail.
LEMMA PushLoadTailSafe ==
    ASSUME NEW rank, NEW top, SafeInv(rank, top), NEW t \in Threads, PushLoadTail(t)
    PROVE  SafeInv(rank, top)'
<1> DEFINE l == [loc[t] EXCEPT !.tail = tail]
<1>1. pc[t] = "push" /\ loc[t] \in Locals /\ LocalOK(rank, t)
      BY DEF PushLoadTail, At, SafeInv, TypeOK
<1>2. /\ Loads(t, "push_next") /\ loc' = [loc EXCEPT ![t] = l]
      BY DEF PushLoadTail, Loads, shared
<1>3. /\ l \in Locals /\ l.tail = tail /\ l.slot = loc[t].slot /\ l.node = loc[t].node
      BY <1>1, EndsFacts DEF Locals, Pointers
<1> HIDE DEF l
<1>4. pc'[t] = "push_next" /\ loc'[t] = l /\ UNCHANGED <<head, tail, next, allocated>>
      BY <1>2 DEF Loads, Goto, SafeInv, TypeOK
<1>5. LocalOK(rank, t)'
      BY <1>1, <1>3, <1>4, EndsFacts DEF LocalOK, UsesHead, UsesTail, Unlinked
<1>6. InUse(t)' = {tail}
      BY <1>3, <1>4 DEF InUse, UsesHead, UsesTail, UsesNext
<1> QED BY <1>1, <1>2, <1>3, <1>5, <1>6, LoadStep, EndsFacts
           DEF Critical, Pushing, Popping, Unlinked

\* push loads the next pointer of the tail it loaded.
LEMMA PushLoadNextSafe ==
    ASSUME NEW rank, NEW top, SafeInv(rank, top), NEW t \in Threads, PushLoadNext(t)
    PROVE  SafeInv(rank, top)'
<1> DEFINE l == [loc[t] EXCEPT !.next = next[loc[t].tail]]
<1>1. pc[t] = "push_next" /\ loc[t] \in Locals /\ LocalOK(rank, t)
      BY DEF PushLoadNext, At, SafeInv, TypeOK
<1>2. /\ Loads(t, "push_recheck") /\ loc' = [loc EXCEPT ![t] = l]
      BY DEF PushLoadNext, Loads, shared
<1>3. loc[t].tail \in Nodes /\ rank[loc[t].tail] # 0 /\ rank[loc[t].tail] <= rank[tail]
      BY <1>1 DEF LocalOK, UsesTail
<1>4. /\ l \in Locals /\ l.next = next[loc[t].tail] /\ l.tail = loc[t].tail
      /\ l.slot = loc[t].slot /\ l.node = loc[t].node
      BY <1>1, <1>3, EndsFacts DEF Locals
<1> HIDE DEF l
<1>5. pc'[t] = "push_recheck" /\ loc'[t] = l /\ UNCHANGED <<head, tail, next, allocated>>
      BY <1>2 DEF Loads, Goto, SafeInv, TypeOK
<1>6. LocalOK(rank, t)'
      BY <1>1, <1>3, <1>4, <1>5 DEF LocalOK, UsesHead, UsesTail, Unlinked
<1>7. InUse(t) = {loc[t].tail} /\ InUse(t)' = {loc[t].tail, next[loc[t].tail]}
      BY <1>1, <1>4, <1>5 DEF InUse, UsesHead, UsesTail, UsesNext
<1>8. next[loc[t].tail] # Nil =>
         next[loc[t].tail] \in Nodes /\ rank[next[loc[t].tail]] = rank[loc[t].tail] + 1
      BY <1>3, NextIsLinked DEF SafeInv
<1>9. loc[t].tail # Nil
      BY <1>3, NilIsNoNode
<1>10. \A p \in InUse(t)' \ {Nil} :
           p \in Nodes /\ \E q \in InUse(t) \ {Nil} : rank[q] <= rank[p]
      BY <1>3, <1>7, <1>8, <1>9, EndsFacts
<1> QED BY <1>1, <1>2, <1>4, <1>6, <1>10, LoadStep
           DEF Critical, Pushing, Popping, Unlinked

\* A step of t that changes where it is and nothing else the invariant is about
\* keeps the invariant if t's knowledge is enough for the new place.
LEMMA QuietStep ==
    ASSUME NEW rank, NEW top, SafeInv(rank, top),
           NEW t \in Threads, NEW there, Loads(t, there), loc' = loc,
           pc[t] \in Critical, there \in Critical \ {"scan", "scan_epoch"},
           there \in Popping => pc[t] \in Popping,
           there \in Unlinked => pc[t] \in Unlinked,
           LocalOK(rank, t)', InUse(t)' \subseteq InUse(t)
    PROVE  SafeInv(rank, top)'
<1>1. loc[t] \in Locals /\ loc' = [loc EXCEPT ![t] = loc[t]]
      BY DEF SafeInv, TypeOK
<1>2. \A p \in InUse(t)' \ {Nil} :
          p \in Nodes /\ \E q \in InUse(t) \ {Nil} : rank[q] <= rank[p]
      BY UsedAreLinked, EndsFacts DEF SafeInv
<1> QED BY <1>1, <1>2, LoadStep

\* push compares tail_ with what it loaded, and goes on or starts again.
LEMMA PushRecheckSafe ==
    ASSUME NEW rank, NEW top, SafeInv(rank, top), NEW t \in Threads, PushRecheck(t)
    PROVE  SafeInv(rank, top)'
<1>1. pc[t] = "push_recheck" /\ LocalOK(rank, t)
      BY DEF PushRecheck, At, SafeInv
<1>2. PICK there \in {"push", "push_link", "push_help"} :
          /\ Loads(t, there) /\ loc' = loc
          /\ there = "push_help" => loc[t].next # Nil
      BY DEF PushRecheck, Loads, shared
<1>3. pc'[t] = there /\ UNCHANGED <<head, tail, next, allocated>>
      BY <1>2 DEF Loads, Goto, SafeInv, TypeOK
<1>4. LocalOK(rank, t)'
      BY <1>1, <1>2, <1>3 DEF LocalOK, UsesHead, UsesTail, Unlinked
<1>5. InUse(t)' \subseteq InUse(t)
      BY <1>1, <1>2, <1>3 DEF InUse, UsesHead, UsesTail, UsesNext
<1> QED BY <1>1, <1>2, <1>4, <1>5, QuietStep DEF Critical, Pushing, Popping, Unlinked

\* push counts its value and is done with its pointers.
LEMMA PushCountSafe ==
    ASSUME NEW rank, NEW top, SafeInv(rank, top), NEW t \in Threads, PushCount(t)
    PROVE  SafeInv(rank, top)'
<1>1. pc[t] = "push_count" /\ Loads(t, "leave") /\ loc' = loc
      BY DEF PushCount, At, Loads
<1>2. pc'[t] = "leave"
      BY <1>1 DEF Loads, Goto, SafeInv, TypeOK
<1>3. LocalOK(rank, t)' /\ InUse(t)' \subseteq InUse(t)
      BY <1>2 DEF LocalOK, InUse, UsesHead, UsesTail, UsesNext, Unlinked
<1> QED BY <1>1, <1>3, QuietStep DEF Critical, Pushing, Popping, Unlinked

\* try_pop compares head_ with what it loaded, and goes on, helps or starts again.
LEMMA PopRecheckSafe ==
    ASSUME NEW rank, NEW top, SafeInv(rank, top), NEW t \in Threads, PopRecheck(t)
    PROVE  SafeInv(rank, top)'
<1>1. pc[t] = "pop_recheck" /\ LocalOK(rank, t)
      BY DEF PopRecheck, At, SafeInv
<1>2. PICK there \in {"pop", "leave_empty", "pop_help", "pop_claim"} :
          /\ Loads(t, there) /\ loc' = loc
          /\ there = "pop_help" => loc[t].next # Nil /\ loc[t].head = loc[t].tail
          /\ there = "pop_claim" => loc[t].next # Nil /\ loc[t].head # loc[t].tail
      BY DEF PopRecheck, Loads, shared
<1>3. pc'[t] = there /\ UNCHANGED <<head, tail, next, allocated>>
      BY <1>2 DEF Loads, Goto, SafeInv, TypeOK
<1>4. /\ loc[t].head \in Nodes /\ rank[loc[t].head] # 0 /\ rank[loc[t].head] <= rank[loc[t].tail]
      /\ loc[t].tail \in Nodes /\ rank[loc[t].tail] <= rank[tail]
      BY <1>1 DEF LocalOK, UsesHead, UsesTail
<1>5. loc[t].head # loc[t].tail => rank[loc[t].head] < rank[tail]
  <2>1. \A m, n \in Nodes : rank[m] = rank[n] /\ rank[m] # 0 => m = n
        BY DEF SafeInv, ListOK, Numbers, Joins
  <2> QED BY <1>4, <2>1, EndsFacts
<1>6. LocalOK(rank, t)'
      BY <1>1, <1>2, <1>3, <1>5 DEF LocalOK, UsesHead, UsesTail, Unlinked
<1>7. InUse(t)' \subseteq InUse(t)
      BY <1>1, <1>2, <1>3 DEF InUse, UsesHead, UsesTail, UsesNext
<1> QED BY <1>1, <1>2, <1>6, <1>7, QuietStep DEF Critical, Pushing, Popping, Unlinked

\* try_pop moves the value out of the node it claimed and counts it.
LEMMA PopTakeSafe ==
    ASSUME NEW rank, NEW top, SafeInv(rank, top), NEW t \in Threads, PopTake(t) \/ PopCount(t)
    PROVE  SafeInv(rank, top)'
<1>1. PICK there \in {"pop_count", "retire"} :
          /\ pc[t] \in {"pop_take", "pop_count"} /\ Loads(t, there) /\ loc' = loc
      BY DEF PopTake, PopCount, At, Loads
<1>2. pc'[t] = there /\ UNCHANGED <<head, tail, next, allocated>> /\ LocalOK(rank, t)
      BY <1>1 DEF Loads, Goto, SafeInv, TypeOK
<1>3. LocalOK(rank, t)'
      BY <1>1, <1>2 DEF LocalOK, UsesHead, UsesTail, Unlinked
<1>4. InUse(t)' \subseteq InUse(t)
      BY <1>1, <1>2 DEF InUse, UsesHead, UsesTail, UsesNext
<1> QED BY <1>1, <1>3, <1>4, QuietStep DEF Critical, Pushing, Popping, Unlinked

\* try_pop loads head_: the thread now uses the node that is the head.
LEMMA PopLoadHeadSafe ==
    ASSUME NEW rank, NEW top, SafeInv(rank, top), NEW t \in Threads, PopLoadHead(t)
    PROVE  SafeInv(rank, top)'
<1> DEFINE l == [loc[t] EXCEPT !.head = head]
<1>1. pc[t] = "pop" /\ loc[t] \in Locals
      BY DEF PopLoadHead, At, SafeInv, TypeOK
<1>2. /\ Loads(t, "pop_tail") /\ loc' = [loc EXCEPT ![t] = l]
      BY DEF PopLoadHead, Loads, shared
<1>3. /\ l \in Locals /\ l.head = head /\ l.slot = loc[t].slot /\ l.node = loc[t].node
      BY <1>1, EndsFacts DEF Locals, Pointers
<1> HIDE DEF l
<1>4. pc'[t] = "pop_tail" /\ loc'[t] = l /\ UNCHANGED <<head, tail, next, allocated>>
      BY <1>2 DEF Loads, Goto, SafeInv, TypeOK
<1>5. LocalOK(rank, t)'
      BY <1>1, <1>3, <1>4, EndsFacts DEF LocalOK, UsesHead, UsesTail, Unlinked
<1>6. InUse(t)' = {head}
      BY <1>3, <1>4 DEF InUse, UsesHead, UsesTail, UsesNext
<1>7. \A p \in InUse(t)' \ {Nil} : p \in Nodes /\ rank[head] <= rank[p]
      BY <1>6, EndsFacts
<1> QED BY <1>1, <1>2, <1>3, <1>5, <1>7, LoadStep DEF Critical, Pushing, Popping, Unlinked

\* try_pop loads tail_, which is not behind the head it loaded.
LEMMA PopLoadTailSafe ==
    ASSUME NEW rank, NEW top, SafeInv(rank, top), NEW t \in Threads, PopLoadTail(t)
    PROVE  SafeInv(rank, top)'
<1> DEFINE l == [loc[t] EXCEPT !.tail = tail]
<1>1. pc[t] = "pop_tail" /\ loc[t] \in Locals /\ LocalOK(rank, t)
      BY DEF PopLoadTail, At, SafeInv, TypeOK
<1>2. /\ Loads(t, "pop_next") /\ loc' = [loc EXCEPT ![t] = l]
      BY DEF PopLoadTail, Loads, shared
<1>3. loc[t].head \in Nodes /\ rank[loc[t].head] # 0 /\ rank[loc[t].head] <= rank[head]
      BY <1>1 DEF LocalOK, UsesHead
<1>4. /\ l \in Locals /\ l.tail = tail /\ l.head = loc[t].head
      /\ l.slot = loc[t].slot /\ l.node = loc[t].node
      BY <1>1, EndsFacts DEF Locals, Pointers
<1> HIDE DEF l
<1>5. pc'[t] = "pop_next" /\ loc'[t] = l /\ UNCHANGED <<head, tail, next, allocated>>
      BY <1>2 DEF Loads, Goto, SafeInv, TypeOK
<1>6. rank[loc[t].head] <= rank[tail]
      BY <1>3, EndsFacts
<1>7. LocalOK(rank, t)'
      BY <1>3, <1>4, <1>5, <1>6, EndsFacts DEF LocalOK, UsesHead, UsesTail, Unlinked
<1>8. InUse(t) = {loc[t].head} /\ InUse(t)' = {loc[t].head, tail} /\ loc[t].head # Nil
      BY <1>1, <1>3, <1>4, <1>5, NilIsNoNode DEF InUse, UsesHead, UsesTail, UsesNext
<1>9. \A p \in InUse(t)' \ {Nil} :
          /\ p \in Nodes
          /\ rank[head] <= rank[p] \/ \E q \in InUse(t) \ {Nil} : rank[q] <= rank[p]
      BY <1>3, <1>8, EndsFacts
<1> QED BY <1>1, <1>2, <1>4, <1>7, <1>9, LoadStep DEF Critical, Pushing, Popping, Unlinked

\* try_pop loads the next pointer of the head it loaded.
LEMMA PopLoadNextSafe ==
    ASSUME NEW rank, NEW top, SafeInv(rank, top), NEW t \in Threads, PopLoadNext(t)
    PROVE  SafeInv(rank, top)'
<1> DEFINE l == [loc[t] EXCEPT !.next = next[loc[t].head]]
<1>1. pc[t] = "pop_next" /\ loc[t] \in Locals /\ LocalOK(rank, t)
      BY DEF PopLoadNext, At, SafeInv, TypeOK
<1>2. /\ Loads(t, "pop_recheck") /\ loc' = [loc EXCEPT ![t] = l]
      BY DEF PopLoadNext, Loads, shared
<1>3. /\ loc[t].head \in Nodes /\ rank[loc[t].head] # 0 /\ rank[loc[t].head] <= rank[head]
      /\ loc[t].tail \in Nodes
      BY <1>1 DEF LocalOK, UsesHead, UsesTail
<1>4. /\ l \in Locals /\ l.next = next[loc[t].head] /\ l.tail = loc[t].tail /\ l.head = loc[t].head
      /\ l.slot = loc[t].slot /\ l.node = loc[t].node
      BY <1>1, <1>3, EndsFacts DEF Locals
<1> HIDE DEF l
<1>5. pc'[t] = "pop_recheck" /\ loc'[t] = l /\ UNCHANGED <<head, tail, next, allocated>>
      BY <1>2 DEF Loads, Goto, SafeInv, TypeOK
<1>6. LocalOK(rank, t)'
      BY <1>1, <1>3, <1>4, <1>5 DEF LocalOK, UsesHead, UsesTail, Unlinked
<1>7. /\ InUse(t) = {loc[t].head, loc[t].tail}
      /\ InUse(t)' = {loc[t].head, loc[t].tail, next[loc[t].head]}
      BY <1>1, <1>4, <1>5 DEF InUse, UsesHead, UsesTail, UsesNext
<1>8. next[loc[t].head] # Nil =>
         next[loc[t].head] \in Nodes /\ rank[next[loc[t].head]] = rank[loc[t].head] + 1
      BY <1>3, NextIsLinked DEF SafeInv
<1>9. loc[t].head # Nil /\ loc[t].tail # Nil
      BY <1>3, NilIsNoNode
<1>10. \A p \in InUse(t)' \ {Nil} :
           p \in Nodes /\ \E q \in InUse(t) \ {Nil} : rank[q] <= rank[p]
      BY <1>3, <1>7, <1>8, <1>9, EndsFacts
<1> QED BY <1>1, <1>2, <1>4, <1>6, <1>10, LoadStep
           DEF Critical, Pushing, Popping, Unlinked

-----------------------------------------------------------------------------
(* The steps that change the list.                                           *)

\* push allocates its node, which nobody else has.
LEMMA NewNodeSafe ==
    ASSUME NEW rank, NEW top, SafeInv(rank, top), NEW t \in Threads, NewNode(t)
    PROVE  SafeInv(rank, top)'
<1> DEFINE l == [loc[t] EXCEPT !.node = allocated]
<1>1. pc[t] = "new" /\ loc[t] \in Locals /\ allocated \in 1..MaxPushes
      BY BoundsAssumption DEF NewNode, At, SafeInv, TypeOK
<1>2. allocated \in Nodes /\ rank[allocated] = 0
  <2>1. allocated \in Nodes
        BY <1>1, BoundsAssumption DEF Nodes
  <2> QED BY <1>1, <2>1 DEF SafeInv, ListOK, Numbers, Joins
<1>3. l \in Locals /\ l.node = allocated /\ l.slot = loc[t].slot
      BY <1>1, <1>2 DEF Locals, Pointers
<1>4. /\ pc' = [pc EXCEPT ![t] = "push"] /\ loc' = [loc EXCEPT ![t] = l]
      /\ allocated' = allocated + 1
      /\ UNCHANGED <<head, tail, next, freed, globalEpoch, slots>>
      BY DEF NewNode, Goto
<1> HIDE DEF l
<1>5. /\ pc' \in [Threads -> Steps] /\ loc' \in [Threads -> Locals] /\ Others(t)
      /\ pc'[t] = "push" /\ loc'[t] = l
      BY <1>3, <1>4 DEF SafeInv, TypeOK, Others, Steps, Critical, Pushing
<1>6. allocated' \in allocated..MaxPushes + 1 /\ allocated < allocated' /\ allocated \in Nat
      BY <1>1, <1>4, BoundsAssumption
<1>7. ListOK(rank, top)'
  <2>1. \A n \in Nodes : rank[n] # 0 => n < allocated'
    <3>1. \A n \in Nodes : n \in Nat /\ (rank[n] # 0 => n < allocated)
          BY NilIsNoNode DEF SafeInv, ListOK, Numbers, Joins
    <3> QED BY <1>4, <1>6, <3>1
  <2> QED BY <1>4, <2>1 DEF SafeInv, ListOK, Numbers, Joins
<1>8. NodesApart'
  <2>1. \A u \in Threads \ {t} : pc[u] \in Unlinked => loc[u].node \in Nodes /\ loc[u].node < allocated
        BY DEF SafeInv, LocalOK
  <2>2. \A u \in Threads \ {t} : pc[u] \in Unlinked => loc[u].node # allocated
        BY <2>1, <1>1, NilIsNoNode
  <2> QED BY <1>3, <1>5, <2>2 DEF SafeInv, NodesApart, Others
<1>9. LocalOK(rank, t)'
      BY <1>2, <1>3, <1>5, <1>6 DEF LocalOK, UsesHead, UsesTail, Unlinked
<1>10. InUse(t)' = {}
      BY <1>5 DEF InUse, UsesHead, UsesTail, UsesNext
<1>11. \A n \in Nodes : Before(rank, n, t)'
      BY <1>10 DEF Before
<1>12. \A u \in Threads \ {t} : pc[u] \in Unlinked => rank[loc[u].node] = 0
      BY DEF SafeInv, LocalOK
<1>13. /\ rank[head] <= rank[head'] /\ rank[tail] <= rank[tail']
       /\ \A n \in Nodes : next[n] # Nil => next'[n] = next[n]
      BY <1>4, EndsFacts
<1>14. /\ pc[t] \in Critical /\ pc'[t] \in Critical \ {"scan", "scan_epoch"}
       /\ pc'[t] \in Popping => pc[t] \in Popping
      BY <1>1, <1>5 DEF Critical, Pushing, Popping
<1>15. loc'[t].slot = loc[t].slot
      BY <1>3, <1>5
<1> QED BY <1>4, <1>5, <1>6, <1>7, <1>8, <1>9, <1>11, <1>12, <1>13, <1>14, <1>15, InsideStep

\* The compare-exchanges of tail_: where they are and where they lead.
Swings == {<<"push_swing", "push_count">>, <<"push_help", "push">>, <<"pop_help", "pop">>}

\* Moving tail_ from the node t loaded to the one after it.
LEMMA TailStep ==
    ASSUME NEW rank, NEW top, SafeInv(rank, top), NEW t \in Threads,
           NEW here, NEW there, pc[t] = here, Goto(t, there),
           <<here, there>> \in Swings,
           tail' = tail \/ (tail' = next[loc[t].tail] /\ tail = loc[t].tail),
           next[loc[t].tail] # Nil,
           UNCHANGED <<head, next, allocated, freed, globalEpoch, slots, loc>>
    PROVE  SafeInv(rank, top)'
<1>0. \/ here = "push_swing" /\ there = "push_count"
      \/ here = "push_help" /\ there = "push"
      \/ here = "pop_help" /\ there = "pop"
      BY DEF Swings
<1>1. LocalOK(rank, t)
      BY DEF SafeInv
<1>2. loc[t].tail \in Nodes /\ rank[loc[t].tail] # 0
      BY <1>0, <1>1 DEF LocalOK, UsesTail
<1>3. next[loc[t].tail] \in Nodes /\ rank[next[loc[t].tail]] = rank[loc[t].tail] + 1
      BY <1>2, NextIsLinked DEF SafeInv
<1>4. tail' \in Nodes /\ rank[tail] <= rank[tail']
      BY <1>2, <1>3, EndsFacts
<1>5. ListOK(rank, top)'
  <2>1. rank[head'] <= rank[tail']
        BY <1>4, EndsFacts
  <2> QED BY <1>4, <2>1 DEF SafeInv, ListOK, Numbers, Joins
<1>6. /\ pc' \in [Threads -> Steps] /\ loc' \in [Threads -> Locals] /\ Others(t)
      /\ pc'[t] = there
      BY <1>0 DEF SafeInv, TypeOK, Others, Steps, Critical, Pushing, Popping, Goto
<1>7. NodesApart'
      BY <1>0, <1>6 DEF SafeInv, NodesApart, Others, Unlinked
<1>8. LocalOK(rank, t)'
      BY <1>0, <1>1, <1>6 DEF LocalOK, UsesHead, UsesTail, Unlinked
<1>9. InUse(t)' = {}
      BY <1>0, <1>6 DEF InUse, UsesHead, UsesTail, UsesNext
<1>10. \A n \in Nodes : Before(rank, n, t)'
      BY <1>9 DEF Before
<1>11. \A u \in Threads \ {t} : pc[u] \in Unlinked => rank[loc[u].node] = 0
      BY DEF SafeInv, LocalOK
<1>12. rank[head] <= rank[head'] /\ \A n \in Nodes : next[n] # Nil => next'[n] = next[n]
      BY EndsFacts
<1>13. /\ pc[t] \in Critical /\ pc'[t] \in Critical \ {"scan", "scan_epoch"}
       /\ pc'[t] \in Popping => pc[t] \in Popping
      BY <1>0, <1>6 DEF Critical, Pushing, Popping
<1>14. allocated' \in allocated..MaxPushes + 1
      BY BoundsAssumption DEF SafeInv, TypeOK
<1> QED BY <1>4, <1>5, <1>6, <1>7, <1>8, <1>10, <1>11, <1>12, <1>13, <1>14, InsideStep

\* push and try_pop move tail_ to the node after it, or find it moved.
LEMMA TailStepsSafe ==
    ASSUME NEW rank, NEW top, SafeInv(rank, top), NEW t \in Threads,
           PushSwing(t) \/ PushHelp(t) \/ PopHelp(t)
    PROVE  SafeInv(rank, top)'
<1>1. LocalOK(rank, t)
      BY DEF SafeInv
<1>2. CASE PushSwing(t)
  <2>1. pc[t] = "push_swing" /\ next[loc[t].tail] = loc[t].node /\ loc[t].node # Nil
        BY <1>1, <1>2, NilIsNoNode DEF PushSwing, At, LocalOK
  <2>2. /\ Goto(t, "push_count")
        /\ UNCHANGED <<head, next, allocated, freed, globalEpoch, slots, loc>>
        /\ (tail' = tail \/ (tail' = next[loc[t].tail] /\ tail = loc[t].tail))
        BY <1>2, <2>1 DEF PushSwing
  <2>3. /\ next[loc[t].tail] # Nil
        /\ <<"push_swing", "push_count">> \in Swings
        BY <2>1 DEF Swings
  <2> QED BY <2>1, <2>2, <2>3, TailStep
<1>3. CASE PushHelp(t)
  <2>1. pc[t] = "push_help" /\ next[loc[t].tail] = loc[t].next /\ loc[t].next # Nil
        BY <1>1, <1>3 DEF PushHelp, At, LocalOK
  <2>2. /\ Goto(t, "push")
        /\ UNCHANGED <<head, next, allocated, freed, globalEpoch, slots, loc>>
        /\ (tail' = tail \/ (tail' = next[loc[t].tail] /\ tail = loc[t].tail))
        BY <1>3, <2>1 DEF PushHelp
  <2>3. /\ next[loc[t].tail] # Nil
        /\ <<"push_help", "push">> \in Swings
        BY <2>1 DEF Swings
  <2> QED BY <2>1, <2>2, <2>3, TailStep
<1>4. CASE PopHelp(t)
  <2>1. pc[t] = "pop_help" /\ next[loc[t].tail] = loc[t].next /\ loc[t].next # Nil
        BY <1>1, <1>4 DEF PopHelp, At, LocalOK
  <2>2. /\ Goto(t, "pop")
        /\ UNCHANGED <<head, next, allocated, freed, globalEpoch, slots, loc>>
        /\ (tail' = tail \/ (tail' = next[loc[t].tail] /\ tail = loc[t].tail))
        BY <1>4, <2>1 DEF PopHelp
  <2>3. /\ next[loc[t].tail] # Nil
        /\ <<"pop_help", "pop">> \in Swings
        BY <2>1 DEF Swings
  <2> QED BY <2>1, <2>2, <2>3, TailStep
<1> QED BY <1>2, <1>3, <1>4

\* try_pop moves head_: the old head is no longer linked, but its claimant has it.
LEMMA PopClaimSafe ==
    ASSUME NEW rank, NEW top, SafeInv(rank, top), NEW t \in Threads, PopClaim(t)
    PROVE  SafeInv(rank, top)'
<1>1. pc[t] = "pop_claim" /\ LocalOK(rank, t)
      BY DEF PopClaim, At, SafeInv
<1>2. CASE head' = head /\ Goto(t, "pop")
  <2>1. Loads(t, "pop") /\ loc' = loc
        BY <1>2 DEF PopClaim, Loads
  <2>2. pc'[t] = "pop"
        BY <1>2 DEF Goto, SafeInv, TypeOK
  <2>3. LocalOK(rank, t)' /\ InUse(t)' \subseteq InUse(t)
        BY <2>2 DEF LocalOK, InUse, UsesHead, UsesTail, UsesNext, Unlinked
  <2> QED BY <1>1, <2>1, <2>3, QuietStep DEF Critical, Pushing, Popping, Unlinked
<1>3. CASE head = loc[t].head /\ head' = loc[t].next /\ Goto(t, "pop_take")
  <2>1. /\ loc[t].head \in Nodes /\ rank[loc[t].head] # 0 /\ rank[loc[t].head] < rank[tail]
        /\ loc[t].next = next[loc[t].head] /\ loc[t].next # Nil
        BY <1>1 DEF LocalOK, UsesHead
  <2>2. head' \in Nodes /\ rank[head'] = rank[head] + 1
        BY <1>3, <2>1, NextIsLinked DEF SafeInv
  <2>3. UNCHANGED <<tail, next, allocated, freed, globalEpoch, slots, loc>>
        BY DEF PopClaim
  <2>4. rank[head] <= rank[head'] /\ rank[head'] <= rank[tail'] /\ rank[tail] <= rank[tail']
        /\ rank[head'] # 0
        BY <1>3, <2>1, <2>2, <2>3, EndsFacts
  <2>5. ListOK(rank, top)'
        BY <2>2, <2>3, <2>4 DEF SafeInv, ListOK, Numbers, Joins
  <2>6. /\ pc' \in [Threads -> Steps] /\ loc' \in [Threads -> Locals] /\ Others(t)
        /\ pc'[t] = "pop_take" /\ loc'[t] = loc[t]
        BY <1>3, <2>3 DEF SafeInv, TypeOK, Others, Steps, Critical, Popping, Goto
  <2>7. NodesApart'
        BY <2>3, <2>6 DEF SafeInv, NodesApart, Others, Unlinked
  <2>8. rank[loc[t].head] < rank[head'] /\ rank[loc[t].head] <= rank[head']
        BY <1>3, <2>2, EndsFacts
  <2>9. LocalOK(rank, t)'
        BY <2>1, <2>3, <2>6, <2>8 DEF LocalOK, UsesHead, UsesTail, Unlinked
  <2>10. InUse(t)' \subseteq InUse(t)
        BY <1>1, <2>6 DEF InUse, UsesHead, UsesTail, UsesNext
  <2>11. \A n \in Nodes : Before(rank, n, t) => Before(rank, n, t)'
        BY <2>10 DEF Before
  <2>12. \A u \in Threads \ {t} : pc[u] \in Unlinked => rank[loc[u].node] = 0
        BY DEF SafeInv, LocalOK
  <2>13. /\ \A n \in Nodes : next[n] # Nil => next'[n] = next[n]
         /\ allocated' \in allocated..MaxPushes + 1
        BY <2>3, BoundsAssumption DEF SafeInv, TypeOK
  <2>14. /\ pc[t] \in Critical /\ pc'[t] \in Critical \ {"scan", "scan_epoch"}
         /\ pc'[t] \in Popping => pc[t] \in Popping
        BY <1>1, <2>6 DEF Critical, Pushing, Popping
  <2>15. UNCHANGED <<freed, globalEpoch, slots>> /\ loc'[t].slot = loc[t].slot
        BY <2>3
  <2> QED BY <2>4, <2>5, <2>6, <2>7, <2>9, <2>11, <2>12, <2>13, <2>14, <2>15, InsideStep
<1> QED BY <1>2, <1>3 DEF PopClaim

\* The step in which t's node becomes the last of the list.
Grows(t, rank, top, rank2, top2) ==
    /\ At(t, "push_link") /\ Goto(t, "push_swing")
    /\ rank2 = [rank EXCEPT ![loc[t].node] = top + 1] /\ top2 = top + 1
    /\ UNCHANGED <<head, full, allocated, freed, size, slots, loc, sawEmpty>>

\* push links its node behind the last one, which gives it the next rank, or fails.
LEMMA PushLinkSafe ==
    ASSUME NEW rank, NEW top, SafeInv(rank, top), NEW t \in Threads, PushLink(t)
    PROVE  \/ SafeInv(rank, top)'
           \/ \E rank2, top2 : SafeInv(rank2, top2)' /\ Grows(t, rank, top, rank2, top2)
<1>1. pc[t] = "push_link" /\ LocalOK(rank, t)
      BY DEF PushLink, At, SafeInv
<1>2. CASE next' = next /\ Goto(t, "push")
  <2>1. Loads(t, "push") /\ loc' = loc
        BY <1>2 DEF PushLink, Loads
  <2>2. pc'[t] = "push" /\ UNCHANGED allocated
        BY <1>2 DEF Goto, SafeInv, TypeOK, PushLink
  <2>3. LocalOK(rank, t)'
        BY <1>1, <2>1, <2>2 DEF LocalOK, UsesHead, UsesTail, Unlinked
  <2>4. InUse(t)' \subseteq InUse(t)
        BY <2>2 DEF InUse, UsesHead, UsesTail, UsesNext
  <2>5. SafeInv(rank, top)'
        BY <1>1, <2>1, <2>3, <2>4, QuietStep DEF Critical, Pushing, Popping, Unlinked
  <2> QED BY <2>5
<1>3. CASE /\ next[loc[t].tail] = Nil
           /\ next' = [next EXCEPT ![loc[t].tail] = loc[t].node]
           /\ Goto(t, "push_swing")
  <2>a. PICK node, last : node = loc[t].node /\ last = loc[t].tail
        OBVIOUS
  <2>b. PICK rank2, top2 : rank2 = [rank EXCEPT ![node] = top + 1] /\ top2 = top + 1
        OBVIOUS
  <2>1. /\ node \in Nodes /\ rank[node] = 0 /\ node < allocated
        /\ last \in Nodes /\ rank[last] # 0 /\ rank[last] <= rank[tail]
        BY <1>1, <2>a DEF LocalOK, UsesTail, Unlinked
  <2>2. /\ top \in Nat /\ rank \in [Nodes -> 0..top] /\ next \in [Nodes -> Pointers]
        /\ \A m, n \in Nodes : rank[m] = rank[n] /\ rank[m] # 0 => m = n
        /\ \A n \in Nodes : IF rank[n] \in 1..top - 1
                              THEN next[n] \in Nodes /\ rank[next[n]] = rank[n] + 1
                              ELSE next[n] = Nil
        BY DEF SafeInv, ListOK, Numbers, Joins
  <2>3. rank[last] = top
    <3>1. rank[last] \notin 1..top - 1
          BY <1>3, <2>a, <2>1, <2>2, NilIsNoNode
    <3>2. rank[last] \in 0..top
          BY <2>1, <2>2
    <3> QED BY <2>1, <2>2, <3>1, <3>2
  <2>4. UNCHANGED <<head, tail, allocated, freed, globalEpoch, slots, loc>>
        BY DEF PushLink
  <2>5. /\ rank2 \in [Nodes -> 0..top2] /\ rank2[node] = top + 1
        /\ \A n \in Nodes \ {node} : rank2[n] = rank[n]
        BY <2>b, <2>1, <2>2
  <2>6. /\ next' \in [Nodes -> Pointers] /\ next'[last] = node
        /\ \A n \in Nodes \ {last} : next'[n] = next[n]
        BY <1>3, <2>a, <2>1, <2>2 DEF Pointers
  <2>7. ListOK(rank2, top2)'
    <3>1. \A m, n \in Nodes : rank2[m] = rank2[n] /\ rank2[m] # 0 => m = n
          BY <2>1, <2>2, <2>5
    <3>2. ASSUME NEW n \in Nodes
          PROVE  IF rank2[n] \in 1..top2 - 1
                   THEN next'[n] \in Nodes /\ rank2[next'[n]] = rank2[n] + 1
                   ELSE next'[n] = Nil
      <4>1. CASE n = last
            BY <2>b, <2>1, <2>2, <2>3, <2>5, <2>6, <4>1
      <4>2. CASE n = node
            BY <2>b, <2>1, <2>2, <2>3, <2>5, <2>6, <4>2
      <4>3. CASE n # last /\ n # node
        <5>1. rank2[n] = rank[n] /\ next'[n] = next[n] /\ rank[n] # top
              BY <2>1, <2>2, <2>3, <2>5, <2>6, <4>3
        <5>2. CASE rank[n] \in 1..top - 1
          <6>1. next[n] \in Nodes /\ rank[next[n]] = rank[n] + 1 /\ next[n] # node
                BY <2>1, <2>2, <5>2
          <6> QED BY <2>b, <2>2, <2>5, <5>1, <5>2, <6>1
        <5>3. CASE rank[n] \notin 1..top - 1
              BY <2>b, <2>2, <5>1, <5>3
        <5> QED BY <5>2, <5>3
      <4> QED BY <4>1, <4>2, <4>3
    <3>3. \A n \in Nodes : rank2[n] # 0 => n < allocated'
          BY <2>1, <2>4, <2>5 DEF SafeInv, ListOK, Numbers, Joins
    <3>4. /\ head' \in Nodes /\ rank2[head'] # 0 /\ tail' \in Nodes /\ rank2[head'] <= rank2[tail']
          BY <2>1, <2>4, <2>5, EndsFacts
    <3>5. top2 \in Nat
          BY <2>b, <2>2
    <3>6. ASSUME NEW k \in 1..top2 PROVE \E n \in Nodes : rank2[n] = k
      <4>1. CASE k = top + 1
            BY <2>1, <2>5, <4>1
      <4>2. CASE k \in 1..top
        <5>1. PICK n \in Nodes : rank[n] = k
              BY <4>2 DEF SafeInv, ListOK, Numbers
        <5> QED BY <2>1, <2>5, <4>2, <5>1
      <4> QED BY <2>b, <2>2, <4>1, <4>2
    <3> QED BY <2>5, <2>6, <3>1, <3>2, <3>3, <3>4, <3>5, <3>6 DEF ListOK, Numbers, Joins
  <2>8. \A n \in Nodes : rank[n] # 0 => rank2[n] = rank[n]
        BY <2>1, <2>5
  <2>9. rank[head] <= rank2[head'] /\ rank[tail] <= rank2[tail']
        BY <2>4, <2>8, EndsFacts
  <2>10. /\ pc' \in [Threads -> Steps] /\ loc' \in [Threads -> Locals] /\ Others(t)
         /\ pc'[t] = "push_swing" /\ loc'[t] = loc[t]
        BY <1>3, <2>4 DEF SafeInv, TypeOK, Others, Steps, Critical, Pushing, Goto
  <2>11. NodesApart'
        BY <2>4, <2>10 DEF SafeInv, NodesApart, Others, Unlinked
  <2>12. rank2[last] # 0 /\ rank2[last] <= rank2[tail']
        BY <2>1, <2>4, <2>8, EndsFacts
  <2>13. LocalOK(rank2, t)'
        BY <2>a, <2>1, <2>6, <2>10, <2>12 DEF LocalOK, UsesHead, UsesTail, Unlinked
  <2>14. InUse(t) = {last} /\ InUse(t)' = {last}
        BY <1>1, <2>a, <2>10 DEF InUse, UsesHead, UsesTail, UsesNext
  <2>15. \A n \in Nodes : rank[n] # 0 /\ Before(rank, n, t) => Before(rank2, n, t)'
        BY <2>1, <2>8, <2>14 DEF Before
  <2>16. \A u \in Threads \ {t} : pc[u] \in Unlinked => rank2[loc[u].node] = 0
    <3>1. \A u \in Threads \ {t} : pc[u] \in Unlinked =>
             loc[u].node \in Nodes /\ rank[loc[u].node] = 0
          BY DEF SafeInv, LocalOK
    <3>2. \A u \in Threads \ {t} : pc[u] \in Unlinked => loc[u].node # node
          BY <1>1, <2>a DEF SafeInv, NodesApart, Unlinked
    <3> QED BY <2>5, <3>1, <3>2
  <2>17. \A n \in Nodes : next[n] # Nil => next'[n] = next[n]
        BY <1>3, <2>a, <2>6
  <2>18. allocated' \in allocated..MaxPushes + 1
        BY <2>4, BoundsAssumption DEF SafeInv, TypeOK
  <2>19. /\ pc[t] \in Critical /\ pc'[t] \in Critical \ {"scan", "scan_epoch"}
         /\ pc'[t] \in Popping => pc[t] \in Popping
        BY <1>1, <2>10 DEF Critical, Pushing, Popping
  <2>20. UNCHANGED <<freed, globalEpoch, slots>> /\ loc'[t].slot = loc[t].slot
        BY <2>4
  <2>21. SafeInv(rank2, top2)'
        BY <2>7, <2>8, <2>9, <2>10, <2>11, <2>13, <2>15, <2>16, <2>17, <2>18, <2>19, <2>20, InsideStep
  <2>22. Grows(t, rank, top, rank2, top2)
        BY <1>1, <1>3, <2>a, <2>b DEF Grows, PushLink, At
  <2> QED BY <2>21, <2>22
<1> QED BY <1>2, <1>3 DEF PushLink

-----------------------------------------------------------------------------
(* Tokens, guards and the collection of retired nodes.                       *)

\* Where a thread uses no pointer.
Idle == {"outside", "ready", "store_epoch", "enter", "new", "pop", "advance", "scan_start", "scan",
         "scan_epoch", "leave"}

\* A step of t that leaves the list alone and ends where t uses no pointer keeps
\* the invariant if it leaves the other threads' slots alone, if what it deletes
\* or retires is off the list and older than what the others use (or, when
\* retired, not retired before the epoch they announce), and if it scans well.
LEMMA SlotStep ==
    ASSUME NEW rank, NEW top, SafeInv(rank, top), NEW t \in Threads, Others(t),
           UNCHANGED <<head, tail, next, allocated>>,
           TypeOK', pc'[t] \in Idle, globalEpoch <= globalEpoch', TokenOK(t)',
           \A u \in Threads \ {t} : pc[u] # "outside" =>
               /\ slots'[Slot(u)] = slots[Slot(u)]
               /\ pc'[t] # "outside" => Slot(u) # loc'[t].slot,
           \A n \in freed' : n \in freed \/
               /\ rank[n] # 0 /\ rank[n] < rank[head]
               /\ \A u \in Threads \ {t} : Before(rank, n, u),
           \A s \in Slots : \A r \in slots'[s].retired : r \in slots[s].retired \/
               /\ rank[r.node] # 0 /\ rank[r.node] < rank[head]
               /\ \A u \in Threads \ {t} :
                     Before(rank, r.node, u) \/ slots[Slot(u)].epoch <= r.epoch,
           pc'[t] \in {"scan", "scan_epoch"} =>
               \A u \in Threads \ {t} : pc[u] \in Critical /\ Slot(u) < loc'[t].index =>
                   \/ loc'[t].minimum <= slots[Slot(u)].epoch
                   \/ \A r \in slots'[loc'[t].slot].retired : Before(rank, r.node, u)
    PROVE  SafeInv(rank, top)'
<1>1. ASSUME NEW u \in Threads \ {t} PROVE Slot(u)' = Slot(u) /\ pc'[u] = pc[u] /\ loc'[u] = loc[u]
      BY DEF Others, Slot
<1>2. Slot(t)' = loc'[t].slot
      BY DEF Slot
<1>3. TokensOK'
  <2>1. ASSUME NEW u \in Threads \ {t} PROVE TokenOK(u)'
    <3>1. CASE pc[u] = "outside"
          BY <1>1, <3>1 DEF TokenOK, Critical, Popping, Pushing
    <3>2. CASE pc[u] # "outside"
      <4>1. slots'[Slot(u)'] = slots[Slot(u)] /\ TokenOK(u) /\ Slot(u) \in Slots
            BY <1>1, <3>2 DEF SafeInv, TokensOK, TokenOK
      <4>2. globalEpoch \in Nat /\ globalEpoch' \in Nat /\ slots[Slot(u)].epoch \in Nat
            BY <4>1 DEF SafeInv, TypeOK, SlotRecords
      <4>3. loc[u].minimum \in Nat
            BY DEF SafeInv, TypeOK, Locals
      <4> QED BY <1>1, <4>1, <4>2, <4>3 DEF TokenOK
    <3> QED BY <3>1, <3>2
  <2>2. ASSUME NEW u \in Threads, NEW v \in Threads, u # v, pc'[u] # "outside", pc'[v] # "outside"
        PROVE  Slot(u)' # Slot(v)'
    <3>1. CASE u # t /\ v # t
          BY <1>1, <2>2, <3>1 DEF SafeInv, TokensOK
    <3>2. CASE u = t \/ v = t
          BY <1>1, <1>2, <2>2, <3>2
    <3> QED BY <3>1, <3>2
  <2> QED BY <2>1, <2>2 DEF TokensOK
<1>4. InUse(t)' = {}
      BY DEF InUse, UsesHead, UsesTail, UsesNext, Idle
<1>5. \A n : Before(rank, n, t)'
      BY <1>4 DEF Before
<1>6. \A u \in Threads \ {t} : \A n : Before(rank, n, u)' <=> Before(rank, n, u)
  <2>1. \A u \in Threads \ {t} : InUse(u)' = InUse(u)
        BY <1>1 DEF InUse
  <2> QED BY <2>1 DEF Before
<1>7. NodesApart'
      BY DEF SafeInv, NodesApart, Others, Idle, Unlinked
<1>8. ListOK(rank, top)'
      BY DEF SafeInv, ListOK, Numbers, Joins
<1>9. ASSUME NEW u \in Threads PROVE LocalOK(rank, u)'
  <2>1. CASE u = t
        BY <2>1 DEF LocalOK, Idle, UsesHead, UsesTail, Unlinked
  <2>2. CASE u # t
    <3>1. LocalOK(rank, u)
          BY DEF SafeInv
    <3> QED BY <1>1, <2>2, <3>1 DEF LocalOK
  <2> QED BY <2>1, <2>2
<1>10. ReclamationOK(rank)'
  <2>1. \A n \in freed' : rank[n] # 0 /\ rank[n] < rank[head']
        BY DEF SafeInv, ReclamationOK
  <2>2. \A s \in Slots : \A r \in slots'[s].retired : rank[r.node] # 0 /\ rank[r.node] < rank[head']
        BY DEF SafeInv, ReclamationOK
  <2>3. \A u \in Threads : \A n \in freed' : Before(rank, n, u)'
        BY <1>5, <1>6 DEF SafeInv, ReclamationOK
  <2>4. ASSUME NEW u \in Threads, NEW s \in Slots, NEW r \in slots'[s].retired
        PROVE  Before(rank, r.node, u)' \/ slots'[Slot(u)'].epoch <= r.epoch
    <3>1. CASE u = t
          BY <1>5, <3>1
    <3>2. CASE u # t /\ pc[u] = "outside"
      <4>1. InUse(u) = {}
            BY <3>2 DEF InUse, UsesHead, UsesTail, UsesNext
      <4> QED BY <1>6, <3>2, <4>1 DEF Before
    <3>3. CASE u # t /\ pc[u] # "outside"
      <4>1. slots'[Slot(u)'] = slots[Slot(u)]
            BY <1>1, <3>3
      <4>2. Before(rank, r.node, u) \/ slots[Slot(u)].epoch <= r.epoch
            BY <3>3 DEF SafeInv, ReclamationOK
      <4> QED BY <1>6, <3>3, <4>1, <4>2
    <3> QED BY <3>1, <3>2, <3>3
  <2>5. ASSUME NEW v \in Threads, NEW u \in Threads,
               pc'[v] \in {"scan", "scan_epoch"}, pc'[u] \in Critical, Slot(u)' < loc'[v].index
        PROVE  \/ loc'[v].minimum <= slots'[Slot(u)'].epoch
               \/ \A r \in slots'[Slot(v)'].retired : Before(rank, r.node, u)'
    <3>1. CASE u = t
          BY <1>5, <3>1
    <3>2. CASE u # t
      <4>1. pc[u] \in Critical /\ pc[u] # "outside" /\ Slot(u)' = Slot(u)
            BY <1>1, <2>5, <3>2 DEF Critical, Popping, Pushing
      <4>2. slots'[Slot(u)'] = slots[Slot(u)]
            BY <3>2, <4>1
      <4>3. CASE v = t
            BY <1>2, <1>6, <2>5, <3>2, <4>1, <4>2, <4>3
      <4>4. CASE v # t
        <5>1. pc[v] \in {"scan", "scan_epoch"} /\ pc[v] # "outside" /\ loc'[v] = loc[v]
              BY <1>1, <2>5, <4>4
        <5>2. slots'[Slot(v)'] = slots[Slot(v)]
              BY <1>1, <4>4, <5>1
        <5>3. \/ loc[v].minimum <= slots[Slot(u)].epoch
              \/ \A r \in slots[Slot(v)].retired : Before(rank, r.node, u)
              BY <2>5, <4>1, <5>1 DEF SafeInv, ReclamationOK
        <5> QED BY <1>6, <3>2, <4>2, <5>1, <5>2, <5>3
      <4> QED BY <4>3, <4>4
    <3> QED BY <3>1, <3>2
  <2> QED BY <2>1, <2>2, <2>3, <2>4, <2>5 DEF ReclamationOK
<1> QED BY <1>3, <1>7, <1>8, <1>9, <1>10 DEF SafeInv

\* A thread with a token: its slot is its own.
LEMMA OwnSlot ==
    ASSUME NEW rank, NEW top, SafeInv(rank, top), NEW t \in Threads, pc[t] # "outside"
    PROVE  /\ Slot(t) \in Slots /\ slots[Slot(t)] \in SlotRecords /\ slots[Slot(t)].occupied
           /\ loc[t] \in Locals /\ TokenOK(t) /\ globalEpoch \in Nat /\ Slots \subseteq Nat
           /\ \A u \in Threads \ {t} : pc[u] # "outside" => Slot(u) # Slot(t)
  BY ThreadsAssumption DEF SafeInv, TypeOK, TokensOK, TokenOK, Slots

\* A thread that is not critical uses nothing.
LEMMA UsesNothing ==
    ASSUME NEW rank, NEW u \in Threads, pc[u] \notin Critical
    PROVE  \A n : Before(rank, n, u)
<1>1. InUse(u) = {}
      BY DEF InUse, UsesHead, UsesTail, UsesNext, Critical, Popping, Pushing
<1> QED BY <1>1 DEF Before

\* A step of t that changes its own slot to rec and its locals to l.
LEMMA OwnStep ==
    ASSUME NEW rank, NEW top, SafeInv(rank, top), NEW t \in Threads, pc[t] # "outside",
           NEW rec \in SlotRecords, slots' = [slots EXCEPT ![Slot(t)] = rec], rec.occupied,
           NEW l \in Locals, loc' = [loc EXCEPT ![t] = l], l.slot = Slot(t),
           NEW there \in Idle \ {"outside"}, Goto(t, there),
           UNCHANGED <<head, tail, next, allocated>>,
           globalEpoch' \in Nat, globalEpoch <= globalEpoch', freed' \in SUBSET Nodes,
           there = "store_epoch" => l.minimum <= globalEpoch',
           there \in Critical \cup {"enter"} => rec.epoch <= globalEpoch',
           there \in Critical => rec.active,
           there \in {"scan", "scan_epoch"} => l.index # 0,
           there = "scan_epoch" => l.index \in Slots,
           there \in Popping => t \in Consumers,
           t \notin Consumers => rec.retired = {},
           \A n \in freed' : n \in freed \/
               /\ rank[n] # 0 /\ rank[n] < rank[head]
               /\ \A u \in Threads \ {t} : Before(rank, n, u),
           \A r \in rec.retired : r \in slots[Slot(t)].retired \/
               /\ rank[r.node] # 0 /\ rank[r.node] < rank[head]
               /\ \A u \in Threads \ {t} :
                     Before(rank, r.node, u) \/ slots[Slot(u)].epoch <= r.epoch,
           there \in {"scan", "scan_epoch"} =>
               \A u \in Threads \ {t} : pc[u] \in Critical /\ Slot(u) < l.index =>
                   l.minimum <= slots[Slot(u)].epoch \/ \A r \in rec.retired : Before(rank, r.node, u)
    PROVE  SafeInv(rank, top)'
<1>1. there \in Steps
      BY DEF Idle, Steps, Critical, Popping, Pushing
<1>2. /\ pc' \in [Threads -> Steps] /\ pc'[t] = there
      /\ loc' \in [Threads -> Locals] /\ loc'[t] = l
      /\ slots' \in [Slots -> SlotRecords] /\ slots'[Slot(t)] = rec
      /\ \A s \in Slots \ {Slot(t)} : slots'[s] = slots[s]
      BY <1>1, OwnSlot DEF SafeInv, TypeOK, Goto
<1>3. TypeOK'
      BY <1>2 DEF SafeInv, TypeOK
<1>4. Others(t)
      BY DEF SafeInv, TypeOK, Others, Goto
<1>5. Slot(t)' = Slot(t)
      BY <1>2 DEF Slot
<1>6. TokenOK(t)'
      BY <1>2, <1>5, OwnSlot DEF TokenOK
<1>7. \A u \in Threads \ {t} : pc[u] # "outside" => Slot(u) \in Slots /\ Slot(u) # Slot(t)
      BY OwnSlot DEF SafeInv, TokensOK, TokenOK
<1>8. \A u \in Threads \ {t} : pc[u] # "outside" =>
         /\ slots'[Slot(u)] = slots[Slot(u)]
         /\ pc'[t] # "outside" => Slot(u) # loc'[t].slot
      BY <1>2, <1>7
<1>9. \A s \in Slots : \A r \in slots'[s].retired : r \in slots[s].retired \/
         /\ rank[r.node] # 0 /\ rank[r.node] < rank[head]
         /\ \A u \in Threads \ {t} : Before(rank, r.node, u) \/ slots[Slot(u)].epoch <= r.epoch
      BY <1>2
<1>10. slots'[loc'[t].slot] = rec
      BY <1>2
<1> QED BY <1>2, <1>3, <1>4, <1>6, <1>8, <1>9, <1>10, SlotStep

\* make_token takes a slot that nobody has.
LEMMA MakeTokenSafe ==
    ASSUME NEW rank, NEW top, SafeInv(rank, top), NEW t \in Threads, MakeToken(t)
    PROVE  SafeInv(rank, top)'
<1>1. PICK s \in Slots :
        /\ ~slots[s].occupied
        /\ slots' = [slots EXCEPT ![s] =
                        [@ EXCEPT !.occupied = TRUE, !.retired = {}, !.epoch = globalEpoch]]
        /\ loc' = [loc EXCEPT ![t].slot = s]
      BY VacantSlot DEF SafeInv
<1>2. PICK rec, l :
        /\ rec = [slots[s] EXCEPT !.occupied = TRUE, !.retired = {}, !.epoch = globalEpoch]
        /\ l = [loc[t] EXCEPT !.slot = s]
      OBVIOUS
<1>3. /\ pc[t] = "outside" /\ Goto(t, "ready")
      /\ UNCHANGED <<head, tail, next, allocated, freed, globalEpoch>>
      BY DEF MakeToken, At, shared
<1>4. slots[s] \in SlotRecords /\ loc[t] \in Locals /\ globalEpoch \in Nat /\ s \in Nat
      BY ThreadsAssumption DEF SafeInv, TypeOK, Slots
<1>5. /\ rec \in SlotRecords /\ rec.occupied /\ rec.retired = {}
      /\ l \in Locals /\ l.slot = s
      BY <1>2, <1>4 DEF SlotRecords, Locals
<1>6. slots' = [slots EXCEPT ![s] = rec] /\ loc' = [loc EXCEPT ![t] = l]
      BY <1>1, <1>2
<1>7. /\ pc' \in [Threads -> Steps] /\ pc'[t] = "ready"
      /\ loc' \in [Threads -> Locals] /\ loc'[t] = l
      /\ slots' \in [Slots -> SlotRecords] /\ slots'[s] = rec
      /\ \A x \in Slots \ {s} : slots'[x] = slots[x]
      BY <1>3, <1>5, <1>6 DEF SafeInv, TypeOK, Goto, Steps
<1>8. TypeOK' /\ globalEpoch <= globalEpoch'
      BY <1>3, <1>4, <1>7 DEF SafeInv, TypeOK
<1>9. Others(t)
      BY <1>3, <1>6 DEF SafeInv, TypeOK, Others, Goto
<1>10. TokenOK(t)'
      BY <1>5, <1>7 DEF TokenOK, Slot, Critical, Popping, Pushing
<1>11. \A u \in Threads \ {t} : pc[u] # "outside" => Slot(u) \in Slots /\ Slot(u) # s
      BY <1>1 DEF SafeInv, TokensOK, TokenOK
<1>12. \A u \in Threads \ {t} : pc[u] # "outside" =>
         /\ slots'[Slot(u)] = slots[Slot(u)]
         /\ pc'[t] # "outside" => Slot(u) # loc'[t].slot
      BY <1>5, <1>7, <1>11
<1>13. \A x \in Slots : \A r \in slots'[x].retired : r \in slots[x].retired
      BY <1>5, <1>7
<1>14. pc'[t] \in Idle /\ pc'[t] \notin {"scan", "scan_epoch"}
      BY <1>7 DEF Idle
<1> QED BY <1>3, <1>8, <1>9, <1>10, <1>12, <1>13, <1>14, SlotStep

\* A thread that never pops gives its slot back with nothing in it.
LEMMA ReleaseTokenSafe ==
    ASSUME Leavers \cap Consumers = {},
           NEW rank, NEW top, SafeInv(rank, top), NEW t \in Threads, ReleaseToken(t)
    PROVE  SafeInv(rank, top)'
<1>1. PICK rec : rec = [FreeSlot EXCEPT !.epoch = slots[Slot(t)].epoch]
      OBVIOUS
<1>2. /\ pc[t] = "ready" /\ t \notin Consumers /\ Goto(t, "outside")
      /\ loc' = [loc EXCEPT ![t] = NoLocals] /\ slots' = [slots EXCEPT ![Slot(t)] = rec]
      /\ UNCHANGED <<head, tail, next, allocated, globalEpoch>>
      BY <1>1 DEF ReleaseToken, At
<1>3. slots[Slot(t)].retired = {}
      BY <1>2, OwnSlot DEF TokenOK
<1>4. freed' = freed
      BY <1>3 DEF ReleaseToken
<1>5. rec \in SlotRecords /\ rec.retired = {} /\ NoLocals \in Locals
      BY <1>1, <1>2, OwnSlot, NilIsNoNode DEF FreeSlot, SlotRecords, NoLocals, Locals, Pointers
<1>6. /\ pc' \in [Threads -> Steps] /\ pc'[t] = "outside"
      /\ loc' \in [Threads -> Locals]
      /\ slots' \in [Slots -> SlotRecords] /\ slots'[Slot(t)] = rec
      /\ \A x \in Slots \ {Slot(t)} : slots'[x] = slots[x]
      BY <1>2, <1>5, OwnSlot DEF SafeInv, TypeOK, Goto, Steps
<1>7. TypeOK' /\ globalEpoch <= globalEpoch'
      BY <1>2, <1>4, <1>6 DEF SafeInv, TypeOK
<1>8. Others(t)
      BY <1>2 DEF SafeInv, TypeOK, Others, Goto
<1>9. TokenOK(t)'
      BY <1>6 DEF TokenOK, Critical, Popping, Pushing
<1>10. \A u \in Threads \ {t} : pc[u] # "outside" => Slot(u) \in Slots /\ Slot(u) # Slot(t)
      BY <1>2, OwnSlot DEF SafeInv, TokensOK, TokenOK
<1>11. \A u \in Threads \ {t} : pc[u] # "outside" =>
         /\ slots'[Slot(u)] = slots[Slot(u)]
         /\ pc'[t] # "outside" => Slot(u) # loc'[t].slot
      BY <1>6, <1>10
<1>12. \A x \in Slots : \A r \in slots'[x].retired : r \in slots[x].retired
      BY <1>5, <1>6
<1>13. pc'[t] \in Idle /\ pc'[t] \notin {"scan", "scan_epoch"}
      BY <1>6 DEF Idle
<1> QED BY <1>2, <1>4, <1>7, <1>8, <1>9, <1>11, <1>12, <1>13, SlotStep

\* The epoch guard announces the epoch, sets the flag, and clears it at the end.
LEMMA GuardStepsSafe ==
    ASSUME NEW rank, NEW top, SafeInv(rank, top), NEW t \in Threads,
           Call(t) \/ StoreEpoch(t) \/ Enter(t) \/ Leave(t)
    PROVE  SafeInv(rank, top)'
<1>1. pc[t] # "outside"
      BY DEF Call, StoreEpoch, Enter, Leave, At
<1>2. /\ Slot(t) \in Slots /\ slots[Slot(t)] \in SlotRecords /\ slots[Slot(t)].occupied
      /\ loc[t] \in Locals /\ TokenOK(t) /\ globalEpoch \in Nat /\ freed \in SUBSET Nodes
      BY <1>1, OwnSlot DEF SafeInv, TypeOK
<1>3. /\ UNCHANGED <<head, tail, next, allocated, freed, globalEpoch>>
      /\ globalEpoch' \in Nat /\ globalEpoch <= globalEpoch' /\ freed' \in SUBSET Nodes
      BY <1>2 DEF Call, StoreEpoch, Enter, Leave, shared
<1>4. t \notin Consumers => slots[Slot(t)].retired = {}
      BY <1>1, <1>2 DEF TokenOK
<1>5. Slot(t) = loc[t].slot
      BY DEF Slot
<1>6. CASE Call(t)
  <2>1. PICK rec, l : rec = slots[Slot(t)] /\ l = [loc[t] EXCEPT !.minimum = globalEpoch]
        OBVIOUS
  <2>2. /\ slots' = [slots EXCEPT ![Slot(t)] = rec] /\ loc' = [loc EXCEPT ![t] = l]
        /\ Goto(t, "store_epoch")
        BY <1>6, <2>1 DEF Call, SafeInv, TypeOK
  <2>3. /\ rec \in SlotRecords /\ rec.occupied /\ l \in Locals /\ l.slot = Slot(t)
        /\ l.minimum <= globalEpoch' /\ (t \notin Consumers => rec.retired = {})
        /\ \A r \in rec.retired : r \in slots[Slot(t)].retired
        BY <1>2, <1>3, <1>4, <1>5, <2>1 DEF Locals
  <2>4. /\ "store_epoch" \in Idle \ {"outside"}
        /\ "store_epoch" \notin Critical \cup {"enter"}
        BY DEF Idle, Critical, Popping, Pushing
  <2> QED BY <1>1, <1>3, <2>2, <2>3, <2>4, OwnStep DEF Critical
<1>7. CASE StoreEpoch(t)
  <2>1. PICK rec, l : /\ rec = [slots[Slot(t)] EXCEPT !.epoch = loc[t].minimum]
                      /\ l = [loc[t] EXCEPT !.minimum = 0]
        OBVIOUS
  <2>2. /\ slots' = [slots EXCEPT ![Slot(t)] = rec] /\ loc' = [loc EXCEPT ![t] = l]
        /\ Goto(t, "enter") /\ loc[t].minimum <= globalEpoch
        BY <1>2, <1>7, <2>1 DEF StoreEpoch, TokenOK, At
  <2>3. /\ rec \in SlotRecords /\ rec.occupied /\ l \in Locals /\ l.slot = Slot(t)
        /\ rec.epoch <= globalEpoch' /\ (t \notin Consumers => rec.retired = {})
        /\ \A r \in rec.retired : r \in slots[Slot(t)].retired
        BY <1>2, <1>3, <1>4, <1>5, <2>1, <2>2 DEF Locals, SlotRecords
  <2>4. "enter" \in Idle \ {"outside"} /\ "enter" \notin Critical
        BY DEF Idle, Critical, Popping, Pushing
  <2> QED BY <1>1, <1>3, <2>2, <2>3, <2>4, OwnStep DEF Critical
<1>8. CASE Enter(t)
  <2>1. PICK rec, l : rec = [slots[Slot(t)] EXCEPT !.active = TRUE] /\ l = loc[t]
        OBVIOUS
  <2>2. PICK there \in {"new", "pop"} : Goto(t, there) /\ (there = "pop" => t \in Consumers)
        BY <1>8 DEF Enter
  <2>3. /\ slots' = [slots EXCEPT ![Slot(t)] = rec] /\ loc' = [loc EXCEPT ![t] = l]
        /\ slots[Slot(t)].epoch <= globalEpoch
        BY <1>2, <1>8, <2>1 DEF Enter, TokenOK, At, SafeInv, TypeOK
  <2>4. /\ rec \in SlotRecords /\ rec.occupied /\ l \in Locals /\ l.slot = Slot(t)
        /\ rec.epoch <= globalEpoch' /\ (t \notin Consumers => rec.retired = {}) /\ rec.active
        /\ \A r \in rec.retired : r \in slots[Slot(t)].retired
        BY <1>2, <1>3, <1>4, <1>5, <2>1, <2>3 DEF Locals, SlotRecords
  <2>5. there \in Idle \ {"outside"} /\ (there \in Popping => t \in Consumers)
        BY <2>2 DEF Idle, Popping
  <2> QED BY <1>1, <1>3, <2>2, <2>3, <2>4, <2>5, OwnStep
<1>9. CASE Leave(t)
  <2>1. PICK rec, l : /\ rec = [slots[Slot(t)] EXCEPT !.active = FALSE]
                      /\ l = [NoLocals EXCEPT !.slot = Slot(t)]
        OBVIOUS
  <2>2. /\ slots' = [slots EXCEPT ![Slot(t)] = rec] /\ loc' = [loc EXCEPT ![t] = l]
        /\ Goto(t, "ready")
        BY <1>9, <2>1 DEF Leave
  <2>3. /\ rec \in SlotRecords /\ rec.occupied /\ (t \notin Consumers => rec.retired = {})
        /\ \A r \in rec.retired : r \in slots[Slot(t)].retired
        BY <1>2, <1>4, <2>1 DEF SlotRecords
  <2>4. l \in Locals /\ l.slot = Slot(t)
        BY <1>2, <1>5, <2>1, NilIsNoNode DEF NoLocals, Locals, Pointers
  <2>5. "ready" \in Idle \ {"outside"} /\ "ready" \notin Critical \cup {"enter"}
        BY DEF Idle, Critical, Popping, Pushing
  <2> QED BY <1>1, <1>3, <2>2, <2>3, <2>4, <2>5, OwnStep DEF Critical
<1> QED BY <1>6, <1>7, <1>8, <1>9

\* The smaller of two numbers.
LEMMA MinOfTwo ==
    ASSUME NEW a \in Nat, NEW b \in Nat
    PROVE  Min({a, b}) \in Nat /\ Min({a, b}) <= a /\ Min({a, b}) <= b
<1>1. \E x \in {a, b} : \A y \in {a, b} : x =< y
      OBVIOUS
<1>2. Min({a, b}) \in {a, b} /\ \A y \in {a, b} : Min({a, b}) =< y
      BY <1>1 DEF Min
<1> QED BY <1>2

\* retire enters the old head, stamped with the epoch of now, in the list of the slot.
LEMMA RetireSafe ==
    ASSUME NEW rank, NEW top, SafeInv(rank, top), NEW t \in Threads, Retire(t)
    PROVE  SafeInv(rank, top)'
<1>1. pc[t] = "retire" /\ pc[t] # "outside" /\ t \in Consumers
      BY DEF Retire, At, SafeInv, TokensOK, TokenOK, Popping
<1>2. /\ Slot(t) \in Slots /\ slots[Slot(t)] \in SlotRecords /\ slots[Slot(t)].occupied
      /\ loc[t] \in Locals /\ TokenOK(t) /\ globalEpoch \in Nat /\ freed \in SUBSET Nodes
      BY <1>1, OwnSlot DEF SafeInv, TypeOK
<1>3. LocalOK(rank, t)
      BY DEF SafeInv
<1>4. PICK node, old, rec : /\ node = loc[t].head
                            /\ old = [node |-> node, epoch |-> globalEpoch]
                            /\ rec = [slots[Slot(t)] EXCEPT !.retired = @ \cup {old}]
      OBVIOUS
<1>5. node \in Nodes /\ rank[node] # 0 /\ rank[node] < rank[head]
      BY <1>1, <1>3, <1>4 DEF LocalOK, UsesHead
<1>6. /\ slots' = [slots EXCEPT ![Slot(t)] = rec]
      /\ UNCHANGED <<head, tail, next, allocated, freed, globalEpoch, loc>>
      BY <1>4 DEF Retire, shared
<1>7. PICK there \in {"advance", "leave"} : Goto(t, there)
      BY DEF Retire
<1>8. /\ rec \in SlotRecords /\ rec.occupied = slots[Slot(t)].occupied
      /\ rec.epoch = slots[Slot(t)].epoch /\ rec.active = slots[Slot(t)].active
      /\ rec.retired = slots[Slot(t)].retired \cup {old}
  <2>1. old \in [node : Nodes, epoch : Nat]
        BY <1>2, <1>4, <1>5
  <2>2. rec = [slots[Slot(t)] EXCEPT !.retired = slots[Slot(t)].retired \cup {old}]
        BY <1>4
  <2> QED BY <1>2, <2>1, <2>2 DEF SlotRecords
<1>9. rec.epoch <= globalEpoch' /\ rec.active /\ rec.occupied
      BY <1>1, <1>2, <1>6, <1>8 DEF TokenOK, Critical, Popping
<1>10. loc' = [loc EXCEPT ![t] = loc[t]] /\ loc[t].slot = Slot(t)
      BY <1>6 DEF SafeInv, TypeOK, Slot
<1>11. /\ globalEpoch' \in Nat /\ globalEpoch <= globalEpoch' /\ freed' \in SUBSET Nodes
      BY <1>2, <1>6
<1>12. ASSUME NEW r \in rec.retired, r \notin slots[Slot(t)].retired
       PROVE  /\ rank[r.node] # 0 /\ rank[r.node] < rank[head]
              /\ \A u \in Threads \ {t} : Before(rank, r.node, u) \/ slots[Slot(u)].epoch <= r.epoch
  <2>1. r.node = node /\ r.epoch = globalEpoch
        BY <1>4, <1>8, <1>12
  <2>2. \A u \in Threads : pc[u] \in Critical => slots[Slot(u)].epoch <= globalEpoch
        BY DEF SafeInv, TokensOK, TokenOK
  <2> QED BY <1>5, <2>1, <2>2, UsesNothing
<1>13. /\ there \in Idle \ {"outside"} /\ there # "store_epoch"
       /\ there \notin {"scan", "scan_epoch"} /\ there # "scan_epoch"
      BY <1>7 DEF Idle
<1> QED BY <1>1, <1>2, <1>6, <1>7, <1>8, <1>9, <1>10, <1>11, <1>12, <1>13, OwnStep

\* Advancing the epoch and scanning the slots: what the scan has seen stays true.
LEMMA ScanStepsSafe ==
    ASSUME NEW rank, NEW top, SafeInv(rank, top), NEW t \in Threads,
           AdvanceEpoch(t) \/ ScanStart(t) \/ ScanFlags(t) \/ ScanEpoch(t)
    PROVE  SafeInv(rank, top)'
<1>1. pc[t] \in {"advance", "scan_start", "scan", "scan_epoch"}
      BY DEF AdvanceEpoch, ScanStart, ScanFlags, ScanEpoch, At
<1>2. pc[t] # "outside" /\ pc[t] \in Popping /\ pc[t] \in Critical
      BY <1>1 DEF Popping, Critical
<1>3. /\ Slot(t) \in Slots /\ slots[Slot(t)] \in SlotRecords /\ slots[Slot(t)].occupied
      /\ loc[t] \in Locals /\ TokenOK(t) /\ globalEpoch \in Nat /\ freed \in SUBSET Nodes
      /\ Slots \subseteq Nat
      BY <1>2, OwnSlot DEF SafeInv, TypeOK
<1>4. /\ t \in Consumers /\ slots[Slot(t)].active /\ slots[Slot(t)].epoch <= globalEpoch
      /\ slots[Slot(t)].epoch \in Nat
      BY <1>2, <1>3 DEF TokenOK, SlotRecords
<1>5. /\ UNCHANGED <<head, tail, next, allocated, freed, slots>>
      /\ slots' = [slots EXCEPT ![Slot(t)] = slots[Slot(t)]]
      /\ freed' \in SUBSET Nodes
      BY <1>3 DEF AdvanceEpoch, ScanStart, ScanFlags, ScanEpoch, shared, SafeInv, TypeOK
<1>6. globalEpoch' \in Nat /\ globalEpoch <= globalEpoch' /\ slots[Slot(t)].epoch <= globalEpoch'
      BY <1>3, <1>4 DEF AdvanceEpoch, ScanStart, ScanFlags, ScanEpoch, shared
<1>7. Slot(t) = loc[t].slot
      BY DEF Slot
<1>8. \A u \in Threads \ {t} : pc[u] \in Critical =>
         /\ Slot(u) \in Slots /\ Slot(u) \in Nat /\ Slot(u) # 0
         /\ slots[Slot(u)].occupied /\ slots[Slot(u)].active /\ slots[Slot(u)].epoch \in Nat
  <2>1. \A u \in Threads \ {t} : pc[u] \in Critical =>
           Slot(u) \in Slots /\ slots[Slot(u)].occupied /\ slots[Slot(u)].active
        BY DEF SafeInv, TokensOK, TokenOK, Critical, Popping, Pushing
  <2>2. \A x \in Slots : x \in Nat /\ x # 0 /\ slots[x].epoch \in Nat
        BY ThreadsAssumption DEF Slots, SafeInv, TypeOK, SlotRecords
  <2> QED BY <2>1, <2>2
<1>9. pc[t] \in {"scan", "scan_epoch"} =>
         \A u \in Threads \ {t} : pc[u] \in Critical /\ Slot(u) < loc[t].index =>
             \/ loc[t].minimum <= slots[Slot(u)].epoch
             \/ \A r \in slots[Slot(t)].retired : Before(rank, r.node, u)
      BY DEF SafeInv, ReclamationOK
<1>10. loc[t].index \in Nat /\ loc[t].minimum \in Nat
      BY <1>3 DEF Locals
<1>11. CASE AdvanceEpoch(t)
  <2>1. loc' = [loc EXCEPT ![t] = loc[t]] /\ Goto(t, "scan_start")
        BY <1>11 DEF AdvanceEpoch, SafeInv, TypeOK
  <2>2. "scan_start" \in Idle \ {"outside"}
        BY DEF Idle
  <2> QED BY <1>2, <1>3, <1>4, <1>5, <1>6, <1>7, <2>1, <2>2, OwnStep
<1>12. CASE ScanStart(t)
  <2>1. PICK l : l = [loc[t] EXCEPT !.minimum = globalEpoch + 1, !.index = 1]
        OBVIOUS
  <2>2. loc' = [loc EXCEPT ![t] = l] /\ Goto(t, "scan")
        BY <1>12, <2>1 DEF ScanStart, SafeInv, TypeOK
  <2>3. l \in Locals /\ l.slot = Slot(t) /\ l.index = 1 /\ l.index # 0
    <3>0. PICK m : m = [loc[t] EXCEPT !.minimum = globalEpoch + 1]
          OBVIOUS
    <3>a. m \in Locals
          BY <1>3, <3>0 DEF Locals
    <3>b. l = [m EXCEPT !.index = 1]
          BY <2>1, <3>0
    <3>1. l \in Locals
          BY <3>a, <3>b DEF Locals
    <3>2. l.index = 1 /\ l.slot = loc[t].slot
          BY <1>3, <2>1 DEF Locals
    <3> QED BY <1>7, <3>1, <3>2
  <2>4. \A u \in Threads \ {t} : pc[u] \in Critical => ~(Slot(u) < l.index)
        BY <1>8, <2>3
  <2>5. "scan" \in Idle \ {"outside"}
        BY DEF Idle
  <2> QED BY <1>2, <1>3, <1>4, <1>5, <1>6, <2>2, <2>3, <2>4, <2>5, OwnStep
<1>13. CASE ScanFlags(t)
  <2>1. pc[t] = "scan" /\ loc[t].index # 0 /\ loc[t].index \in Slots
    <3>1. pc[t] = "scan" /\ loc[t].index # 0 /\ loc[t].index <= MaxThreads
          BY <1>3, <1>13 DEF ScanFlags, At, TokenOK
    <3> QED BY <1>10, <3>1, ThreadsAssumption DEF Slots
  <2>2. CASE slots[loc[t].index].occupied /\ slots[loc[t].index].active
    <3>1. loc' = [loc EXCEPT ![t] = loc[t]] /\ Goto(t, "scan_epoch")
          BY <1>13, <2>2 DEF ScanFlags, SafeInv, TypeOK
    <3>2. "scan_epoch" \in Idle \ {"outside"}
          BY DEF Idle
    <3> QED BY <1>2, <1>3, <1>4, <1>5, <1>6, <1>7, <1>9, <2>1, <3>1, <3>2, OwnStep
  <2>3. CASE ~(slots[loc[t].index].occupied /\ slots[loc[t].index].active)
    <3>1. PICK l : l = [loc[t] EXCEPT !.index = loc[t].index + 1]
          OBVIOUS
    <3>2. loc' = [loc EXCEPT ![t] = l] /\ Goto(t, "scan")
          BY <1>13, <2>1, <2>3, <3>1 DEF ScanFlags, SafeInv, TypeOK, Goto
    <3>3. /\ l \in Locals /\ l.slot = Slot(t) /\ l.index = loc[t].index + 1 /\ l.index # 0
          /\ l.minimum = loc[t].minimum
          BY <1>3, <1>7, <1>10, <3>1 DEF Locals
    <3>4. \A u \in Threads \ {t} : pc[u] \in Critical /\ Slot(u) < l.index => Slot(u) < loc[t].index
          BY <1>8, <1>10, <2>3, <3>3
    <3>5. "scan" \in Idle \ {"outside"}
          BY DEF Idle
    <3>6. \A u \in Threads \ {t} : pc[u] \in Critical /\ Slot(u) < l.index =>
             \/ l.minimum <= slots[Slot(u)].epoch
             \/ \A r \in slots[Slot(t)].retired : Before(rank, r.node, u)
          BY <1>9, <2>1, <3>3, <3>4
    <3> QED BY <1>2, <1>3, <1>4, <1>5, <1>6, <3>2, <3>3, <3>5, <3>6, OwnStep
  <2> QED BY <2>2, <2>3
<1>14. CASE ScanEpoch(t)
  <2>1. pc[t] = "scan_epoch" /\ loc[t].index # 0 /\ loc[t].index \in Slots
        BY <1>3, <1>14 DEF ScanEpoch, At, TokenOK
  <2>2. PICK epoch, minimum, l :
          /\ epoch = slots[loc[t].index].epoch /\ minimum = Min({loc[t].minimum, epoch})
          /\ l = [loc[t] EXCEPT !.minimum = minimum, !.index = @ + 1]
        OBVIOUS
  <2>3. loc' = [loc EXCEPT ![t] = l] /\ Goto(t, "scan")
        BY <1>14, <2>2 DEF ScanEpoch, SafeInv, TypeOK
  <2>4. epoch \in Nat
        BY <2>1, <2>2 DEF SafeInv, TypeOK, SlotRecords
  <2>5. minimum \in Nat /\ minimum <= loc[t].minimum /\ minimum <= epoch
        BY <1>10, <2>2, <2>4, MinOfTwo
  <2>6. /\ l \in Locals /\ l.slot = Slot(t) /\ l.index = loc[t].index + 1 /\ l.index # 0
        /\ l.minimum = minimum
    <3>0. PICK m : m = [loc[t] EXCEPT !.minimum = minimum]
          OBVIOUS
    <3>a. m \in Locals
          BY <1>3, <2>5, <3>0 DEF Locals
    <3>b. l = [m EXCEPT !.index = loc[t].index + 1]
          BY <1>3, <2>2, <3>0 DEF Locals
    <3>c. loc[t].index + 1 \in Nat
          BY <1>10
    <3>1. l \in Locals
          BY <3>a, <3>b, <3>c DEF Locals
    <3>2. l.index = loc[t].index + 1 /\ l.slot = loc[t].slot /\ l.minimum = minimum
          BY <1>3, <2>2 DEF Locals
    <3> QED BY <1>7, <1>10, <3>1, <3>2
  <2>7. ASSUME NEW u \in Threads \ {t}, pc[u] \in Critical, Slot(u) < l.index
        PROVE  \/ l.minimum <= slots[Slot(u)].epoch
               \/ \A r \in slots[Slot(t)].retired : Before(rank, r.node, u)
    <3>1. CASE Slot(u) = loc[t].index
          BY <2>2, <2>5, <2>6, <3>1
    <3>2. CASE Slot(u) < loc[t].index
      <4>1. \/ loc[t].minimum <= slots[Slot(u)].epoch
            \/ \A r \in slots[Slot(t)].retired : Before(rank, r.node, u)
            BY <1>9, <2>1, <2>7, <3>2
      <4>2. slots[Slot(u)].epoch \in Nat
            BY <1>8, <2>7
      <4>3. loc[t].minimum <= slots[Slot(u)].epoch => l.minimum <= slots[Slot(u)].epoch
            BY <1>10, <2>5, <2>6, <4>2
      <4> QED BY <4>1, <4>3
    <3> QED BY <1>8, <1>10, <2>6, <2>7, <3>1, <3>2
  <2>8. "scan" \in Idle \ {"outside"}
        BY DEF Idle
  <2> QED BY <1>2, <1>3, <1>4, <1>5, <1>6, <2>3, <2>6, <2>7, <2>8, OwnStep
<1> QED BY <1>11, <1>12, <1>13, <1>14

\* Reclamation deletes only nodes retired before every epoch the scan has met.
LEMMA ReclaimSafe ==
    ASSUME NEW rank, NEW top, SafeInv(rank, top), NEW t \in Threads, Reclaim(t)
    PROVE  SafeInv(rank, top)'
<1>1. /\ pc[t] = "scan" /\ pc[t] # "outside" /\ pc[t] \in Popping /\ pc[t] \in Critical
      /\ MaxThreads < loc[t].index
      BY ThreadsAssumption DEF Reclaim, At, Popping, Critical, SafeInv, TypeOK, Locals
<1>2. /\ Slot(t) \in Slots /\ slots[Slot(t)] \in SlotRecords /\ slots[Slot(t)].occupied
      /\ loc[t] \in Locals /\ TokenOK(t) /\ globalEpoch \in Nat /\ freed \in SUBSET Nodes
      BY <1>1, OwnSlot DEF SafeInv, TypeOK
<1>3. /\ t \in Consumers /\ slots[Slot(t)].active /\ slots[Slot(t)].epoch <= globalEpoch
      BY <1>1, <1>2 DEF TokenOK
<1>4. PICK old, rec : /\ old = {r \in slots[Slot(t)].retired : r.epoch < loc[t].minimum}
                      /\ rec = [slots[Slot(t)] EXCEPT !.retired = @ \ old]
      OBVIOUS
<1>5. /\ slots' = [slots EXCEPT ![Slot(t)] = rec] /\ freed' = freed \cup {r.node : r \in old}
      /\ UNCHANGED <<head, tail, next, allocated, globalEpoch, loc>> /\ Goto(t, "leave")
      BY <1>4 DEF Reclaim
<1>6. /\ rec \in SlotRecords /\ rec.occupied = slots[Slot(t)].occupied
      /\ rec.epoch = slots[Slot(t)].epoch /\ rec.active = slots[Slot(t)].active
      /\ \A r \in rec.retired : r \in slots[Slot(t)].retired
      BY <1>2, <1>4 DEF SlotRecords
<1>7. \A r \in old : r \in slots[Slot(t)].retired /\ r.node \in Nodes /\ r.epoch \in Nat
      BY <1>2, <1>4 DEF SlotRecords
<1>8. loc' = [loc EXCEPT ![t] = loc[t]] /\ loc[t].slot = Slot(t)
      BY <1>5 DEF SafeInv, TypeOK, Slot
<1>9. /\ globalEpoch' \in Nat /\ globalEpoch <= globalEpoch' /\ freed' \in SUBSET Nodes
      BY <1>2, <1>5, <1>7
<1>10. ASSUME NEW r \in old, NEW u \in Threads \ {t}
       PROVE  Before(rank, r.node, u)
  <2>1. CASE pc[u] \notin Critical
        BY <2>1, UsesNothing
  <2>2. CASE pc[u] \in Critical
    <3>1. Slot(u) \in Slots
          BY <2>2 DEF SafeInv, TokensOK, TokenOK, Critical, Popping, Pushing
    <3>2. Slot(u) < loc[t].index /\ slots[Slot(u)].epoch \in Nat /\ loc[t].minimum \in Nat
          BY <1>1, <1>2, <3>1, ThreadsAssumption DEF Slots, SafeInv, TypeOK, SlotRecords, Locals
    <3>3. \/ loc[t].minimum <= slots[Slot(u)].epoch
          \/ \A x \in slots[Slot(t)].retired : Before(rank, x.node, u)
          BY <1>1, <2>2, <3>2 DEF SafeInv, ReclamationOK
    <3>4. Before(rank, r.node, u) \/ slots[Slot(u)].epoch <= r.epoch
          BY <1>2, <1>7 DEF SafeInv, ReclamationOK
    <3>5. r.epoch < loc[t].minimum
          BY <1>4
    <3> QED BY <1>7, <3>2, <3>3, <3>4, <3>5
  <2> QED BY <2>1, <2>2
<1>11. \A r \in old : rank[r.node] # 0 /\ rank[r.node] < rank[head]
      BY <1>2, <1>7 DEF SafeInv, ReclamationOK
<1>12. \A n \in freed' : n \in freed \/
         /\ rank[n] # 0 /\ rank[n] < rank[head]
         /\ \A u \in Threads \ {t} : Before(rank, n, u)
      BY <1>5, <1>10, <1>11
<1>13. /\ "leave" \in Idle \ {"outside"} /\ "leave" # "store_epoch"
       /\ "leave" \notin {"scan", "scan_epoch"} /\ "leave" # "scan_epoch"
       /\ t \notin Consumers => rec.retired = {}
      BY <1>3 DEF Idle
<1>14. rec.occupied /\ rec.active /\ rec.epoch <= globalEpoch'
      BY <1>2, <1>3, <1>5, <1>6
<1>15. pc[t] # "outside" /\ loc[t] \in Locals /\ t \in Consumers
      BY <1>1, <1>2, <1>3
<1> QED BY <1>5, <1>6, <1>8, <1>9, <1>12, <1>13, <1>14, <1>15, OwnStep

-----------------------------------------------------------------------------
(* What Chain computes.                                                      *)

\* f holds the nodes on the way from first, up to the n-th.
IsWalk(f, first, links, n) ==
    f = [k \in 0..n |-> IF k = 0 THEN first ELSE IF f[k - 1] = Nil THEN Nil ELSE links[f[k - 1]]]

\* Following the links from a node for n steps is well defined.
LEMMA WalkExists ==
    ASSUME NEW first, NEW links, NEW n \in Nat
    PROVE  \E f : IsWalk(f, first, links, n)
<1> DEFINE S == {m \in Nat : ~\E f : IsWalk(f, first, links, m)}
<1>1. SUFFICES ASSUME S # {} PROVE FALSE
      OBVIOUS
<1>2. PICK m \in S : \A y \in S : m <= y
      BY <1>1, LeastExists
<1>3. CASE m = 0
  <2>1. PICK f : f = [k \in 0..0 |-> first]
        OBVIOUS
  <2>2. IsWalk(f, first, links, 0)
        BY <2>1 DEF IsWalk
  <2> QED BY <1>3, <2>2
<1>4. CASE m # 0
  <2>1. m - 1 \in Nat /\ m - 1 \notin S
        BY <1>2, <1>4
  <2>2. PICK g : IsWalk(g, first, links, m - 1)
        BY <2>1
  <2>3. PICK f : f = [k \in 0..m |-> IF k = m THEN (IF g[m - 1] = Nil THEN Nil ELSE links[g[m - 1]])
                                     ELSE g[k]]
        OBVIOUS
  <2>4. \A k \in 0..m : f[k] = IF k = 0 THEN first
                               ELSE IF f[k - 1] = Nil THEN Nil ELSE links[f[k - 1]]
    <3>1. /\ f[m] = IF g[m - 1] = Nil THEN Nil ELSE links[g[m - 1]]
          /\ \A k \in 0..m - 1 : f[k] = g[k]
          BY <1>2, <2>3
    <3>2. \A k \in 0..m - 1 : g[k] = IF k = 0 THEN first
                                    ELSE IF g[k - 1] = Nil THEN Nil ELSE links[g[k - 1]]
          BY <2>2 DEF IsWalk
    <3>3. m - 1 \in 0..m - 1 /\ m \in Nat
          BY <1>2, <2>1
    <3> TAKE k \in 0..m
    <3>4. CASE k = m
          BY <1>4, <3>1, <3>3, <3>4
    <3>5. CASE k \in 0..m - 1 /\ k # 0
      <4>1. k - 1 \in 0..m - 1
            BY <3>3, <3>5
      <4> QED BY <3>1, <3>2, <3>5, <4>1
    <3>6. CASE k = 0
      <4>1. 0 \in 0..m - 1
            BY <3>3, <1>4
      <4> QED BY <3>1, <3>2, <3>6, <4>1
    <3> QED BY <3>3, <3>4, <3>5, <3>6
  <2>5. IsWalk(f, first, links, m)
        BY <2>3, <2>4 DEF IsWalk
  <2> QED BY <2>5
<1> QED BY <1>3, <1>4

\* Chain is the part of that walk before it meets Nil.
LEMMA ChainIsWalk ==
    ASSUME NEW first, NEW links
    PROVE  \E f : /\ IsWalk(f, first, links, MaxPushes + 1)
                  /\ Chain(first, links) = [k \in 1..Max({k \in 0..MaxPushes + 1 : f[k] # Nil}) |-> f[k]]
<1>1. MaxPushes + 1 \in Nat
      BY NilIsNoNode
<1>2. \E f : IsWalk(f, first, links, MaxPushes + 1)
      BY <1>1, WalkExists
<1>3. PICK f : f = CHOOSE g : IsWalk(g, first, links, MaxPushes + 1)
      OBVIOUS
<1>4. IsWalk(f, first, links, MaxPushes + 1)
      BY <1>2, <1>3
<1>5. Chain(first, links) = [k \in 1..Max({k \in 0..MaxPushes + 1 : f[k] # Nil}) |-> f[k]]
      BY <1>3 DEF Chain, IsWalk
<1> QED BY <1>4, <1>5

\* s is what comes after first: the nodes with the numbers after its own.
IsAfter(s, first, rank, top) ==
    /\ s \in Seq(Nodes) /\ Len(s) = top - rank[first]
    /\ \A k \in 1..Len(s) : rank[s[k]] = rank[first] + k

\* There are no more linked nodes than nodes.
LEMMA RankBound ==
    ASSUME NEW rank, NEW top, Numbers(rank, top)
    PROVE  top <= MaxPushes + 1
<1>1. PICK f : f = [k \in 1..top |-> CHOOSE n \in Nodes : rank[n] = k]
      OBVIOUS
<1>2. \A k \in 1..top : f[k] \in Nodes /\ rank[f[k]] = k
      BY <1>1 DEF Numbers
<1>3. f \in Injection(1..top, Nodes)
      BY <1>1, <1>2 DEF Injection, IsInjective
<1>4. MaxPushes \in Nat /\ top \in Nat
      BY NilIsNoNode DEF Numbers
<1>5. IsFiniteSet(Nodes) /\ Cardinality(Nodes) = MaxPushes + 1
      BY <1>4, FS_Interval DEF Nodes
<1>6. Cardinality(1..top) = top
      BY <1>4, FS_Interval
<1> QED BY <1>3, <1>5, <1>6, FS_Injection

\* The walk visits the linked nodes by rank and then stays at Nil.
LEMMA WalkRanks ==
    ASSUME NEW rank, NEW top, NEW links, Numbers(rank, top), Joins(links, rank, top),
           NEW first \in Nodes, rank[first] # 0,
           NEW f, IsWalk(f, first, links, MaxPushes + 1), NEW n \in 0..MaxPushes + 1
    PROVE  IF rank[first] + n <= top THEN f[n] \in Nodes /\ rank[f[n]] = rank[first] + n
                                     ELSE f[n] = Nil
<1> DEFINE Right(m) == IF rank[first] + m <= top THEN f[m] \in Nodes /\ rank[f[m]] = rank[first] + m
                                                 ELSE f[m] = Nil
           S == {m \in 0..MaxPushes + 1 : ~Right(m)}
<1>1. SUFFICES ASSUME S # {} PROVE FALSE
      OBVIOUS
<1>2. MaxPushes \in Nat /\ top \in Nat /\ rank \in [Nodes -> 0..top]
      BY NilIsNoNode DEF Numbers
<1>3. PICK m \in S : \A y \in S : m <= y
  <2>1. S \in SUBSET Nat
        BY <1>2
  <2> HIDE DEF S
  <2> QED BY <1>1, <2>1, LeastExists
<1>4. m \in 0..MaxPushes + 1 /\ ~Right(m)
      OBVIOUS
<1>5. \A k \in 0..MaxPushes + 1 : f[k] = IF k = 0 THEN first
                                        ELSE IF f[k - 1] = Nil THEN Nil ELSE links[f[k - 1]]
      BY DEF IsWalk
<1>6. rank[first] \in 1..top
      BY <1>2
<1>7. CASE m = 0
      BY <1>2, <1>4, <1>5, <1>6, <1>7
<1>8. CASE m # 0
  <2>1. m - 1 \in 0..MaxPushes + 1 /\ m - 1 < m /\ m \in Nat
        BY <1>2, <1>4, <1>8
  <2>2. Right(m - 1)
    <3>1. m - 1 \notin S
          BY <1>3, <2>1
    <3> QED BY <2>1, <3>1
  <2>3. f[m] = IF f[m - 1] = Nil THEN Nil ELSE links[f[m - 1]]
        BY <1>4, <1>5, <1>8
  <2>4. CASE rank[first] + (m - 1) <= top
    <3>1. f[m - 1] \in Nodes /\ rank[f[m - 1]] = rank[first] + (m - 1) /\ f[m - 1] # Nil
          BY <2>2, <2>4, NilIsNoNode
    <3>2. f[m] = links[f[m - 1]]
          BY <2>3, <3>1
    <3>3. CASE rank[first] + m <= top
      <4>1. rank[f[m - 1]] \in 1..top - 1
            BY <1>2, <1>6, <2>1, <3>1, <3>3
      <4>2. f[m] \in Nodes /\ rank[f[m]] = rank[f[m - 1]] + 1
            BY <3>1, <3>2, <4>1 DEF Joins
      <4>3. rank[f[m]] = rank[first] + m
            BY <1>6, <2>1, <3>1, <4>2
      <4> QED BY <1>4, <3>3, <4>2, <4>3
    <3>4. CASE ~(rank[first] + m <= top)
      <4>1. rank[f[m - 1]] \notin 1..top - 1
            BY <1>2, <1>6, <2>1, <3>1, <3>4
      <4>2. f[m] = Nil
            BY <3>1, <3>2, <4>1 DEF Joins
      <4> QED BY <1>4, <3>4, <4>2
    <3> QED BY <3>3, <3>4
  <2>5. CASE ~(rank[first] + (m - 1) <= top)
    <3>1. f[m] = Nil
          BY <2>2, <2>3, <2>5
    <3>2. ~(rank[first] + m <= top)
          BY <1>2, <1>6, <2>1, <2>5
    <3> QED BY <1>4, <3>1, <3>2
  <2> QED BY <2>4, <2>5
<1> QED BY <1>7, <1>8

\* The recursive definition of the queue's contents yields the nodes after the
\* first, in the order they were linked, to the last one.
LEMMA ChainIsAfter ==
    ASSUME NEW rank, NEW top, NEW links, Numbers(rank, top), Joins(links, rank, top),
           NEW first \in Nodes, rank[first] # 0
    PROVE  IsAfter(Chain(first, links), first, rank, top)
<1>1. PICK f : /\ IsWalk(f, first, links, MaxPushes + 1)
               /\ Chain(first, links) = [k \in 1..Max({k \in 0..MaxPushes + 1 : f[k] # Nil}) |-> f[k]]
      BY ChainIsWalk
<1>2. \A n \in 0..MaxPushes + 1 : IF rank[first] + n <= top
                                    THEN f[n] \in Nodes /\ rank[f[n]] = rank[first] + n
                                    ELSE f[n] = Nil
      BY <1>1, WalkRanks
<1>3. /\ MaxPushes \in Nat /\ top \in Nat /\ top <= MaxPushes + 1 /\ rank[first] \in 1..top
      BY NilIsNoNode, RankBound DEF Numbers
<1>4. PICK length : length = top - rank[first]
      OBVIOUS
<1>5. length \in 0..MaxPushes /\ length \in Nat
      BY <1>3, <1>4
<1>6. {k \in 0..MaxPushes + 1 : f[k] # Nil} = 0..length
  <2>1. \A k \in 0..MaxPushes + 1 : f[k] # Nil <=> rank[first] + k <= top
        BY <1>2, NilIsNoNode
  <2>2. \A k \in 0..MaxPushes + 1 : rank[first] + k <= top <=> k \in 0..length
        BY <1>3, <1>4
  <2>3. 0..length \subseteq 0..MaxPushes + 1
        BY <1>3, <1>5
  <2> QED BY <2>1, <2>2, <2>3
<1>7. Max(0..length) = length
  <2>1. length \in 0..length /\ \A y \in 0..length : length >= y
        BY <1>5
  <2>2. \A x \in 0..length : (\A y \in 0..length : x >= y) => x = length
        BY <1>5, <2>1
  <2> QED BY <2>1, <2>2 DEF Max
<1>8. Chain(first, links) = [k \in 1..length |-> f[k]]
      BY <1>1, <1>6, <1>7
<1>9. \A k \in 1..length : f[k] \in Nodes /\ rank[f[k]] = rank[first] + k
  <2>1. \A k \in 1..length : k \in 0..MaxPushes + 1 /\ rank[first] + k <= top
        BY <1>3, <1>4, <1>5
  <2> QED BY <1>2, <2>1
<1> QED BY <1>4, <1>5, <1>8, <1>9 DEF IsAfter

\* There is one such sequence.
LEMMA AfterIsUnique ==
    ASSUME NEW rank, NEW top, Numbers(rank, top), NEW first \in Nodes, rank[first] # 0,
           NEW s, NEW r, IsAfter(s, first, rank, top), IsAfter(r, first, rank, top)
    PROVE  s = r
<1>1. Len(s) = Len(r) /\ s \in Seq(Nodes) /\ r \in Seq(Nodes)
      BY DEF IsAfter
<1>2. \A k \in 1..Len(s) : s[k] \in Nodes /\ r[k] \in Nodes /\ rank[s[k]] = rank[r[k]] /\ rank[s[k]] # 0
  <2>1. rank[first] \in Nat
        BY DEF Numbers
  <2> QED BY <1>1, <2>1 DEF IsAfter
<1>3. \A k \in 1..Len(s) : s[k] = r[k]
      BY <1>2 DEF Numbers
<1> QED BY <1>1, <1>3

-----------------------------------------------------------------------------
(* Beginning and end.                                                        *)

\* The empty list with its stub node.
LEMMA InitSafe ==
    ASSUME Init
    PROVE  \E rank, top : SafeInv(rank, top)
<1>1. PICK rank, top : rank = [n \in Nodes |-> IF n = Stub THEN 1 ELSE 0] /\ top = 1
      OBVIOUS
<1>2. Stub \in Nodes /\ Nil \in Pointers /\ Nil \notin Nodes
      BY BoundsAssumption, NilIsNoNode DEF Nodes, Stub, Pointers
<1>3. DOMAIN Registered \subseteq Slots
      BY ThreadsAssumption DEF Slots
<1>4. FreeSlot \in SlotRecords /\ NoLocals \in Locals
      BY <1>2 DEF FreeSlot, SlotRecords, NoLocals, Locals
<1>5. \A t \in Range(Registered) :
         /\ AntiFunction(Registered)[t] \in DOMAIN Registered
         /\ Registered[AntiFunction(Registered)[t]] = t
      BY DEF AntiFunction, Inverse, Range
<1>6. \A t \in Range(Registered) : AntiFunction(Registered)[t] \in Slots
      BY <1>3, <1>5
<1>7. \A s \in Slots : slots[s] \in SlotRecords /\ slots[s].retired = {}
      BY <1>4 DEF Init, FreeSlot, SlotRecords
<1>8. \A t \in Threads :
         IF t \in Range(Registered)
           THEN /\ pc[t] = "ready" /\ loc[t] \in Locals
                /\ loc[t].slot = AntiFunction(Registered)[t]
           ELSE pc[t] = "outside" /\ loc[t] \in Locals
  <2>1. \A x \in Slots : x \in Nat
        BY ThreadsAssumption DEF Slots
  <2>2. ASSUME NEW x \in Nat
        PROVE  [NoLocals EXCEPT !.slot = x] \in Locals /\ [NoLocals EXCEPT !.slot = x].slot = x
        BY <1>4 DEF Locals, NoLocals
  <2> QED BY <1>4, <1>6, <2>1, <2>2 DEF Init
<1>9. TypeOK
  <2>1. slots \in [Slots -> SlotRecords]
        BY <1>7 DEF Init
  <2>2. pc \in [Threads -> Steps] /\ loc \in [Threads -> Locals]
        BY <1>8 DEF Init, Steps
  <2> QED BY <2>1, <2>2, BoundsAssumption DEF Init, TypeOK
<1>10. TokensOK
  <2>1. ASSUME NEW t \in Threads PROVE TokenOK(t)
    <3>1. CASE t \in Range(Registered)
      <4>1. pc[t] = "ready" /\ Slot(t) = AntiFunction(Registered)[t]
            BY <1>8, <3>1 DEF Slot
      <4>2. Slot(t) \in Slots /\ slots[Slot(t)].occupied
            BY <1>5, <1>6, <3>1, <4>1 DEF Init, FreeSlot
      <4> QED BY <1>7, <4>1, <4>2 DEF TokenOK, Critical, Popping, Pushing
    <3>2. CASE t \notin Range(Registered)
          BY <1>8, <3>2 DEF TokenOK, Critical, Popping, Pushing
    <3> QED BY <3>1, <3>2
  <2>2. ASSUME NEW t \in Threads, NEW u \in Threads, t # u, pc[t] # "outside", pc[u] # "outside"
        PROVE  Slot(t) # Slot(u)
        BY <1>5, <1>8, <2>2 DEF Slot
  <2> QED BY <2>1, <2>2 DEF TokensOK
<1>11. \A t \in Threads : pc[t] \in {"outside", "ready"}
      BY <1>8
<1>12. NodesApart
      BY <1>11 DEF NodesApart, Unlinked
<1>13. ListOK(rank, top)
  <2>1. rank \in [Nodes -> 0..top] /\ top \in Nat
        BY <1>1
  <2>2. \A n \in Nodes : rank[n] # 0 <=> n = Stub
        BY <1>1
  <2>3. \A n \in Nodes : rank[n] \notin 1..top - 1
        BY <1>1
  <2>4. next \in [Nodes -> Pointers] /\ \A n \in Nodes : next[n] = Nil
        BY <1>2 DEF Init
  <2>5. head = Stub /\ tail = Stub /\ allocated = 1 /\ Stub < allocated
        BY DEF Init, Stub
  <2>6. rank[head] <= rank[tail]
        BY <1>1, <1>2, <2>5
  <2>7. \A k \in 1..top : \E n \in Nodes : rank[n] = k
        BY <1>1, <1>2
  <2> QED BY <1>2, <2>1, <2>2, <2>3, <2>4, <2>5, <2>6, <2>7 DEF ListOK, Numbers, Joins
<1>14. \A t \in Threads : LocalOK(rank, t)
      BY <1>11 DEF LocalOK, UsesHead, UsesTail, Unlinked
<1>15. ReclamationOK(rank)
  <2>1. \A t \in Threads : pc[t] \notin Critical /\ pc[t] \notin {"scan", "scan_epoch"}
        BY <1>11 DEF Critical, Popping, Pushing
  <2> QED BY <1>7, <2>1 DEF ReclamationOK, Init
<1> QED BY <1>9, <1>10, <1>12, <1>13, <1>14, <1>15 DEF SafeInv

\* Every step keeps the list and what the threads know of it; linking adds a rank.
LEMMA NextSafe ==
    ASSUME Leavers \cap Consumers = {},
           NEW rank, NEW top, SafeInv(rank, top), [Next]_vars
    PROVE  \/ SafeInv(rank, top)'
           \/ \E rank2, top2 : /\ SafeInv(rank2, top2)'
                              /\ \E t \in Threads : Grows(t, rank, top, rank2, top2)
<1>1. CASE UNCHANGED vars
  <2>1. SafeInv(rank, top)'
      BY <1>1 DEF vars, shared, SafeInv, TypeOK, TokensOK, TokenOK, NodesApart, ListOK, Numbers, Joins, LocalOK,
                  ReclamationOK, Before, InUse, Slot
  <2> QED BY <2>1
<1>2. ASSUME NEW t \in Threads, MakeToken(t) \/ ReleaseToken(t)
      PROVE  SafeInv(rank, top)'
      BY <1>2, MakeTokenSafe, ReleaseTokenSafe
<1>3. ASSUME NEW t \in Threads, Call(t) \/ StoreEpoch(t) \/ Enter(t) \/ Leave(t)
      PROVE  SafeInv(rank, top)'
      BY <1>3, GuardStepsSafe
<1>4. ASSUME NEW t \in Threads, Push(t)
      PROVE  \/ SafeInv(rank, top)'
             \/ \E rank2, top2 : SafeInv(rank2, top2)' /\ Grows(t, rank, top, rank2, top2)
      BY <1>4, NewNodeSafe, PushLoadTailSafe, PushLoadNextSafe, PushRecheckSafe, PushLinkSafe,
         TailStepsSafe, PushCountSafe DEF Push
<1>5. ASSUME NEW t \in Threads, Pop(t)
      PROVE  SafeInv(rank, top)'
      BY <1>5, PopLoadHeadSafe, PopLoadTailSafe, PopLoadNextSafe, PopRecheckSafe, TailStepsSafe,
         PopClaimSafe, PopTakeSafe DEF Pop
<1>6. ASSUME NEW t \in Threads, Collect(t)
      PROVE  SafeInv(rank, top)'
      BY <1>6, RetireSafe, ScanStepsSafe, ReclaimSafe DEF Collect
<1> QED BY <1>1, <1>2, <1>3, <1>4, <1>5, <1>6 DEF Next

-----------------------------------------------------------------------------
(* Values and emptiness.                                                     *)

\* The values that are pushed or in the queue, or claimed and not yet taken, are
\* there; no two consumers have claimed the same.
ValuesOK(rank) ==
    /\ \A n \in Nodes : rank[head] < rank[n] => n \in full
    /\ \A t \in Threads : pc[t] \in Unlinked => loc[t].node \in full
    /\ \A t \in Threads : pc[t] = "pop_take" => loc[t].next \in full
    /\ \A t, u \in Threads :
          t # u /\ pc[t] = "pop_take" /\ pc[u] = "pop_take" => loc[t].next # loc[u].next

\* While the queue is empty, all threads inside have seen it so, and so has one
\* that found no next node.
EmptyOK(rank, top) ==
    /\ rank[head] = top => Inside \subseteq sawEmpty
    /\ \A t \in Threads : pc[t] = "pop_recheck" /\ loc[t].next = Nil => t \in sawEmpty
    /\ \A t \in Threads : pc[t] = "leave_empty" => t \in sawEmpty

QueueInv(rank, top) == SafeInv(rank, top) /\ ValuesOK(rank) /\ EmptyOK(rank, top)

\* What the proofs below use of the list.
LEMMA ListFacts ==
    ASSUME NEW rank, NEW top, SafeInv(rank, top)
    PROVE  /\ top \in Nat /\ rank \in [Nodes -> Nat] /\ \A n \in Nodes : rank[n] <= top
           /\ head \in Nodes /\ rank[head] # 0 /\ Numbers(rank, top) /\ Joins(next, rank, top)
  BY DEF SafeInv, ListOK, Numbers

\* What t has claimed is the node after the one it took for the head.
LEMMA ClaimFacts ==
    ASSUME NEW rank, NEW top, SafeInv(rank, top), NEW t \in Threads,
           pc[t] \in {"pop_claim", "pop_take"}
    PROVE  /\ loc[t].head \in Nodes /\ loc[t].next \in Nodes
           /\ rank[loc[t].next] = rank[loc[t].head] + 1
           /\ pc[t] = "pop_take" => rank[loc[t].next] <= rank[head]
<1>1. /\ loc[t].head \in Nodes /\ rank[loc[t].head] # 0
      /\ loc[t].next = next[loc[t].head] /\ loc[t].next # Nil
      /\ pc[t] = "pop_take" => rank[loc[t].head] < rank[head]
      BY DEF SafeInv, LocalOK, UsesHead
<1>2. loc[t].next \in Nodes /\ rank[loc[t].next] = rank[loc[t].head] + 1
      BY <1>1, NextIsLinked DEF SafeInv
<1>3. pc[t] = "pop_take" => rank[loc[t].next] <= rank[head]
      BY <1>1, <1>2, ListFacts
<1> QED BY <1>1, <1>2, <1>3

\* A step that claims no value, takes none and brings none.
KeepsValues(t) ==
    /\ Others(t) /\ UNCHANGED <<head, full>> /\ pc'[t] # "pop_take"
    /\ pc'[t] \in Unlinked => pc[t] \in Unlinked /\ loc'[t].node = loc[t].node

\* A step that leaves the claims alone keeps the values in place.
LEMMA ValuesKept ==
    ASSUME NEW rank, ValuesOK(rank), NEW t \in Threads, KeepsValues(t)
    PROVE  ValuesOK(rank)'
  BY DEF ValuesOK, KeepsValues, Others

\* The steps that neither fill a node nor claim one.
LEMMA QuietValues ==
    ASSUME TypeOK, NEW t \in Threads,
           \/ MakeToken(t) \/ ReleaseToken(t) \/ Call(t) \/ StoreEpoch(t) \/ Enter(t) \/ Leave(t)
           \/ (Push(t) /\ ~NewNode(t)) \/ (Pop(t) /\ ~PopClaim(t) /\ ~PopTake(t)) \/ Collect(t)
    PROVE  KeepsValues(t)
<1> USE DEF TypeOK, KeepsValues, Others, Goto, At, Unlinked, shared
<1>1. CASE MakeToken(t) \/ ReleaseToken(t)
      BY <1>1 DEF MakeToken, ReleaseToken
<1>2. CASE Call(t) \/ StoreEpoch(t) \/ Enter(t) \/ Leave(t)
      BY <1>2 DEF Call, StoreEpoch, Enter, Leave
<1>3. CASE Push(t) /\ ~NewNode(t)
  <2>1. CASE PushLoadTail(t) \/ PushLoadNext(t)
        BY <2>1 DEF PushLoadTail, PushLoadNext, Locals
  <2>2. CASE PushRecheck(t) \/ PushLink(t) \/ PushSwing(t) \/ PushCount(t) \/ PushHelp(t)
        BY <2>2 DEF PushRecheck, PushLink, PushSwing, PushCount, PushHelp
  <2> QED BY <1>3, <2>1, <2>2 DEF Push
<1>4. CASE Pop(t) /\ ~PopClaim(t) /\ ~PopTake(t)
      BY <1>4 DEF Pop, PopLoadHead, PopLoadTail, PopLoadNext, PopRecheck, PopHelp, PopCount
<1>5. CASE Collect(t)
      BY <1>5 DEF Collect, Retire, AdvanceEpoch, ScanStart, ScanFlags, ScanEpoch, Reclaim
<1> QED BY <1>1, <1>2, <1>3, <1>4, <1>5

\* Every step keeps the values where their claimants will find them.
LEMMA NextValues ==
    ASSUME NEW rank, NEW top, SafeInv(rank, top), ValuesOK(rank), [Next]_vars
    PROVE  ValuesOK(rank)'
<1>1. CASE UNCHANGED vars
      BY <1>1 DEF vars, shared, ValuesOK
<1>2. ASSUME NEW t \in Threads, NewNode(t) PROVE ValuesOK(rank)'
  <2>1. /\ head' = head /\ full' = full \cup {allocated} /\ Others(t) /\ pc'[t] = "push"
        /\ loc'[t].node = allocated
        BY <1>2 DEF NewNode, SafeInv, TypeOK, Others, Goto, Locals
  <2> QED BY <2>1 DEF ValuesOK, Others
<1>3. ASSUME NEW t \in Threads, PopTake(t) PROVE ValuesOK(rank)'
  <2>1. /\ pc[t] = "pop_take" /\ head' = head /\ full' = full \ {loc[t].next} /\ loc' = loc
        /\ Others(t) /\ pc'[t] = "pop_count"
        BY <1>3 DEF PopTake, At, SafeInv, TypeOK, Others, Goto
  <2>2. loc[t].next \in Nodes /\ rank[loc[t].next] <= rank[head] /\ rank[loc[t].next] # 0
        BY <2>1, ClaimFacts, ListFacts
  <2>3. \A n \in Nodes : rank[head] < rank[n] => n # loc[t].next
        BY <2>2, ListFacts
  <2>4. \A u \in Threads : pc[u] \in Unlinked => loc[u].node # loc[t].next
        BY <2>2 DEF SafeInv, LocalOK
  <2> QED BY <2>1, <2>3, <2>4 DEF ValuesOK, Others, Unlinked
<1>4. ASSUME NEW t \in Threads, PopClaim(t) PROVE ValuesOK(rank)'
  <2>1. pc[t] = "pop_claim" /\ full' = full /\ loc' = loc /\ Others(t)
        BY <1>4 DEF PopClaim, At, SafeInv, TypeOK, Others, Goto
  <2>2. CASE Goto(t, "pop") /\ head' = head
    <3>1. KeepsValues(t)
          BY <2>1, <2>2 DEF KeepsValues, Goto, SafeInv, TypeOK, Unlinked
    <3> QED BY <3>1, ValuesKept
  <2>3. CASE head = loc[t].head /\ head' = loc[t].next /\ Goto(t, "pop_take")
    <3>1. head' \in Nodes /\ rank[head'] = rank[head] + 1 /\ rank[head] \in Nat
          BY <2>1, <2>3, ClaimFacts, ListFacts
    <3>2. head' \in full
          BY <3>1 DEF ValuesOK
    <3>3. \A u \in Threads : pc[u] = "pop_take" => loc[u].next # head'
          BY <3>1, ClaimFacts, ListFacts
    <3>4. \A n \in Nodes : rank[head'] < rank[n] => n \in full
          BY <3>1, ListFacts DEF ValuesOK
    <3>5. pc'[t] = "pop_take"
          BY <2>3 DEF Goto, SafeInv, TypeOK
    <3> QED BY <2>1, <2>3, <3>2, <3>3, <3>4, <3>5 DEF ValuesOK, Others, Unlinked
  <2> QED BY <1>4, <2>2, <2>3 DEF PopClaim
<1>5. ASSUME NEW t \in Threads, KeepsValues(t) PROVE ValuesOK(rank)'
      BY <1>5, ValuesKept
<1>6. TypeOK
      BY DEF SafeInv
<1> QED BY <1>1, <1>2, <1>3, <1>4, <1>5, <1>6, QuietValues DEF Next

\* Linking a node: it is the last one now, and full.
LEMMA GrowsValues ==
    ASSUME NEW rank, NEW top, SafeInv(rank, top), ValuesOK(rank),
           NEW t \in Threads, NEW rank2, NEW top2, Grows(t, rank, top, rank2, top2)
    PROVE  ValuesOK(rank2)'
<1>1. /\ pc[t] = "push_link" /\ head' = head /\ full' = full /\ loc' = loc /\ Others(t)
      /\ pc'[t] = "push_swing"
      BY DEF Grows, At, Goto, Others, SafeInv, TypeOK
<1>2. loc[t].node \in Nodes /\ rank[loc[t].node] = 0 /\ loc[t].node \in full
      BY <1>1 DEF SafeInv, LocalOK, ValuesOK, Unlinked
<1>3. \A n \in Nodes \ {loc[t].node} : rank2[n] = rank[n]
      BY <1>2, ListFacts DEF Grows
<1>4. rank2[head'] = rank[head]
      BY <1>1, <1>2, <1>3, ListFacts
<1> QED BY <1>1, <1>2, <1>3, <1>4 DEF ValuesOK, Others, Unlinked

\* The contents are the nodes after head_: none, when head_ is the last one.
LEMMA ContentsFacts ==
    ASSUME NEW rank, NEW top, SafeInv(rank, top)
    PROVE  /\ IsAfter(Contents, head, rank, top)
           /\ rank[head] = top => Contents = << >>
<1>1. IsAfter(Contents, head, rank, top)
      BY ListFacts, ChainIsAfter DEF Contents
<1>2. ASSUME rank[head] = top PROVE Contents = << >>
  <2>1. Contents \in Seq(Nodes) /\ Len(Contents) = 0
        BY <1>1, <1>2, ListFacts DEF IsAfter
  <2> QED BY <2>1
<1> QED BY <1>1, <1>2

\* The same, for the state after a step.
LEMMA NextContentsFacts ==
    ASSUME NEW rank, NEW top, SafeInv(rank, top)'
    PROVE  /\ IsAfter(Contents', head', rank, top)
           /\ rank[head'] = top => Contents' = << >>
<1>1. /\ Numbers(rank, top) /\ Joins(next', rank, top) /\ head' \in Nodes /\ rank[head'] # 0
      /\ top \in Nat
      BY DEF SafeInv, ListOK, Numbers, Joins
<1>2. Contents' = Chain(head', next')
      BY DEF Contents
<1>3. IsAfter(Contents', head', rank, top)
      BY <1>1, <1>2, ChainIsAfter
<1>4. ASSUME rank[head'] = top PROVE Contents' = << >>
  <2>1. Contents' \in Seq(Nodes) /\ Len(Contents') = 0
        BY <1>1, <1>3, <1>4 DEF IsAfter
  <2> QED BY <2>1
<1> QED BY <1>3, <1>4

\* A step that neither enters, leaves, finds the end of the list nor moves head_.
KeepsEmpty(t) ==
    /\ Others(t) /\ UNCHANGED <<head, sawEmpty>> /\ pc'[t] \notin {"pop_recheck", "leave_empty"}
    /\ pc'[t] \notin {"outside", "ready"} => pc[t] \notin {"outside", "ready"}

\* A step that leaves head_ and the observation alone keeps what was observed.
LEMMA EmptyKept ==
    ASSUME NEW rank, NEW top, EmptyOK(rank, top), NEW t \in Threads, KeepsEmpty(t)
    PROVE  EmptyOK(rank, top)'
<1>1. Inside' \subseteq Inside
      BY DEF KeepsEmpty, Others, Inside
<1> QED BY <1>1 DEF EmptyOK, KeepsEmpty, Others

\* The steps that are not about an empty queue.
LEMMA QuietEmpty ==
    ASSUME TypeOK, NEW t \in Threads,
           \/ MakeToken(t) \/ ReleaseToken(t) \/ StoreEpoch(t) \/ Enter(t) \/ Push(t)
           \/ (Pop(t) /\ ~PopLoadNext(t) /\ ~PopRecheck(t) /\ ~PopClaim(t)) \/ Collect(t)
    PROVE  KeepsEmpty(t)
<1> USE DEF TypeOK, KeepsEmpty, Others, Goto, At, shared
<1>1. CASE MakeToken(t) \/ ReleaseToken(t) \/ StoreEpoch(t) \/ Enter(t)
      BY <1>1 DEF MakeToken, ReleaseToken, StoreEpoch, Enter
<1>2. CASE Push(t)
      BY <1>2 DEF Push, NewNode, PushLoadTail, PushLoadNext, PushRecheck, PushLink, PushSwing,
                  PushCount, PushHelp
<1>3. CASE Pop(t) /\ ~PopLoadNext(t) /\ ~PopRecheck(t) /\ ~PopClaim(t)
      BY <1>3 DEF Pop, PopLoadHead, PopLoadTail, PopHelp, PopTake, PopCount
<1>4. CASE Collect(t)
      BY <1>4 DEF Collect, Retire, AdvanceEpoch, ScanStart, ScanFlags, ScanEpoch, Reclaim
<1> QED BY <1>1, <1>2, <1>3, <1>4

\* Every step keeps what a try_pop about to return nothing has observed.
LEMMA NextEmpty ==
    ASSUME NEW rank, NEW top, SafeInv(rank, top), EmptyOK(rank, top), [Next]_vars,
           SafeInv(rank, top)'
    PROVE  EmptyOK(rank, top)'
<1>1. CASE UNCHANGED vars
      BY <1>1 DEF vars, shared, EmptyOK, Inside
<1>2. TypeOK
      BY DEF SafeInv
<1>3. ASSUME NEW t \in Threads, Call(t) PROVE EmptyOK(rank, top)'
  <2>1. /\ head' = head /\ Others(t) /\ pc'[t] = "store_epoch"
        /\ sawEmpty' = IF Contents = << >> THEN sawEmpty \cup {t} ELSE sawEmpty
        BY <1>2, <1>3 DEF Call, TypeOK, Others, Goto, shared
  <2>2. Inside' \subseteq Inside \cup {t}
        BY <2>1 DEF Inside, Others
  <2>3. rank[head] = top => Contents = << >>
        BY ContentsFacts
  <2> QED BY <2>1, <2>2, <2>3 DEF EmptyOK, Others
<1>4. ASSUME NEW t \in Threads, Leave(t) PROVE EmptyOK(rank, top)'
  <2>1. /\ head' = head /\ Others(t) /\ pc'[t] = "ready" /\ sawEmpty' = sawEmpty \ {t}
        BY <1>2, <1>4 DEF Leave, TypeOK, Others, Goto, shared
  <2>2. Inside' \subseteq Inside \ {t}
        BY <2>1 DEF Inside, Others
  <2> QED BY <2>1, <2>2 DEF EmptyOK, Others
<1>5. ASSUME NEW t \in Threads, PopLoadNext(t) PROVE EmptyOK(rank, top)'
  <2>1. /\ UNCHANGED <<head, sawEmpty>> /\ Others(t) /\ pc'[t] = "pop_recheck"
        /\ loc'[t].next = next[loc[t].head] /\ pc[t] = "pop_next"
        BY <1>2, <1>5 DEF PopLoadNext, At, TypeOK, Others, Goto, shared, Locals
  <2>2. Inside' = Inside /\ t \in Inside
        BY <2>1 DEF Inside, Others
  <2>3. loc[t].head \in Nodes /\ rank[loc[t].head] # 0 /\ rank[loc[t].head] <= rank[head]
        BY <2>1 DEF SafeInv, LocalOK, UsesHead
  <2>4. ASSUME next[loc[t].head] = Nil PROVE rank[head] = top
    <3>1. rank[loc[t].head] \notin 1..top - 1
          BY <2>3, <2>4, ListFacts, NilIsNoNode DEF Joins
    <3>2. rank[loc[t].head] \in Nat /\ rank[head] \in Nat /\ rank[loc[t].head] <= top /\ rank[head] <= top
          BY <2>3, ListFacts
    <3> QED BY <2>3, <3>1, <3>2, ListFacts
  <2> QED BY <2>1, <2>2, <2>4 DEF EmptyOK, Others
<1>6. ASSUME NEW t \in Threads, PopRecheck(t) PROVE EmptyOK(rank, top)'
  <2>1. /\ UNCHANGED <<head, sawEmpty, loc>> /\ Others(t) /\ pc[t] = "pop_recheck"
        /\ pc'[t] \in {"pop", "leave_empty", "pop_help", "pop_claim"}
        /\ pc'[t] = "leave_empty" => loc[t].next = Nil
        BY <1>2, <1>6 DEF PopRecheck, At, TypeOK, Others, Goto, shared
  <2>2. Inside' = Inside
        BY <2>1 DEF Inside, Others
  <2> QED BY <2>1, <2>2 DEF EmptyOK, Others
<1>7. ASSUME NEW t \in Threads, PopClaim(t) PROVE EmptyOK(rank, top)'
  <2>1. /\ Others(t) /\ pc[t] = "pop_claim" /\ pc'[t] \in {"pop", "pop_take"} /\ loc' = loc
        /\ sawEmpty' = IF Contents' = << >> THEN Inside ELSE sawEmpty
        /\ head' = head \/ (head = loc[t].head /\ head' = loc[t].next)
        BY <1>2, <1>7 DEF PopClaim, At, TypeOK, Others, Goto
  <2>2. Inside' = Inside
        BY <2>1 DEF Inside, Others
  <2>3. rank[head'] = top => Contents' = << >>
        BY NextContentsFacts
  <2>4. \A u \in Threads : pc[u] \in {"pop_recheck", "leave_empty"} => u \in Inside
        BY DEF Inside
  <2> QED BY <2>1, <2>2, <2>3, <2>4 DEF EmptyOK, Others
<1>8. ASSUME NEW t \in Threads, KeepsEmpty(t) PROVE EmptyOK(rank, top)'
      BY <1>8, EmptyKept
<1> QED BY <1>1, <1>2, <1>3, <1>4, <1>5, <1>6, <1>7, <1>8, QuietEmpty DEF Next

\* Linking a node: the queue is no longer empty, and whoever saw it empty still has.
LEMMA GrowsEmpty ==
    ASSUME NEW rank, NEW top, SafeInv(rank, top), EmptyOK(rank, top),
           NEW t \in Threads, NEW rank2, NEW top2, Grows(t, rank, top, rank2, top2)
    PROVE  EmptyOK(rank2, top2)'
<1>1. /\ pc[t] = "push_link" /\ UNCHANGED <<head, sawEmpty, loc>> /\ Others(t)
      /\ pc'[t] = "push_swing" /\ top2 = top + 1
      BY DEF Grows, At, Goto, Others, SafeInv, TypeOK
<1>2. loc[t].node \in Nodes /\ rank[loc[t].node] = 0
      BY <1>1 DEF SafeInv, LocalOK, Unlinked
<1>3. rank2[head'] = rank[head]
      BY <1>1, <1>2, ListFacts DEF Grows
<1>4. rank2[head'] # top2
      BY <1>1, <1>3, ListFacts
<1> QED BY <1>1, <1>4 DEF EmptyOK, Others

-----------------------------------------------------------------------------
(* Where the nodes are.                                                      *)

\* Between claiming a node and retiring the one before it.
Claiming == {"pop_take", "pop_count", "retire"}

\* A node off the list is deleted, waits in a slot, or is about to be retired.
OffList(n) ==
    \/ n \in freed
    \/ \E s \in Slots : n \in Waiting(s)
    \/ \E t \in Threads : pc[t] \in Claiming /\ loc[t].head = n

\* Every allocated node is linked or about to be, every node before head_ is
\* off the list, and in one way only.  A vacant slot has nothing to delete.
PlacesOK(rank) ==
    /\ \A n \in Nodes : n < allocated /\ rank[n] = 0 =>
          \E t \in Threads : pc[t] \in Unlinked /\ loc[t].node = n
    /\ \A n \in Nodes : rank[n] # 0 /\ rank[n] < rank[head] => OffList(n)
    /\ \A s \in Slots : Waiting(s) \cap freed = {}
    /\ \A s, u \in Slots : s # u => Waiting(s) \cap Waiting(u) = {}
    /\ \A s \in Slots : \A r, q \in slots[s].retired : r.node = q.node => r = q
    /\ \A s \in Slots, t \in Threads : pc[t] \in Claiming => loc[t].head \notin Waiting(s)
    /\ \A t, u \in Threads :
          t # u /\ pc[t] \in Claiming /\ pc[u] \in Claiming => loc[t].head # loc[u].head
    /\ \A s \in Slots : ~slots[s].occupied => slots[s].retired = {}

\* A step that moves no node from one place to another.
KeepsPlaces(t) ==
    /\ Others(t) /\ UNCHANGED <<head, allocated, freed>>
    /\ \A s \in Slots : slots'[s].retired = slots[s].retired
    /\ \A s \in Slots : ~slots'[s].occupied => slots[s].retired = {}
    /\ pc'[t] \in Unlinked <=> pc[t] \in Unlinked
    /\ pc[t] \in Unlinked => loc'[t].node = loc[t].node
    /\ pc'[t] \in Claiming <=> pc[t] \in Claiming
    /\ pc[t] \in Claiming => loc'[t].head = loc[t].head

\* Such a step keeps every node in its place.
LEMMA PlacesKept ==
    ASSUME NEW rank, PlacesOK(rank), NEW t \in Threads, KeepsPlaces(t)
    PROVE  PlacesOK(rank)'
<1>1. \A s \in Slots : Waiting(s)' = Waiting(s)
      BY DEF Waiting, KeepsPlaces
<1>2. /\ \A u \in Threads : pc'[u] \in Unlinked <=> pc[u] \in Unlinked
      /\ \A u \in Threads : pc[u] \in Unlinked => loc'[u].node = loc[u].node
      /\ \A u \in Threads : pc'[u] \in Claiming <=> pc[u] \in Claiming
      /\ \A u \in Threads : pc[u] \in Claiming => loc'[u].head = loc[u].head
      BY DEF KeepsPlaces, Others
<1>3. \A n : OffList(n)' <=> OffList(n)
      BY <1>1, <1>2 DEF OffList, KeepsPlaces
<1>4. UNCHANGED <<head, allocated, freed>>
      BY DEF KeepsPlaces
<1>5. /\ \A n \in Nodes : n < allocated' /\ rank[n] = 0 =>
            \E u \in Threads : pc'[u] \in Unlinked /\ loc'[u].node = n
      BY <1>2, <1>4 DEF PlacesOK
<1>6. \A n \in Nodes : rank[n] # 0 /\ rank[n] < rank[head'] => OffList(n)'
      BY <1>3, <1>4 DEF PlacesOK
<1>7. /\ \A s \in Slots : \A r, q \in slots'[s].retired : r.node = q.node => r = q
      /\ \A s \in Slots : ~slots'[s].occupied => slots'[s].retired = {}
      BY DEF PlacesOK, KeepsPlaces
<1>8. /\ \A s \in Slots : (Waiting(s) \cap freed = {})'
      /\ \A s, u \in Slots : s # u => (Waiting(s) \cap Waiting(u) = {})'
      BY <1>1, <1>4 DEF PlacesOK
<1>9. /\ \A s \in Slots, u \in Threads : pc'[u] \in Claiming => loc'[u].head \notin Waiting(s)'
      /\ \A u, v \in Threads :
            u # v /\ pc'[u] \in Claiming /\ pc'[v] \in Claiming => loc'[u].head # loc'[v].head
      BY <1>1, <1>2 DEF PlacesOK
<1> QED BY <1>5, <1>6, <1>7, <1>8, <1>9 DEF PlacesOK

\* The steps that move no node.
LEMMA QuietPlaces ==
    ASSUME Leavers \cap Consumers = {}, NEW rank, NEW top, SafeInv(rank, top), PlacesOK(rank),
           NEW t \in Threads,
           \/ MakeToken(t) \/ ReleaseToken(t) \/ Call(t) \/ StoreEpoch(t) \/ Enter(t) \/ Leave(t)
           \/ (Push(t) /\ ~NewNode(t) /\ ~PushLink(t)) \/ (Pop(t) /\ ~PopClaim(t))
           \/ (Collect(t) /\ ~Retire(t) /\ ~Reclaim(t))
    PROVE  KeepsPlaces(t)
<1> USE DEF KeepsPlaces, Others, Goto, At, Unlinked, Claiming, shared
<1>1. /\ TypeOK /\ TokenOK(t)
      /\ pc[t] # "outside" => Slot(t) \in Slots /\ slots[Slot(t)].occupied
      /\ \A s \in Slots : ~slots[s].occupied => slots[s].retired = {}
      BY DEF SafeInv, TokensOK, TokenOK, PlacesOK
<1>2. CASE MakeToken(t)
  <2>1. PICK s \in Slots :
              /\ ~slots[s].occupied
              /\ slots' = [slots EXCEPT ![s] =
                             [@ EXCEPT !.occupied = TRUE, !.retired = {}, !.epoch = globalEpoch]]
              /\ loc' = [loc EXCEPT ![t].slot = s]
        BY <1>1, <1>2, VacantSlot
  <2>2. slots[s] \in SlotRecords /\ slots[s].retired = {}
        BY <1>1, <2>1 DEF TypeOK
  <2>3. slots'[s].retired = {} /\ slots'[s].occupied /\ \A u \in Slots \ {s} : slots'[u] = slots[u]
        BY <1>1, <2>1, <2>2 DEF TypeOK, SlotRecords
  <2> QED BY <1>1, <1>2, <2>1, <2>2, <2>3 DEF MakeToken, TypeOK
<1>3. CASE ReleaseToken(t)
  <2>1. t \notin Consumers /\ pc[t] = "ready" /\ Slot(t) \in Slots
        BY <1>1, <1>3 DEF ReleaseToken
  <2>2. slots[Slot(t)].retired = {}
        BY <1>1, <2>1 DEF TokenOK
  <2>3. freed' = freed
        BY <1>3, <2>2 DEF ReleaseToken
  <2>4. slots'[Slot(t)].retired = {} /\ \A u \in Slots \ {Slot(t)} : slots'[u] = slots[u]
        BY <1>1, <1>3, <2>1 DEF ReleaseToken, TypeOK, FreeSlot
  <2> QED BY <1>1, <1>3, <2>1, <2>2, <2>3, <2>4 DEF ReleaseToken, TypeOK
<1>4. CASE Call(t)
      BY <1>1, <1>4 DEF Call, TypeOK
<1>5. CASE StoreEpoch(t) \/ Enter(t) \/ Leave(t)
  <2>1. Slot(t) \in Slots /\ slots[Slot(t)].occupied /\ slots[Slot(t)] \in SlotRecords
        BY <1>1, <1>5 DEF StoreEpoch, Enter, Leave, TypeOK
  <2>2. \A s \in Slots : slots'[s].retired = slots[s].retired /\ slots'[s].occupied = slots[s].occupied
        BY <1>1, <1>5, <2>1 DEF StoreEpoch, Enter, Leave, TypeOK, SlotRecords
  <2> QED BY <1>1, <1>5, <2>2 DEF StoreEpoch, Enter, Leave, TypeOK
<1>6. CASE Push(t) /\ ~NewNode(t) /\ ~PushLink(t)
  <2>1. CASE PushLoadTail(t) \/ PushLoadNext(t)
        BY <1>1, <2>1 DEF PushLoadTail, PushLoadNext, Locals, TypeOK
  <2>2. CASE PushRecheck(t) \/ PushSwing(t) \/ PushCount(t) \/ PushHelp(t)
        BY <1>1, <2>2 DEF PushRecheck, PushSwing, PushCount, PushHelp, TypeOK
  <2> QED BY <1>6, <2>1, <2>2 DEF Push
<1>7. CASE Pop(t) /\ ~PopClaim(t)
  <2>1. CASE PopLoadHead(t) \/ PopLoadTail(t) \/ PopLoadNext(t)
        BY <1>1, <2>1 DEF PopLoadHead, PopLoadTail, PopLoadNext, TypeOK
  <2>2. CASE PopRecheck(t) \/ PopHelp(t) \/ PopTake(t) \/ PopCount(t)
        BY <1>1, <2>2 DEF PopRecheck, PopHelp, PopTake, PopCount, TypeOK
  <2> QED BY <1>7, <2>1, <2>2 DEF Pop
<1>8. CASE Collect(t) /\ ~Retire(t) /\ ~Reclaim(t)
      BY <1>1, <1>8 DEF Collect, AdvanceEpoch, ScanStart, ScanFlags, ScanEpoch, TypeOK
<1> QED BY <1>2, <1>3, <1>4, <1>5, <1>6, <1>7, <1>8

\* A new node is in its producer's hands.
LEMMA NewNodePlaces ==
    ASSUME NEW rank, NEW top, SafeInv(rank, top), PlacesOK(rank), NEW t \in Threads, NewNode(t)
    PROVE  PlacesOK(rank)'
<1>1. /\ pc[t] = "new" /\ allocated' = allocated + 1 /\ Others(t) /\ pc'[t] = "push"
      /\ loc'[t].node = allocated /\ UNCHANGED <<head, freed, slots>> /\ allocated \in Nat
      BY BoundsAssumption DEF NewNode, SafeInv, TypeOK, Others, Goto, At, Locals
<1>2. \A s \in Slots : Waiting(s)' = Waiting(s)
      BY <1>1 DEF Waiting
<1>3. /\ \A u \in Threads : pc[u] \in Unlinked => pc'[u] \in Unlinked /\ loc'[u].node = loc[u].node
      /\ \A u \in Threads : pc'[u] \in Claiming <=> pc[u] \in Claiming
      /\ \A u \in Threads : pc[u] \in Claiming => loc'[u].head = loc[u].head
      BY <1>1 DEF Others, Unlinked, Claiming
<1>4. \A n : OffList(n) => OffList(n)'
      BY <1>1, <1>2, <1>3 DEF OffList
<1>5. ASSUME NEW n \in Nodes, n < allocated', rank[n] = 0
      PROVE  \E u \in Threads : pc'[u] \in Unlinked /\ loc'[u].node = n
  <2>1. CASE n = allocated
        BY <1>1, <2>1 DEF Unlinked
  <2>2. CASE n < allocated
        BY <1>3, <1>5, <2>2 DEF PlacesOK
  <2>3. n \in Nat
        BY NilIsNoNode
  <2> QED BY <1>1, <1>5, <2>1, <2>2, <2>3
<1>6. \A n \in Nodes : rank[n] # 0 /\ rank[n] < rank[head'] => OffList(n)'
      BY <1>1, <1>4 DEF PlacesOK
<1>7. /\ \A s \in Slots : (Waiting(s) \cap freed = {})'
      /\ \A s, u \in Slots : s # u => (Waiting(s) \cap Waiting(u) = {})'
      BY <1>1, <1>2 DEF PlacesOK
<1>8. /\ \A s \in Slots, u \in Threads : pc'[u] \in Claiming => loc'[u].head \notin Waiting(s)'
      /\ \A u, v \in Threads :
            u # v /\ pc'[u] \in Claiming /\ pc'[v] \in Claiming => loc'[u].head # loc'[v].head
      BY <1>2, <1>3 DEF PlacesOK
<1> QED BY <1>1, <1>5, <1>6, <1>7, <1>8 DEF PlacesOK

\* A node that is linked leaves its producer's hands for the list.
LEMMA GrowsPlaces ==
    ASSUME NEW rank, NEW top, SafeInv(rank, top), PlacesOK(rank),
           NEW t \in Threads, NEW rank2, NEW top2, Grows(t, rank, top, rank2, top2),
           UNCHANGED <<allocated, freed, slots>>
    PROVE  PlacesOK(rank2)'
<1>1. /\ pc[t] = "push_link" /\ head' = head /\ loc' = loc /\ Others(t)
      /\ pc'[t] = "push_swing" /\ top2 = top + 1
      BY DEF Grows, At, Goto, Others, SafeInv, TypeOK
<1>2. PICK node : node = loc[t].node
      OBVIOUS
<1>3. /\ node \in Nodes /\ rank[node] = 0
      BY <1>1, <1>2 DEF SafeInv, LocalOK, Unlinked
<1>4. rank2[node] = top + 1 /\ top \in Nat /\ \A n \in Nodes \ {node} : rank2[n] = rank[n]
      BY <1>2, <1>3, ListFacts DEF Grows
<1>5. rank2[head'] = rank[head] /\ rank[head] \in Nat /\ rank[head] <= top
      BY <1>1, <1>3, <1>4, ListFacts
<1>6. \A s \in Slots : Waiting(s)' = Waiting(s)
      BY DEF Waiting
<1>7. /\ \A u \in Threads \ {t} : pc'[u] = pc[u]
      /\ \A u \in Threads : pc'[u] \in Claiming <=> pc[u] \in Claiming
      BY <1>1 DEF Others, Claiming
<1>8. \A n : OffList(n) => OffList(n)'
      BY <1>1, <1>6, <1>7 DEF OffList
<1>9. ASSUME NEW n \in Nodes, n < allocated', rank2[n] = 0
      PROVE  \E u \in Threads : pc'[u] \in Unlinked /\ loc'[u].node = n
  <2>1. n # node
        BY <1>4, <1>9
  <2>2. rank[n] = 0
        BY <1>4, <1>9, <2>1
  <2>3. PICK u \in Threads : pc[u] \in Unlinked /\ loc[u].node = n
        BY <1>9, <2>2 DEF PlacesOK
  <2>4. u # t
        BY <1>2, <2>1, <2>3
  <2> QED BY <1>1, <1>7, <2>3, <2>4
<1>10. ASSUME NEW n \in Nodes, rank2[n] # 0, rank2[n] < rank2[head'] PROVE OffList(n)'
  <2>1. n # node
        BY <1>4, <1>5, <1>10
  <2> QED BY <1>4, <1>5, <1>8, <1>10, <2>1 DEF PlacesOK
<1>11. /\ \A s \in Slots : (Waiting(s) \cap freed = {})'
       /\ \A s, u \in Slots : s # u => (Waiting(s) \cap Waiting(u) = {})'
      BY <1>6 DEF PlacesOK
<1>12. /\ \A s \in Slots, u \in Threads : pc'[u] \in Claiming => loc'[u].head \notin Waiting(s)'
       /\ \A u, v \in Threads :
            u # v /\ pc'[u] \in Claiming /\ pc'[v] \in Claiming => loc'[u].head # loc'[v].head
      BY <1>1, <1>6, <1>7 DEF PlacesOK
<1> QED BY <1>9, <1>10, <1>11, <1>12 DEF PlacesOK

\* The node that head_ leaves is in the hands of the consumer that moved it.
LEMMA PopClaimPlaces ==
    ASSUME NEW rank, NEW top, SafeInv(rank, top), PlacesOK(rank), NEW t \in Threads, PopClaim(t)
    PROVE  PlacesOK(rank)'
<1>1. /\ pc[t] = "pop_claim" /\ UNCHANGED <<loc, allocated, freed, slots>> /\ Others(t)
      BY DEF PopClaim, At, SafeInv, TypeOK, Others, Goto
<1>2. CASE Goto(t, "pop") /\ head' = head
  <2>1. pc'[t] = "pop" /\ \A s \in Slots : ~slots[s].occupied => slots[s].retired = {}
        BY <1>2 DEF Goto, SafeInv, TypeOK, PlacesOK
  <2>2. KeepsPlaces(t)
        BY <1>1, <1>2, <2>1 DEF KeepsPlaces, Unlinked, Claiming
  <2> QED BY <2>2, PlacesKept
<1>3. CASE head = loc[t].head /\ head' = loc[t].next /\ Goto(t, "pop_take")
  <2>1. pc'[t] = "pop_take"
        BY <1>3 DEF Goto, SafeInv, TypeOK
  <2>2. /\ head \in Nodes /\ head' \in Nodes /\ rank[head'] = rank[head] + 1
        /\ rank \in [Nodes -> Nat] /\ \A m, n \in Nodes : rank[m] = rank[n] /\ rank[m] # 0 => m = n
        BY <1>1, <1>3, ClaimFacts, ListFacts DEF Numbers
  <2>3. \A s \in Slots : Waiting(s)' = Waiting(s)
        BY <1>1 DEF Waiting
  <2>4. /\ \A u \in Threads \ {t} : pc'[u] = pc[u]
        /\ \A u \in Threads : pc'[u] \in Unlinked <=> pc[u] \in Unlinked
        /\ \A u \in Threads : pc'[u] \in Claiming => pc[u] \in Claiming \/ u = t
        /\ \A u \in Threads : pc[u] \in Claiming => pc'[u] \in Claiming
        /\ pc'[t] \in Claiming /\ pc[t] \notin Claiming
        BY <1>1, <2>1 DEF Others, Claiming, Unlinked
  <2>5. \A n : OffList(n) => OffList(n)'
        BY <1>1, <2>3, <2>4 DEF OffList
  <2>14. PICK h : h = head
        OBVIOUS
  <2>6. OffList(h)'
        BY <1>1, <1>3, <2>4, <2>14 DEF OffList
  <2>7. ASSUME NEW n \in Nodes, rank[n] # 0, rank[n] < rank[head'] PROVE OffList(n)'
    <3>1. rank[n] \in Nat /\ rank[head] \in Nat
          BY <2>2
    <3>2. CASE rank[n] < rank[head]
          BY <2>5, <2>7, <3>2 DEF PlacesOK
    <3>3. CASE rank[n] = rank[head]
      <4>1. n = head
            BY <2>2, <2>7, <3>3
      <4> QED BY <2>6, <2>14, <4>1
    <3> QED BY <2>2, <2>7, <3>1, <3>2, <3>3
  <2>8. ASSUME NEW s \in Slots PROVE head \notin Waiting(s)
    <3>1. \A r \in slots[s].retired : rank[r.node] < rank[head]
          BY DEF SafeInv, ReclamationOK
    <3>2. ~(rank[head] < rank[head])
          BY <2>2
    <3> QED BY <3>1, <3>2 DEF Waiting
  <2>9. ASSUME NEW u \in Threads, pc[u] \in Claiming PROVE loc[u].head # head
    <3>1. rank[loc[u].head] < rank[head]
          BY <2>9 DEF SafeInv, LocalOK, Claiming
    <3>2. ~(rank[head] < rank[head])
          BY <2>2
    <3> QED BY <3>1, <3>2
  <2>10. \A n \in Nodes : n < allocated' /\ rank[n] = 0 =>
            \E u \in Threads : pc'[u] \in Unlinked /\ loc'[u].node = n
        BY <1>1, <2>4 DEF PlacesOK
  <2>11. /\ \A s \in Slots : (Waiting(s) \cap freed = {})'
         /\ \A s, u \in Slots : s # u => (Waiting(s) \cap Waiting(u) = {})'
        BY <1>1, <2>3 DEF PlacesOK
  <2>12. \A s \in Slots, u \in Threads : pc'[u] \in Claiming => loc'[u].head \notin Waiting(s)'
        BY <1>1, <1>3, <2>3, <2>4, <2>8 DEF PlacesOK
  <2>13. \A u, v \in Threads :
            u # v /\ pc'[u] \in Claiming /\ pc'[v] \in Claiming => loc'[u].head # loc'[v].head
        BY <1>1, <1>3, <2>4, <2>9 DEF PlacesOK
  <2> QED BY <1>1, <2>7, <2>10, <2>11, <2>12, <2>13 DEF PlacesOK
<1> QED BY <1>2, <1>3 DEF PopClaim

\* A retired node goes from its consumer to the consumer's slot.
LEMMA RetirePlaces ==
    ASSUME NEW rank, NEW top, SafeInv(rank, top), PlacesOK(rank), NEW t \in Threads, Retire(t)
    PROVE  PlacesOK(rank)'
<1>1. PICK s, n, r : s = Slot(t) /\ n = loc[t].head /\ r = [node |-> n, epoch |-> globalEpoch]
      OBVIOUS
<1>2. /\ pc[t] = "retire" /\ UNCHANGED <<head, loc, allocated, freed>> /\ Others(t)
      /\ pc'[t] \in {"advance", "leave"}
      BY DEF Retire, At, SafeInv, TypeOK, Others, Goto, shared
<1>3. s \in Slots /\ slots[s] \in SlotRecords /\ slots[s].occupied
      BY <1>1, <1>2 DEF SafeInv, TypeOK, TokensOK, TokenOK
<1>4. /\ slots'[s].retired = slots[s].retired \cup {r} /\ slots'[s].occupied
      /\ \A u \in Slots \ {s} : slots'[u] = slots[u]
      BY <1>1, <1>3 DEF Retire, SafeInv, TypeOK, SlotRecords
<1>5. r.node = n
      BY <1>1
<1>6. Waiting(s)' = Waiting(s) \cup {n} /\ \A u \in Slots \ {s} : Waiting(u)' = Waiting(u)
      BY <1>4, <1>5 DEF Waiting
<1>7. /\ \A u \in Threads \ {t} : pc'[u] = pc[u]
      /\ \A u \in Threads : pc'[u] \in Unlinked <=> pc[u] \in Unlinked
      /\ \A u \in Threads : pc'[u] \in Claiming <=> pc[u] \in Claiming /\ u # t
      /\ pc[t] \in Claiming
      BY <1>2 DEF Others, Claiming, Unlinked
<1>8. /\ \A u \in Slots : n \notin Waiting(u)
      /\ \A u \in Threads \ {t} : pc[u] \in Claiming => loc[u].head # n
      BY <1>1, <1>7 DEF PlacesOK
<1>9. n \notin freed
  <2>1. n \in InUse(t) /\ n \in Nodes /\ rank[n] \in Nat
        BY <1>1, <1>2, ListFacts DEF InUse, UsesHead, SafeInv, LocalOK
  <2>2. \A m \in freed : rank[m] < rank[n]
        BY <2>1, NilIsNoNode DEF SafeInv, ReclamationOK, Before
  <2> QED BY <2>1, <2>2
<1>10. ASSUME NEW m, OffList(m) PROVE OffList(m)'
  <2>1. CASE m = n
        BY <1>3, <1>6, <2>1 DEF OffList
  <2>2. CASE m # n
    <3>1. CASE m \in freed
          BY <1>2, <3>1 DEF OffList
    <3>2. CASE \E u \in Slots : m \in Waiting(u)
          BY <1>6, <3>2 DEF OffList
    <3>3. ASSUME NEW u \in Threads, pc[u] \in Claiming, loc[u].head = m PROVE OffList(m)'
          BY <1>1, <1>2, <1>7, <2>2, <3>3 DEF OffList
    <3> QED BY <1>10, <3>1, <3>2, <3>3 DEF OffList
  <2> QED BY <2>1, <2>2
<1>11. /\ \A m \in Nodes : m < allocated' /\ rank[m] = 0 =>
            \E u \in Threads : pc'[u] \in Unlinked /\ loc'[u].node = m
       /\ \A m \in Nodes : rank[m] # 0 /\ rank[m] < rank[head'] => OffList(m)'
      BY <1>2, <1>7, <1>10 DEF PlacesOK
<1>12. \A u \in Slots : (Waiting(u) \cap freed = {})'
      BY <1>2, <1>6, <1>9 DEF PlacesOK
<1>13. \A u, v \in Slots : u # v => (Waiting(u) \cap Waiting(v) = {})'
      BY <1>6, <1>8 DEF PlacesOK
<1>14. \A u \in Slots : \A q, p \in slots'[u].retired : q.node = p.node => q = p
  <2>1. \A q \in slots[s].retired : q.node # n
        BY <1>3, <1>8 DEF Waiting
  <2> QED BY <1>4, <1>5, <2>1 DEF PlacesOK
<1>15. /\ \A u \in Slots, v \in Threads : pc'[v] \in Claiming => loc'[v].head \notin Waiting(u)'
       /\ \A u, v \in Threads :
            u # v /\ pc'[u] \in Claiming /\ pc'[v] \in Claiming => loc'[u].head # loc'[v].head
      BY <1>2, <1>6, <1>7, <1>8 DEF PlacesOK
<1>16. \A u \in Slots : ~slots'[u].occupied => slots'[u].retired = {}
      BY <1>4 DEF PlacesOK
<1> QED BY <1>11, <1>12, <1>13, <1>14, <1>15, <1>16 DEF PlacesOK

\* A reclaimed node goes from its slot to the deleted ones.
LEMMA ReclaimPlaces ==
    ASSUME NEW rank, NEW top, SafeInv(rank, top), PlacesOK(rank), NEW t \in Threads, Reclaim(t)
    PROVE  PlacesOK(rank)'
<1>1. PICK s, old, gone : /\ s = Slot(t)
                          /\ old = {r \in slots[s].retired : r.epoch < loc[t].minimum}
                          /\ gone = {r.node : r \in old}
      OBVIOUS
<1>2. /\ pc[t] = "scan" /\ UNCHANGED <<head, loc, allocated>> /\ Others(t) /\ pc'[t] = "leave"
      /\ freed' = freed \cup gone
      BY <1>1 DEF Reclaim, At, SafeInv, TypeOK, Others, Goto
<1>3. s \in Slots /\ slots[s] \in SlotRecords /\ slots[s].occupied
      BY <1>1, <1>2 DEF SafeInv, TypeOK, TokensOK, TokenOK
<1>4. /\ slots'[s].retired = slots[s].retired \ old /\ slots'[s].occupied
      /\ \A u \in Slots \ {s} : slots'[u] = slots[u]
      BY <1>1, <1>3 DEF Reclaim, SafeInv, TypeOK, SlotRecords
<1>5. /\ Waiting(s)' = Waiting(s) \ gone /\ gone \subseteq Waiting(s)
      /\ \A u \in Slots \ {s} : Waiting(u)' = Waiting(u)
  <2>1. gone \subseteq Waiting(s) /\ \A u \in Slots \ {s} : Waiting(u)' = Waiting(u)
        BY <1>1, <1>4 DEF Waiting
  <2>2. ASSUME NEW r \in slots[s].retired, r \notin old PROVE r.node \notin gone
        BY <1>1, <1>3, <2>2 DEF PlacesOK
  <2>3. Waiting(s)' = {r.node : r \in slots[s].retired \ old}
        BY <1>4 DEF Waiting
  <2>4. Waiting(s)' = Waiting(s) \ gone
    <3>1. PICK before, after : before = Waiting(s) /\ after = Waiting(s)'
          OBVIOUS
    <3>2. before = {r.node : r \in slots[s].retired} /\ after = {r.node : r \in slots[s].retired \ old}
          BY <2>3, <3>1 DEF Waiting
    <3>3. ASSUME NEW n \in after PROVE n \in before \ gone
          BY <2>2, <3>2, <3>3
    <3>4. ASSUME NEW n \in before \ gone PROVE n \in after
          BY <1>1, <3>2, <3>4
    <3> QED BY <3>1, <3>3, <3>4
  <2> QED BY <2>1, <2>4
<1>6. /\ \A u \in Threads : pc'[u] \in Unlinked <=> pc[u] \in Unlinked
      /\ \A u \in Threads : pc'[u] \in Claiming <=> pc[u] \in Claiming
      BY <1>2 DEF Others, Claiming, Unlinked
<1>7. \A m : OffList(m) => OffList(m)'
      BY <1>2, <1>5, <1>6 DEF OffList
<1>8. /\ \A m \in Nodes : m < allocated' /\ rank[m] = 0 =>
            \E u \in Threads : pc'[u] \in Unlinked /\ loc'[u].node = m
      /\ \A m \in Nodes : rank[m] # 0 /\ rank[m] < rank[head'] => OffList(m)'
      BY <1>2, <1>6, <1>7 DEF PlacesOK
<1>9. \A u \in Slots : (Waiting(u) \cap freed = {})'
  <2>1. \A u \in Slots : Waiting(u) \cap freed = {}
        BY DEF PlacesOK
  <2>2. \A u \in Slots \ {s} : Waiting(u) \cap gone = {}
        BY <1>3, <1>5 DEF PlacesOK
  <2> QED BY <1>2, <1>3, <1>5, <2>1, <2>2
<1>10. \A u, v \in Slots : u # v => (Waiting(u) \cap Waiting(v) = {})'
  <2>1. \A u \in Slots : Waiting(u)' \subseteq Waiting(u)
        BY <1>5
  <2> QED BY <2>1 DEF PlacesOK
<1>11. /\ \A u \in Slots : \A q, p \in slots'[u].retired : q.node = p.node => q = p
       /\ \A u \in Slots : ~slots'[u].occupied => slots'[u].retired = {}
      BY <1>4 DEF PlacesOK
<1>12. /\ \A u \in Slots, v \in Threads : pc'[v] \in Claiming => loc'[v].head \notin Waiting(u)'
       /\ \A u, v \in Threads :
            u # v /\ pc'[u] \in Claiming /\ pc'[v] \in Claiming => loc'[u].head # loc'[v].head
      BY <1>2, <1>5, <1>6 DEF PlacesOK
<1> QED BY <1>8, <1>9, <1>10, <1>11, <1>12 DEF PlacesOK

-----------------------------------------------------------------------------
(* What size_ counts.                                                        *)

\* Adding multiples of m to a number does not change its remainder.
LEMMA SameRemainder ==
    ASSUME NEW a \in Nat, NEW b \in Nat, NEW m \in Nat \ {0}, NEW k \in Int, a = b + k * m
    PROVE  a % m = b % m
<1>1. PICK q, r : q = b \div m /\ r = b % m
      OBVIOUS
<1>2. q \in Nat /\ r \in 0..m - 1 /\ b = m * q + r
      BY <1>1, Z3
<1>3. ASSUME NEW j \in Nat, NEW x \in 0..m - 1
      PROVE  (m * j + x) % m = x
      BY Z3
<1>4. a = m * (q + k) + r
      BY <1>2
<1>5. PICK j \in Int : j = q + k
      BY <1>2
<1>6. j \in Nat
  <2>1. ASSUME j < 0 PROVE m * j <= -m
        BY <1>5, <2>1
  <2>2. a = m * j + r /\ m * j \in Int
        BY <1>4, <1>5
  <2> QED BY <1>2, <1>5, <2>1, <2>2
<1>7. a % m = r
      BY <1>2, <1>3, <1>4, <1>5, <1>6
<1> QED BY <1>1, <1>7

\* One thread more or less.
LEMMA OneThread ==
    ASSUME NEW S \in SUBSET Threads, NEW t \in Threads
    PROVE  /\ IsFiniteSet(S) /\ Cardinality(S) \in Nat
           /\ t \notin S => Cardinality(S \cup {t}) = Cardinality(S) + 1
           /\ t \in S => Cardinality(S \ {t}) = Cardinality(S) - 1
<1>1. IsFiniteSet(S)
      BY ThreadsAssumption, FS_Subset
<1> QED BY <1>1, FS_CardinalityType, FS_AddElement, FS_RemoveElement

\* size_ plus the pushes to count is the length of the queue plus the pops to
\* count, up to the wrap of its type.
CountOK(count, linked, length, claimed) ==
    /\ count \in 0..SizeMod - 1
    /\ \E k \in Int : count + linked = length + claimed + k * SizeMod

SizeOK(rank, top) ==
    CountOK(size, Cardinality(Linked), top - rank[head], Cardinality(Claimed))

\* What a step may do to the counts.
LEMMA CountSteps ==
    ASSUME NEW c, NEW a \in Nat, NEW l \in Nat, NEW b \in Nat, CountOK(c, a, l, b)
    PROVE  /\ CountOK(c, a + 1, l + 1, b)
           /\ l > 0 => CountOK(c, a, l - 1, b + 1)
           /\ a > 0 => CountOK((c + 1) % SizeMod, a - 1, l, b)
           /\ b > 0 => CountOK((c + SizeMod - 1) % SizeMod, a, l, b - 1)
<1>1. PICK m : m = SizeMod
      OBVIOUS
<1>2. m \in Nat /\ m > 1 /\ c \in 0..m - 1
      BY <1>1, BoundsAssumption DEF CountOK
<1>3. PICK k \in Int : c + a = l + b + k * m
      BY <1>1 DEF CountOK
<1>4. PICK w \in Int : w = k * m
      BY <1>2
<1>5. (k - 1) * m = w - m /\ (k + 1) * m = w + m /\ k - 1 \in Int /\ k + 1 \in Int
      BY <1>2, <1>4
<1>6. c + a = l + b + w
      BY <1>3, <1>4
<1>7. CountOK(c, a + 1, l + 1, b)
  <2>1. c + (a + 1) = (l + 1) + b + w
        BY <1>2, <1>6
  <2> QED BY <1>1, <1>2, <1>4, <2>1 DEF CountOK
<1>8. ASSUME l > 0 PROVE CountOK(c, a, l - 1, b + 1)
  <2>1. c + a = (l - 1) + (b + 1) + w
        BY <1>2, <1>6
  <2> QED BY <1>1, <1>2, <1>4, <2>1 DEF CountOK
<1>9. ASSUME a > 0 PROVE CountOK((c + 1) % m, a - 1, l, b)
  <2>1. CASE c + 1 < m
    <3>1. (c + 1) % m = c + 1
          BY <1>2, <2>1
    <3>2. (c + 1) + (a - 1) = l + b + w /\ c + 1 \in 0..m - 1
          BY <1>2, <1>6, <2>1
    <3> QED BY <1>1, <1>4, <3>1, <3>2 DEF CountOK
  <2>2. CASE c + 1 = m
    <3>1. (c + 1) % m = 0
      <4>1. m % m = 0
            BY <1>2
      <4> QED BY <2>2, <4>1
    <3>2. 0 + (a - 1) = l + b + (w - m) /\ 0 \in 0..m - 1
          BY <1>2, <1>6, <2>2
    <3> QED BY <1>1, <1>5, <3>1, <3>2 DEF CountOK
  <2> QED BY <1>2, <2>1, <2>2
<1>10. ASSUME b > 0 PROVE CountOK((c + m - 1) % m, a, l, b - 1)
  <2>1. CASE c > 0
    <3>1. (c + m - 1) % m = c - 1
      <4>1. PICK d : d = c - 1
            OBVIOUS
      <4>2. d \in 0..m - 1 /\ c + m - 1 = d + 1 * m /\ c + m - 1 \in Nat /\ d \in Nat
            BY <1>2, <2>1, <4>1
      <4>3. (c + m - 1) % m = d % m
            BY <1>2, <4>2, SameRemainder
      <4>4. d % m = d
            BY <1>2, <4>2
      <4> QED BY <4>1, <4>3, <4>4
    <3>2. (c - 1) + a = l + (b - 1) + w /\ c - 1 \in 0..m - 1
          BY <1>2, <1>6, <2>1
    <3> QED BY <1>1, <1>4, <3>1, <3>2 DEF CountOK
  <2>2. CASE c = 0
    <3>1. (c + m - 1) % m = m - 1
          BY <1>2, <2>2
    <3>2. (m - 1) + a = l + (b - 1) + (w + m) /\ m - 1 \in 0..m - 1
          BY <1>2, <1>6, <2>2
    <3> QED BY <1>1, <1>5, <3>1, <3>2 DEF CountOK
  <2> QED BY <1>2, <2>1, <2>2
<1> QED BY <1>1, <1>7, <1>8, <1>9, <1>10

\* A step that neither links, claims nor counts.
KeepsCount(t) ==
    /\ Others(t) /\ UNCHANGED <<head, size>>
    /\ pc'[t] \in {"push_swing", "push_count"} <=> pc[t] \in {"push_swing", "push_count"}
    /\ pc'[t] \in {"pop_take", "pop_count"} <=> pc[t] \in {"pop_take", "pop_count"}

\* Such a step leaves all of the counts alone.
LEMMA CountKept ==
    ASSUME NEW rank, NEW top, SizeOK(rank, top), NEW t \in Threads, KeepsCount(t)
    PROVE  SizeOK(rank, top)'
<1>1. Linked' = Linked /\ Claimed' = Claimed
      BY DEF Linked, Claimed, KeepsCount, Others
<1> QED BY <1>1 DEF SizeOK, KeepsCount

\* The steps that do not count.
LEMMA QuietCount ==
    ASSUME TypeOK, NEW t \in Threads,
           \/ MakeToken(t) \/ ReleaseToken(t) \/ Call(t) \/ StoreEpoch(t) \/ Enter(t) \/ Leave(t)
           \/ (Push(t) /\ ~PushLink(t) /\ ~PushCount(t)) \/ (Pop(t) /\ ~PopClaim(t) /\ ~PopCount(t))
           \/ Collect(t)
    PROVE  KeepsCount(t)
<1> USE DEF TypeOK, KeepsCount, Others, Goto, At, shared
<1>1. CASE MakeToken(t) \/ ReleaseToken(t)
      BY <1>1 DEF MakeToken, ReleaseToken
<1>2. CASE Call(t) \/ StoreEpoch(t) \/ Enter(t) \/ Leave(t)
      BY <1>2 DEF Call, StoreEpoch, Enter, Leave
<1>3. CASE Push(t) /\ ~PushLink(t) /\ ~PushCount(t)
      BY <1>3 DEF Push, NewNode, PushLoadTail, PushLoadNext, PushRecheck, PushSwing, PushHelp
<1>4. CASE Pop(t) /\ ~PopClaim(t) /\ ~PopCount(t)
      BY <1>4 DEF Pop, PopLoadHead, PopLoadTail, PopLoadNext, PopRecheck, PopHelp, PopTake
<1>5. CASE Collect(t)
      BY <1>5 DEF Collect, Retire, AdvanceEpoch, ScanStart, ScanFlags, ScanEpoch, Reclaim
<1> QED BY <1>1, <1>2, <1>3, <1>4, <1>5

\* A step that leaves the ranks as they are has linked nothing.
LEMMA NothingLinked ==
    ASSUME NEW rank, NEW top, SafeInv(rank, top), NEW t \in Threads, PushLink(t), SafeInv(rank, top)'
    PROVE  pc[t] = "push_link" /\ pc'[t] = "push"
<1>1. pc[t] = "push_link" /\ pc \in [Threads -> Steps]
      BY DEF PushLink, At, SafeInv, TypeOK
<1>2. CASE Goto(t, "push")
      BY <1>1, <1>2 DEF Goto
<1>3. CASE next' = [next EXCEPT ![loc[t].tail] = loc[t].node]
  <2>1. /\ loc[t].tail \in Nodes /\ rank[loc[t].tail] # 0
        /\ loc[t].node \in Nodes /\ rank[loc[t].node] = 0
        BY <1>1 DEF SafeInv, LocalOK, UsesTail, Unlinked
  <2>2. next'[loc[t].tail] = loc[t].node
        BY <1>3, <2>1, ListFacts DEF Joins
  <2>3. next'[loc[t].tail] = Nil \/ rank[next'[loc[t].tail]] = rank[loc[t].tail] + 1
        BY <2>1 DEF SafeInv, ListOK, Joins
  <2>4. rank[loc[t].tail] \in Nat
        BY <2>1, ListFacts
  <2>5. rank[loc[t].tail] + 1 # 0
        BY <2>4
  <2> QED BY <2>1, <2>2, <2>3, <2>5, NilIsNoNode
<1> QED BY <1>2, <1>3 DEF PushLink

\* The counts are numbers, and head_ is within the list.
LEMMA CountFacts ==
    ASSUME NEW rank, NEW top, SafeInv(rank, top)
    PROVE  /\ Linked \in SUBSET Threads /\ Cardinality(Linked) \in Nat
           /\ Claimed \in SUBSET Threads /\ Cardinality(Claimed) \in Nat
           /\ rank[head] \in Nat /\ top \in Nat /\ top - rank[head] \in Nat
<1>1. Linked \in SUBSET Threads /\ Claimed \in SUBSET Threads
      BY DEF Linked, Claimed
<1>2. \A S \in SUBSET Threads : Cardinality(S) \in Nat
      BY ThreadsAssumption, FS_Subset, FS_CardinalityType
<1>3. rank[head] \in Nat /\ top \in Nat /\ rank[head] <= top
      BY ListFacts
<1>4. top - rank[head] \in Nat
      BY <1>3
<1> QED BY <1>1, <1>2, <1>3, <1>4

\* Every step that leaves the ranks as they are keeps size_ in step.
LEMMA NextSize ==
    ASSUME NEW rank, NEW top, SafeInv(rank, top), SizeOK(rank, top), [Next]_vars,
           SafeInv(rank, top)'
    PROVE  SizeOK(rank, top)'
<1>1. CASE UNCHANGED vars
      BY <1>1 DEF vars, shared, SizeOK, Linked, Claimed
<1>2. TypeOK
      BY DEF SafeInv
<1>3. PICK a, b, l : a = Cardinality(Linked) /\ b = Cardinality(Claimed) /\ l = top - rank[head]
      OBVIOUS
<1>4. a \in Nat /\ b \in Nat /\ l \in Nat /\ CountOK(size, a, l, b)
      BY <1>3, CountFacts DEF SizeOK
<1>5. ASSUME NEW t \in Threads, PushLink(t) PROVE SizeOK(rank, top)'
  <2>1. pc[t] = "push_link" /\ pc'[t] = "push"
        BY <1>5, NothingLinked
  <2>2. KeepsCount(t)
        BY <1>2, <1>5, <2>1 DEF KeepsCount, Others, PushLink, Goto, TypeOK
  <2> QED BY <2>2, CountKept
<1>6. ASSUME NEW t \in Threads, PushCount(t) PROVE SizeOK(rank, top)'
  <2>1. /\ pc[t] = "push_count" /\ pc'[t] = "leave" /\ Others(t) /\ head' = head
        /\ size' = (size + 1) % SizeMod
        BY <1>2, <1>6 DEF PushCount, At, Others, Goto, TypeOK
  <2>2. Linked' = Linked \ {t} /\ t \in Linked /\ Claimed' = Claimed
        BY <2>1 DEF Linked, Claimed, Others
  <2>3. Cardinality(Linked \ {t}) = a - 1 /\ a > 0
    <3>1. Cardinality(Linked \ {t}) = a - 1 /\ Cardinality(Linked \ {t}) \in Nat
          BY <1>3, <2>2, CountFacts, OneThread
    <3> QED BY <1>4, <3>1
  <2>4. CountOK((size + 1) % SizeMod, a - 1, l, b)
        BY <1>4, <2>3, CountSteps
  <2> QED BY <1>3, <2>1, <2>2, <2>3, <2>4 DEF SizeOK
<1>7. ASSUME NEW t \in Threads, PopCount(t) PROVE SizeOK(rank, top)'
  <2>1. /\ pc[t] = "pop_count" /\ pc'[t] = "retire" /\ Others(t) /\ head' = head
        /\ size' = (size + SizeMod - 1) % SizeMod
        BY <1>2, <1>7 DEF PopCount, At, Others, Goto, TypeOK
  <2>2. Claimed' = Claimed \ {t} /\ t \in Claimed /\ Linked' = Linked
        BY <2>1 DEF Linked, Claimed, Others
  <2>3. Cardinality(Claimed \ {t}) = b - 1 /\ b > 0
    <3>1. Cardinality(Claimed \ {t}) = b - 1 /\ Cardinality(Claimed \ {t}) \in Nat
          BY <1>3, <2>2, CountFacts, OneThread
    <3> QED BY <1>4, <3>1
  <2>4. CountOK((size + SizeMod - 1) % SizeMod, a, l, b - 1)
        BY <1>4, <2>3, CountSteps
  <2> QED BY <1>3, <2>1, <2>2, <2>3, <2>4 DEF SizeOK
<1>8. ASSUME NEW t \in Threads, PopClaim(t) PROVE SizeOK(rank, top)'
  <2>1. pc[t] = "pop_claim" /\ size' = size /\ Others(t)
        BY <1>2, <1>8 DEF PopClaim, At, TypeOK, Others, Goto
  <2>2. CASE Goto(t, "pop") /\ head' = head
    <3>1. KeepsCount(t)
          BY <1>2, <2>1, <2>2 DEF KeepsCount, Goto, TypeOK
    <3> QED BY <3>1, CountKept
  <2>3. CASE head = loc[t].head /\ head' = loc[t].next /\ Goto(t, "pop_take")
    <3>1. pc'[t] = "pop_take"
          BY <1>2, <2>3 DEF Goto, TypeOK
    <3>2. Claimed' = Claimed \cup {t} /\ t \notin Claimed /\ Linked' = Linked
          BY <2>1, <3>1 DEF Linked, Claimed, Others
    <3>3. Cardinality(Claimed \cup {t}) = b + 1
          BY <1>3, <3>2, CountFacts, OneThread
    <3>4. head' \in Nodes /\ rank[head'] = rank[head] + 1
          BY <2>1, <2>3, ClaimFacts
    <3>5. top - rank[head'] = l - 1 /\ l > 0
      <4>1. rank[head'] <= top /\ rank[head] \in Nat /\ top \in Nat
            BY <3>4, ListFacts
      <4> QED BY <1>3, <3>4, <4>1
    <3>6. CountOK(size, a, l - 1, b + 1)
          BY <1>4, <3>5, CountSteps
    <3> QED BY <1>3, <2>1, <3>2, <3>3, <3>5, <3>6 DEF SizeOK
  <2> QED BY <1>8, <2>2, <2>3 DEF PopClaim
<1>9. ASSUME NEW t \in Threads, KeepsCount(t) PROVE SizeOK(rank, top)'
      BY <1>9, CountKept
<1> QED BY <1>1, <1>2, <1>5, <1>6, <1>7, <1>8, <1>9, QuietCount DEF Next

\* Linking a node makes the list longer by one push that is to be counted.
LEMMA GrowsSize ==
    ASSUME NEW rank, NEW top, SafeInv(rank, top), SizeOK(rank, top),
           NEW t \in Threads, NEW rank2, NEW top2, Grows(t, rank, top, rank2, top2)
    PROVE  SizeOK(rank2, top2)'
<1>1. /\ pc[t] = "push_link" /\ UNCHANGED <<head, size>> /\ Others(t)
      /\ pc'[t] = "push_swing" /\ top2 = top + 1
      BY DEF Grows, At, Goto, Others, SafeInv, TypeOK
<1>2. loc[t].node \in Nodes /\ rank[loc[t].node] = 0
      BY <1>1 DEF SafeInv, LocalOK, Unlinked
<1>3. rank2[head'] = rank[head]
      BY <1>1, <1>2, ListFacts DEF Grows
<1>4. Linked' = Linked \cup {t} /\ t \notin Linked /\ Claimed' = Claimed
      BY <1>1 DEF Linked, Claimed, Others
<1>5. PICK a, b, l : a = Cardinality(Linked) /\ b = Cardinality(Claimed) /\ l = top - rank[head]
      OBVIOUS
<1>6. a \in Nat /\ b \in Nat /\ l \in Nat /\ CountOK(size, a, l, b)
      BY <1>5, CountFacts DEF SizeOK
<1>7. Cardinality(Linked \cup {t}) = a + 1
      BY <1>4, <1>5, CountFacts, OneThread
<1>8. top2 - rank2[head'] = l + 1
      BY <1>1, <1>3, <1>5, CountFacts
<1>9. CountOK(size, a + 1, l + 1, b)
      BY <1>6, CountSteps
<1> QED BY <1>1, <1>4, <1>5, <1>7, <1>8, <1>9 DEF SizeOK

-----------------------------------------------------------------------------
(* Nodes and size_ together.                                                 *)

AccountInv(rank, top) == SafeInv(rank, top) /\ PlacesOK(rank) /\ SizeOK(rank, top)

\* Every step that leaves the ranks as they are keeps each node in one place.
LEMMA NextPlaces ==
    ASSUME Leavers \cap Consumers = {},
           NEW rank, NEW top, SafeInv(rank, top), PlacesOK(rank), [Next]_vars, SafeInv(rank, top)'
    PROVE  PlacesOK(rank)'
<1>1. CASE UNCHANGED vars
      BY <1>1 DEF vars, shared, PlacesOK, OffList, Waiting
<1>2. ASSUME NEW t \in Threads, PushLink(t) PROVE PlacesOK(rank)'
  <2>1. pc[t] = "push_link" /\ pc'[t] = "push"
        BY <1>2, NothingLinked
  <2>2. UNCHANGED <<head, allocated, freed, slots, loc>> /\ Others(t)
        BY <1>2 DEF PushLink, Goto, Others, SafeInv, TypeOK
  <2>3. KeepsPlaces(t)
        BY <2>1, <2>2 DEF KeepsPlaces, Unlinked, Claiming, PlacesOK
  <2> QED BY <2>3, PlacesKept
<1>3. ASSUME NEW t \in Threads, NewNode(t) \/ PopClaim(t) \/ Retire(t) \/ Reclaim(t)
      PROVE  PlacesOK(rank)'
      BY <1>3, NewNodePlaces, PopClaimPlaces, RetirePlaces, ReclaimPlaces
<1>4. ASSUME NEW t \in Threads, KeepsPlaces(t) PROVE PlacesOK(rank)'
      BY <1>4, PlacesKept
<1> QED BY <1>1, <1>2, <1>3, <1>4, QuietPlaces DEF Next

\* The stub is the only node, and nothing is counted.
LEMMA InitAccounts ==
    ASSUME Init
    PROVE  \E rank, top : AccountInv(rank, top)
<1>1. PICK rank, top : SafeInv(rank, top)
      BY InitSafe
<1>2. /\ \A t \in Threads : pc[t] \in {"outside", "ready"}
      /\ allocated = 1 /\ head = 0 /\ freed = {} /\ size = 0
      BY DEF Init, Stub
<1>3. \A s \in Slots : slots[s].retired = {}
      BY DEF Init, FreeSlot
<1>4. ASSUME NEW n \in Nodes, n < allocated PROVE n = head
  <2>1. n \in Nat /\ n < 1
        BY <1>2, <1>4, NilIsNoNode
  <2>2. n = 0
        BY <2>1
  <2> QED BY <1>2, <2>2
<1>5. \A n \in Nodes : rank[n] # 0 => n = head
      BY <1>1, <1>4 DEF SafeInv, ListOK
<1>6. rank \in [Nodes -> Nat] /\ head \in Nodes /\ rank[head] # 0 /\ top \in Nat /\ rank[head] <= top
      BY <1>1, ListFacts
<1>7. PlacesOK(rank)
  <2>1. \A s \in Slots : Waiting(s) = {}
        BY <1>3 DEF Waiting
  <2>2. \A t \in Threads : pc[t] \notin Claiming
        BY <1>2 DEF Claiming
  <2>3. ~(rank[head] < rank[head])
        BY <1>6
  <2> QED BY <1>3, <1>4, <1>5, <1>6, <2>1, <2>2, <2>3 DEF PlacesOK
<1>8. top = rank[head]
  <2>1. top \in 1..top
        BY <1>6
  <2>2. PICK n \in Nodes : rank[n] = top
        BY <1>1, <2>1, ListFacts DEF Numbers
  <2> QED BY <1>5, <2>1, <2>2
<1>9. SizeOK(rank, top)
  <2>1. Linked = {} /\ Claimed = {}
        BY <1>2 DEF Linked, Claimed
  <2>2. Cardinality(Linked) = 0 /\ Cardinality(Claimed) = 0
        BY <2>1, FS_EmptySet
  <2>3. top - rank[head] = 0
        BY <1>6, <1>8
  <2>4. 0 \in 0..SizeMod - 1 /\ 0 + 0 = 0 + 0 + 0 * SizeMod /\ 0 \in Int
        BY BoundsAssumption
  <2> QED BY <1>2, <2>2, <2>3, <2>4 DEF SizeOK, CountOK
<1> QED BY <1>1, <1>7, <1>9 DEF AccountInv

\* Every step keeps the accounts, for some ranks.
LEMMA NextAccounts ==
    ASSUME Leavers \cap Consumers = {},
           NEW rank, NEW top, AccountInv(rank, top), [Next]_vars
    PROVE  \E rank2, top2 : AccountInv(rank2, top2)'
<1>1. SafeInv(rank, top) /\ PlacesOK(rank) /\ SizeOK(rank, top)
      BY DEF AccountInv
<1>2. CASE SafeInv(rank, top)'
  <2>1. PlacesOK(rank)' /\ SizeOK(rank, top)'
        BY <1>1, <1>2, NextPlaces, NextSize
  <2>2. AccountInv(rank, top)'
        BY <1>2, <2>1 DEF AccountInv
  <2> QED BY <2>2
<1>3. CASE ~SafeInv(rank, top)'
  <2>1. PICK rank2, top2 : /\ SafeInv(rank2, top2)'
                           /\ \E t \in Threads : Grows(t, rank, top, rank2, top2)
        BY <1>1, <1>3, NextSafe
  <2>2. PICK t \in Threads : Grows(t, rank, top, rank2, top2)
        BY <2>1
  <2>3. UNCHANGED <<allocated, freed, slots>>
        BY <2>2 DEF Grows
  <2>4. PlacesOK(rank2)' /\ SizeOK(rank2, top2)'
        BY <1>1, <2>2, <2>3, GrowsPlaces, GrowsSize
  <2>5. AccountInv(rank2, top2)'
        BY <2>1, <2>4 DEF AccountInv
  <2> QED BY <2>5
<1> QED BY <1>2, <1>3

\* The list holds head_ and the nodes linked after it.
LEMMA ListedFacts ==
    ASSUME NEW rank, NEW top, SafeInv(rank, top)
    PROVE  /\ Listed = {n \in Nodes : rank[head] <= rank[n]}
           /\ Len(Contents) = top - rank[head]
<1>1. /\ IsAfter(Contents, head, rank, top) /\ rank \in [Nodes -> Nat] /\ head \in Nodes
      /\ rank[head] # 0 /\ top \in Nat /\ \A n \in Nodes : rank[n] <= top
      /\ \A m, n \in Nodes : rank[m] = rank[n] /\ rank[m] # 0 => m = n
      BY ContentsFacts, ListFacts DEF Numbers
<1>2. PICK c, h : c = Contents /\ h = rank[head]
      OBVIOUS
<1>3. /\ c \in Seq(Nodes) /\ Len(c) = top - h /\ h \in Nat /\ h # 0
      /\ \A k \in 1..Len(c) : rank[c[k]] = h + k
      BY <1>1, <1>2 DEF IsAfter
<1>4. DOMAIN c = 1..Len(c) /\ Len(c) \in Nat
      BY <1>3
<1>5. ASSUME NEW k \in DOMAIN c PROVE c[k] \in Nodes /\ h <= rank[c[k]]
  <2>1. k \in Nat /\ rank[c[k]] = h + k /\ c[k] \in Nodes
        BY <1>3, <1>4, <1>5
  <2> QED BY <1>3, <2>1
<1>6. ASSUME NEW n \in Nodes, h <= rank[n], n # head PROVE \E k \in DOMAIN c : c[k] = n
  <2>1. PICK r : r = rank[n]
        OBVIOUS
  <2>2. r \in Nat /\ r <= top /\ h <= r
        BY <1>1, <1>6, <2>1
  <2>3. r # h
        BY <1>1, <1>2, <1>6, <2>1
  <2>4. r - h \in 1..Len(c) /\ h + (r - h) = r
        BY <1>1, <1>3, <2>2, <2>3
  <2>5. c[r - h] \in Nodes /\ rank[c[r - h]] = r
        BY <1>3, <1>4, <1>5, <2>4
  <2>6. r # 0
        BY <1>3, <2>2
  <2>7. c[r - h] = n
        BY <1>1, <2>1, <2>5, <2>6
  <2> QED BY <1>4, <2>4, <2>7
<1>7. h <= rank[head]
      BY <1>1, <1>2
<1>8. Listed = {head} \cup {c[i] : i \in DOMAIN c}
      BY <1>2 DEF Listed
<1>9. Listed = {n \in Nodes : h <= rank[n]}
      BY <1>1, <1>5, <1>6, <1>7, <1>8
<1> QED BY <1>2, <1>3, <1>9

\* What the accounts come to.
LEMMA AccountsMean ==
    ASSUME NEW rank, NEW top, AccountInv(rank, top)
    PROVE  NodesAccounted
<1>1. SafeInv(rank, top) /\ PlacesOK(rank) /\ SizeOK(rank, top)
      BY DEF AccountInv
<1>2. /\ Listed = {n \in Nodes : rank[head] <= rank[n]} /\ Len(Contents) = top - rank[head]
      /\ rank \in [Nodes -> Nat] /\ head \in Nodes /\ rank[head] # 0
      BY <1>1, ListedFacts, ListFacts
<1>3. /\ \A n \in freed : n \in Nodes /\ rank[n] # 0 /\ rank[n] < rank[head]
      /\ \A s \in Slots : \A n \in Waiting(s) : n \in Nodes /\ rank[n] # 0 /\ rank[n] < rank[head]
      BY <1>1 DEF SafeInv, TypeOK, ReclamationOK, Waiting, SlotRecords
<1>4. \A t \in Threads :
         /\ pc[t] \in Unlinked => loc[t].node \in Nodes /\ rank[loc[t].node] = 0
                                  /\ loc[t].node < allocated
         /\ pc[t] \in Claiming => loc[t].head \in Nodes /\ rank[loc[t].head] # 0
                                  /\ rank[loc[t].head] < rank[head]
      BY <1>1 DEF SafeInv, LocalOK, Claiming, UsesHead
<1>5. \A t \in Threads : Private(t) = IF pc[t] \in Unlinked THEN {loc[t].node}
                                      ELSE IF pc[t] \in Claiming THEN {loc[t].head} ELSE {}
      BY DEF Private, Unlinked, Claiming
<1>6. \A m, n \in Nodes : rank[m] < rank[n] => ~(rank[n] <= rank[m])
      BY <1>2
<1>7. Listed \cap freed = {} /\ \A s \in Slots : Waiting(s) \cap (Listed \cup freed) = {}
      BY <1>1, <1>2, <1>3, <1>6 DEF PlacesOK
<1>8. ASSUME NEW t \in Threads, NEW n \in Private(t)
      PROVE  /\ n \in Nodes /\ rank[n] < rank[head]
             /\ pc[t] \in Unlinked => n = loc[t].node /\ rank[n] = 0
             /\ pc[t] \notin Unlinked => pc[t] \in Claiming /\ n = loc[t].head /\ rank[n] # 0
  <2>1. CASE pc[t] \in Unlinked
    <3>1. n = loc[t].node /\ n \in Nodes /\ rank[n] = 0
          BY <1>4, <1>5, <1>8, <2>1
    <3>2. rank[head] \in Nat
          BY <1>2
    <3>3. rank[n] < rank[head]
          BY <1>2, <3>1, <3>2
    <3> QED BY <2>1, <3>1, <3>3
  <2>2. CASE pc[t] \notin Unlinked
        BY <1>4, <1>5, <1>8, <2>2
  <2> QED BY <2>1, <2>2
<1>9. \A t \in Threads : pc[t] \in Claiming => loc[t].head \notin freed
  <2>1. ASSUME NEW t \in Threads, pc[t] \in Claiming, loc[t].head \in freed PROVE FALSE
    <3>1. loc[t].head \in InUse(t) /\ loc[t].head \in Nodes
          BY <1>4, <2>1 DEF InUse, UsesHead, Claiming
    <3>2. rank[loc[t].head] < rank[loc[t].head]
          BY <1>1, <2>1, <3>1, NilIsNoNode DEF SafeInv, ReclamationOK, Before
    <3>3. rank[loc[t].head] \in Nat
          BY <1>2, <3>1
    <3> QED BY <3>2, <3>3
  <2> QED BY <2>1
<1>10. \A t \in Threads : Private(t) \cap (Listed \cup freed) = {}
      BY <1>2, <1>3, <1>6, <1>8, <1>9
<1>11. \A s \in Slots, t \in Threads : Waiting(s) \cap Private(t) = {}
      BY <1>1, <1>3, <1>8 DEF PlacesOK
<1>12. \A t, u \in Threads : t # u => Private(t) \cap Private(u) = {}
  <2>1. \A t, u \in Threads : t # u /\ pc[t] \in Unlinked /\ pc[u] \in Unlinked
                                => loc[t].node # loc[u].node
        BY <1>1 DEF SafeInv, NodesApart
  <2> QED BY <1>1, <1>8, <2>1 DEF PlacesOK
<1>13. Listed \cup freed \cup (UNION {Waiting(s) : s \in Slots}) \cup (UNION {Private(t) : t \in Threads})
         = 0..allocated - 1
  <2>1. allocated \in Nat /\ allocated - 1 <= MaxPushes /\ MaxPushes \in Nat
        BY <1>1, BoundsAssumption DEF SafeInv, TypeOK
  <2>2. \A n : n \in 0..allocated - 1 <=> n \in Nodes /\ n < allocated
        BY <2>1 DEF Nodes
  <2>3. ASSUME NEW n \in Nodes, n < allocated
        PROVE  \/ n \in Listed \/ n \in freed \/ \E s \in Slots : n \in Waiting(s)
               \/ \E t \in Threads : n \in Private(t)
    <3>1. CASE rank[n] = 0
          BY <1>1, <1>5, <2>3, <3>1 DEF PlacesOK
    <3>2. CASE rank[n] # 0 /\ rank[n] < rank[head]
      <4>1. OffList(n)
            BY <1>1, <3>2 DEF PlacesOK
      <4>2. \A t \in Threads : pc[t] \in Claiming => pc[t] \notin Unlinked
            BY DEF Claiming, Unlinked
      <4> QED BY <1>5, <4>1, <4>2 DEF OffList
    <3>3. CASE rank[head] <= rank[n]
          BY <1>2, <3>3
    <3>4. rank[n] \in Nat /\ rank[head] \in Nat
          BY <1>2
    <3> QED BY <3>1, <3>2, <3>3, <3>4
  <2>4. \A n \in Nodes : rank[n] # 0 => n < allocated
        BY <1>1 DEF SafeInv, ListOK
  <2>5. \A n \in Listed : n \in Nodes /\ rank[n] # 0
        BY <1>2
  <2>6. \A t \in Threads : \A n \in Private(t) : n \in Nodes /\ n < allocated
        BY <1>4, <1>8, <2>4
  <2> QED BY <1>3, <2>2, <2>3, <2>4, <2>5, <2>6
<1>14. (size + Cardinality(Linked)) % SizeMod = (Len(Contents) + Cardinality(Claimed)) % SizeMod
  <2>1. PICK a, b, l : a = Cardinality(Linked) /\ b = Cardinality(Claimed) /\ l = Len(Contents)
        OBVIOUS
  <2>2. a \in Nat /\ b \in Nat /\ l \in Nat /\ CountOK(size, a, l, b)
        BY <1>1, <1>2, <2>1, CountFacts DEF SizeOK
  <2>3. PICK k \in Int : size + a = l + b + k * SizeMod
        BY <2>2 DEF CountOK
  <2>4. PICK x, y, m : x = size + a /\ y = l + b /\ m = SizeMod
        OBVIOUS
  <2>5. x \in Nat /\ y \in Nat /\ m \in Nat \ {0} /\ x = y + k * m
        BY <2>2, <2>3, <2>4, BoundsAssumption DEF CountOK
  <2>6. x % m = y % m
        BY <2>5, SameRemainder
  <2> QED BY <2>1, <2>4, <2>6
<1> QED BY <1>1, <1>7, <1>10, <1>11, <1>12, <1>13, <1>14 DEF NodesAccounted, PlacesOK

-----------------------------------------------------------------------------
(* The theorems.                                                             *)

\* The queue starts empty.
LEMMA InitQueue ==
    ASSUME Init
    PROVE  \E rank, top : QueueInv(rank, top)
<1>1. PICK rank, top : SafeInv(rank, top)
      BY InitSafe
<1>2. \A t \in Threads : pc[t] \in {"outside", "ready"}
      BY DEF Init
<1>3. \A n \in Nodes : ~(rank[head] < rank[n])
  <2>1. \A n \in Nodes : rank[n] # 0 => n = head
    <3>1. allocated = 1 /\ head = 0
          BY DEF Init, Stub
    <3>2. \A n \in Nodes : rank[n] # 0 => n < 1 /\ n \in Nat
          BY <1>1, <3>1, NilIsNoNode DEF SafeInv, ListOK
    <3>3. ASSUME NEW n \in Nat, n < 1 PROVE n = 0
          BY <3>3
    <3> QED BY <3>1, <3>2, <3>3
  <2>2. rank \in [Nodes -> Nat] /\ head \in Nodes
        BY <1>1, ListFacts
  <2> QED BY <2>1, <2>2
<1>4. ValuesOK(rank)
      BY <1>2, <1>3 DEF ValuesOK, Unlinked
<1>5. EmptyOK(rank, top)
      BY <1>2 DEF EmptyOK, Inside
<1> QED BY <1>1, <1>4, <1>5 DEF QueueInv

\* Every step keeps the whole invariant, for some ranks.
LEMMA NextQueue ==
    ASSUME Leavers \cap Consumers = {},
           NEW rank, NEW top, QueueInv(rank, top), [Next]_vars
    PROVE  \E rank2, top2 : QueueInv(rank2, top2)'
<1>1. SafeInv(rank, top) /\ ValuesOK(rank) /\ EmptyOK(rank, top)
      BY DEF QueueInv
<1>2. CASE SafeInv(rank, top)'
  <2>1. ValuesOK(rank)' /\ EmptyOK(rank, top)'
        BY <1>1, <1>2, NextValues, NextEmpty
  <2>2. QueueInv(rank, top)'
        BY <1>2, <2>1 DEF QueueInv
  <2> QED BY <2>2
<1>3. CASE ~SafeInv(rank, top)'
  <2>1. PICK rank2, top2 : /\ SafeInv(rank2, top2)'
                           /\ \E t \in Threads : Grows(t, rank, top, rank2, top2)
        BY <1>1, <1>3, NextSafe
  <2>2. ValuesOK(rank2)' /\ EmptyOK(rank2, top2)'
        BY <1>1, <2>1, GrowsValues, GrowsEmpty
  <2>3. QueueInv(rank2, top2)'
        BY <2>1, <2>2 DEF QueueInv
  <2> QED BY <2>3
<1> QED BY <1>2, <1>3

\* Only a claim moves head_, and by one node.
LEMMA HeadMoves ==
    ASSUME NEW rank, NEW top, SafeInv(rank, top), [Next]_vars
    PROVE  head' = head \/ (head' \in Nodes /\ rank[head'] = rank[head] + 1)
<1>1. ASSUME NEW t \in Threads, PopClaim(t)
      PROVE  head' = head \/ (head' \in Nodes /\ rank[head'] = rank[head] + 1)
  <2>1. pc[t] = "pop_claim" /\ (head' = head \/ (head = loc[t].head /\ head' = loc[t].next))
        BY <1>1 DEF PopClaim, At
  <2> QED BY <2>1, ClaimFacts
<1>2. ASSUME NEW t \in Threads, KeepsEmpty(t)
      PROVE  head' = head
      BY <1>2 DEF KeepsEmpty
<1>3. ASSUME NEW t \in Threads, Call(t) \/ Leave(t) \/ PopLoadNext(t) \/ PopRecheck(t)
      PROVE  head' = head
      BY <1>3 DEF Call, Leave, PopLoadNext, PopRecheck, shared
<1>4. CASE UNCHANGED vars
      BY <1>4 DEF vars, shared
<1>5. TypeOK
      BY DEF SafeInv
<1> QED BY <1>1, <1>2, <1>3, <1>4, <1>5, QuietEmpty DEF Next

\* What a step does to the contents of the queue.
LEMMA NextFifo ==
    ASSUME Leavers \cap Consumers = {},
           NEW rank, NEW top, SafeInv(rank, top), [Next]_vars
    PROVE  FifoStep
<1>1. /\ IsAfter(Contents, head, rank, top) /\ Numbers(rank, top) /\ top \in Nat
      /\ rank \in [Nodes -> Nat] /\ head \in Nodes /\ rank[head] # 0 /\ rank[head] <= top
      BY ContentsFacts, ListFacts
<1>2. Contents \in Seq(Nodes)
      BY <1>1 DEF IsAfter
<1>3. CASE SafeInv(rank, top)'
  <2>1. IsAfter(Contents', head', rank, top)
        BY <1>3, NextContentsFacts
  <2>2. CASE head' = head
    <3>1. Contents' = Contents
          BY <1>1, <2>1, <2>2, AfterIsUnique
    <3> QED BY <3>1 DEF FifoStep
  <2>3. CASE head' \in Nodes /\ rank[head'] = rank[head] + 1
    <3>1. rank[head'] <= top /\ rank[head'] # 0
          BY <1>1, <2>3, ListFacts
    <3>2. Len(Contents) # 0 /\ Contents # << >>
          BY <1>1, <1>2, <2>3, <3>1 DEF IsAfter
    <3>3. /\ Tail(Contents) \in Seq(Nodes) /\ Len(Tail(Contents)) = Len(Contents) - 1
          /\ \A k \in 1..Len(Contents) - 1 : Tail(Contents)[k] = Contents[k + 1]
          BY <1>2, <3>2
    <3>4. Len(Contents) \in Nat /\ Len(Contents) = top - rank[head] /\ rank[head] \in Nat
          BY <1>1, <1>2 DEF IsAfter
    <3>5. \A k \in 1..Len(Contents) - 1 : rank[Contents[k + 1]] = rank[head] + (k + 1)
      <4>1. \A k \in 1..Len(Contents) - 1 : k + 1 \in 1..Len(Contents)
            BY <3>4
      <4> QED BY <1>1, <4>1 DEF IsAfter
    <3>6. IsAfter(Tail(Contents), head', rank, top)
      <4>1. Len(Tail(Contents)) = top - rank[head']
            BY <1>1, <2>3, <3>3, <3>4
      <4>2. \A k \in 1..Len(Tail(Contents)) : rank[Tail(Contents)[k]] = rank[head'] + k
        <5> TAKE k \in 1..Len(Tail(Contents))
        <5>1. k \in 1..Len(Contents) - 1 /\ k \in Nat
              BY <3>3, <3>4
        <5>2. rank[Tail(Contents)[k]] = rank[head] + (k + 1)
              BY <3>3, <3>5, <5>1
        <5>3. rank[head] + (k + 1) = (rank[head] + 1) + k
              BY <3>4, <5>1
        <5> QED BY <2>3, <5>2, <5>3
      <4> QED BY <3>3, <4>1, <4>2 DEF IsAfter
    <3>7. Contents' = Tail(Contents)
          BY <1>1, <2>1, <2>3, <3>1, <3>6, AfterIsUnique
    <3> QED BY <3>2, <3>7 DEF FifoStep
  <2> QED BY <2>2, <2>3, HeadMoves
<1>4. CASE ~SafeInv(rank, top)'
  <2>1. PICK rank2, top2 : /\ SafeInv(rank2, top2)'
                           /\ \E t \in Threads : Grows(t, rank, top, rank2, top2)
        BY <1>4, NextSafe
  <2>2. PICK t \in Threads : Grows(t, rank, top, rank2, top2)
        BY <2>1
  <2>3. PICK node : node = loc[t].node
        OBVIOUS
  <2>4. node \in Nodes /\ rank[node] = 0
        BY <2>2, <2>3 DEF Grows, At, SafeInv, LocalOK, Unlinked
  <2>5. /\ head' = head /\ top2 = top + 1 /\ rank2[node] = top + 1
        /\ \A n \in Nodes \ {node} : rank2[n] = rank[n]
        BY <1>1, <2>2, <2>3, <2>4 DEF Grows
  <2>6. IsAfter(Contents', head', rank2, top2) /\ Numbers(rank2, top2)
        BY <2>1, NextContentsFacts DEF SafeInv, ListOK, Numbers
  <2>7. rank2[head'] = rank[head] /\ rank2[head'] # 0
        BY <1>1, <2>4, <2>5
  <2>8. /\ Append(Contents, node) \in Seq(Nodes) /\ Len(Append(Contents, node)) = Len(Contents) + 1
        /\ Append(Contents, node)[Len(Contents) + 1] = node
        /\ \A k \in 1..Len(Contents) : Append(Contents, node)[k] = Contents[k]
        BY <1>2, <2>4
  <2>9. Len(Contents) \in Nat /\ Len(Contents) = top - rank[head] /\ rank[head] \in Nat
        BY <1>1, <1>2 DEF IsAfter
  <2>10. \A k \in 1..Len(Contents) : rank2[Contents[k]] = rank[head] + k
    <3>1. \A k \in 1..Len(Contents) : Contents[k] \in Nodes /\ rank[Contents[k]] = rank[head] + k
          BY <1>1, <1>2 DEF IsAfter
    <3>2. \A k \in 1..Len(Contents) : rank[head] + k # 0
          BY <2>9
    <3> QED BY <2>4, <2>5, <3>1, <3>2
  <2>11. IsAfter(Append(Contents, node), head', rank2, top2)
    <3>1. Len(Append(Contents, node)) = top2 - rank2[head']
          BY <1>1, <2>5, <2>7, <2>8, <2>9
    <3>2. ASSUME NEW k \in 1..Len(Append(Contents, node))
          PROVE  rank2[Append(Contents, node)[k]] = rank2[head'] + k
      <4>1. CASE k = Len(Contents) + 1
        <5>1. rank2[Append(Contents, node)[k]] = top + 1
              BY <2>5, <2>8, <4>1
        <5>2. rank[head] + (Len(Contents) + 1) = top + 1
              BY <1>1, <2>9
        <5> QED BY <2>7, <4>1, <5>1, <5>2
      <4>2. CASE k \in 1..Len(Contents)
            BY <2>7, <2>8, <2>10, <4>2
      <4> QED BY <2>8, <2>9, <4>1, <4>2
    <3> QED BY <2>8, <3>1, <3>2 DEF IsAfter
  <2>12. Contents' = Append(Contents, node)
        BY <1>1, <2>5, <2>6, <2>7, <2>11, AfterIsUnique
  <2> QED BY <2>4, <2>12 DEF FifoStep
<1> QED BY <1>3, <1>4

\* The list is a queue, for any number of threads, slots and pushes: every step
\* appends one node to its contents, removes the oldest, or leaves them alone.
THEOREM QueueIsFifo ==
    ASSUME Leavers \cap Consumers = {}
    PROVE  Spec => FifoSteps
<1> DEFINE Inv == \E rank, top : QueueInv(rank, top)
<1>1. Init => Inv
      BY InitQueue
<1>2. Inv /\ [Next]_vars => Inv'
      BY NextQueue
<1>3. Inv /\ [Next]_vars => FifoStep
      BY NextFifo DEF QueueInv
<1> HIDE DEF Inv
<1>4. Inv /\ [Next]_vars => [FifoStep]_vars
      BY <1>3
<1> QED BY <1>1, <1>2, <1>4, PTL DEF Spec, FifoSteps

\* Every value is taken at most once: the consumer that claimed it finds it
\* there and has claimed it alone, and all values in the queue are there.
THEOREM ValuesAreTakenOnce ==
    ASSUME Leavers \cap Consumers = {}
    PROVE  Spec => []TakenOnce
<1> DEFINE Inv == \E rank, top : QueueInv(rank, top)
<1>1. Init => Inv
      BY InitQueue
<1>2. Inv /\ [Next]_vars => Inv'
      BY NextQueue
<1>3. Inv => TakenOnce
  <2>1. SUFFICES ASSUME NEW rank, NEW top, QueueInv(rank, top) PROVE TakenOnce
        OBVIOUS
  <2>2. SafeInv(rank, top) /\ ValuesOK(rank)
        BY <2>1 DEF QueueInv
  <2>3. \A i \in DOMAIN Contents : Contents[i] \in full
    <3>1. IsAfter(Contents, head, rank, top) /\ rank \in [Nodes -> Nat] /\ head \in Nodes
          BY <2>2, ContentsFacts, ListFacts
    <3>2. \A i \in DOMAIN Contents : /\ i \in Nat /\ i > 0 /\ Contents[i] \in Nodes
                                    /\ rank[Contents[i]] = rank[head] + i
          BY <3>1 DEF IsAfter
    <3>3. \A i \in DOMAIN Contents : rank[head] < rank[Contents[i]]
          BY <3>1, <3>2
    <3> QED BY <2>2, <3>2, <3>3 DEF ValuesOK
  <2> QED BY <2>2, <2>3 DEF TakenOnce, At, ValuesOK
<1> HIDE DEF Inv
<1> QED BY <1>1, <1>2, <1>3, PTL DEF Spec

\* try_pop is right when it returns nothing: the queue was empty at some moment
\* of the call.
THEOREM EmptyIsTrue ==
    ASSUME Leavers \cap Consumers = {}
    PROVE  Spec => []EmptyAnswersAreTrue
<1> DEFINE Inv == \E rank, top : QueueInv(rank, top)
<1>1. Init => Inv
      BY InitQueue
<1>2. Inv /\ [Next]_vars => Inv'
      BY NextQueue
<1>3. Inv => EmptyAnswersAreTrue
      BY DEF QueueInv, EmptyOK, EmptyAnswersAreTrue, At
<1> HIDE DEF Inv
<1> QED BY <1>1, <1>2, <1>3, PTL DEF Spec

\* Epoch reclamation is safe for any number of threads, slots and pushes: as
\* long as the threads that give their tokens back are ones that never pop (their
\* slots have nothing to delete by force), no thread inside push or try_pop goes
\* on with a pointer to a deleted node.
THEOREM ReclamationIsSafe ==
    ASSUME Leavers \cap Consumers = {}
    PROVE  Spec => []NoStalePointer
<1> DEFINE Inv == \E rank, top : QueueInv(rank, top)
<1>1. Init => Inv
      BY InitQueue
<1>2. Inv /\ [Next]_vars => Inv'
      BY NextQueue
<1>3. Inv => NoStalePointer
  <2>1. ASSUME NEW rank, NEW top, SafeInv(rank, top), NEW t \in Threads, NEW n \in InUse(t), n \in freed
        PROVE  FALSE
    <3>1. n \in Nodes /\ n # Nil
          BY <2>1, NilIsNoNode DEF SafeInv, TypeOK
    <3>2. Before(rank, n, t)
          BY <2>1 DEF SafeInv, ReclamationOK
    <3>3. rank[n] \in Nat
          BY <2>1, <3>1 DEF SafeInv, ListOK, Numbers, Joins
    <3> QED BY <2>1, <3>1, <3>2, <3>3 DEF Before
  <2> QED BY <2>1 DEF NoStalePointer, QueueInv
<1> HIDE DEF Inv
<1> QED BY <1>1, <1>2, <1>3, PTL DEF Spec

\* No node is leaked and none is deleted twice, for any number of threads, slots
\* and pushes, as long as the threads that give their tokens back never pop; and
\* size_ is right but for the pushes and pops under way.
THEOREM NodesAreAccountedFor ==
    ASSUME Leavers \cap Consumers = {}
    PROVE  Spec => []NodesAccounted
<1> DEFINE Inv == \E rank, top : AccountInv(rank, top)
<1>1. Init => Inv
      BY InitAccounts
<1>2. Inv /\ [Next]_vars => Inv'
      BY NextAccounts
<1>3. Inv => NodesAccounted
      BY AccountsMean
<1> HIDE DEF Inv
<1> QED BY <1>1, <1>2, <1>3, PTL DEF Spec

=============================================================================

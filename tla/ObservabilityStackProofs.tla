---------------------- MODULE ObservabilityStackProofs ----------------------
(* Proofs for ObservabilityStack and for the two structures it is built of:  *)
(* the ring its queue is, SpscRingQueue, and the pool its envelopes come     *)
(* from, FixedBlockPool.  Each part is about the specification of its own    *)
(* module and holds for all values of that module's constants.               *)
EXTENDS SpscRingQueue, FixedBlockPool, ObservabilityStack, LibraryTheorems, TLAPS

-----------------------------------------------------------------------------
(* SpscRingQueue: no data race on a slot, slots that agree with the counters, *)
(* a bounded size_approx, and the refinement of the bounded first-in          *)
(* first-out queue.                                                           *)

-----------------------------------------------------------------------------
(* Counters and slots.                                                       *)

\* The slot of a counter is in the ring, and the slot of the next counter is
\* the next slot of the ring, also where the counter wraps around, because the
\* capacity divides the range of the counters (mask_ = capacity_ - 1).
LEMMA SlotOfCounter ==
    ASSUME NEW c \in 0..CounterMod - 1
    PROVE  /\ Slot(c) \in 0..Capacity - 1
           /\ Inc(c) \in 0..CounterMod - 1
           /\ Slot(Inc(c)) = IF Slot(c) + 1 = Capacity THEN 0 ELSE Slot(c) + 1
<1>1. PICK laps \in 2..CounterMod : CounterMod = Capacity * laps
  BY CapacityAssumption
<1> DEFINE q == c \div Capacity
           r == c % Capacity
<1>2. q \in Nat /\ r \in 0..Capacity - 1 /\ c = Capacity * q + r
  BY CapacityAssumption, Z3 DEF q, r
<1>3. ASSUME NEW k \in Nat, NEW x \in 0..Capacity - 1
      PROVE  (Capacity * k + x) % Capacity = x
  BY CapacityAssumption
<1> HIDE DEF q, r
<1>4. CASE r + 1 < Capacity
  <2>1. (c + 1) % Capacity = r + 1
    BY <1>2, <1>4, <1>3, CapacityAssumption
  <2>2. CounterMod % Capacity = 0
    BY <1>1, <1>3, CapacityAssumption
  <2> QED
    BY <1>2, <1>4, <2>1, <2>2, CapacityAssumption DEF Inc, Slot, r
<1>5. CASE r + 1 = Capacity
  <2>1. c + 1 = Capacity * (q + 1)
    BY <1>2, <1>5, CapacityAssumption
  <2>2. (c + 1) % Capacity = 0 /\ 0 % Capacity = 0
    BY <1>2, <1>3, <2>1, CapacityAssumption
  <2> QED
    BY <1>2, <1>5, <2>2, CapacityAssumption DEF Inc, Slot, r
<1> QED
  BY <1>2, <1>4, <1>5, CapacityAssumption

\* The first counter addresses the first slot.
LEMMA SlotOfZero == Slot(0) = 0 /\ 0 \in 0..CounterMod - 1
  BY CapacityAssumption DEF Slot

\* Differences of counters are counters, and moving one counter by one moves
\* the difference by one unless the difference is at an end of the range.
LEMMA DiffOfCounters ==
    ASSUME NEW a \in 0..CounterMod - 1, NEW b \in 0..CounterMod - 1
    PROVE  /\ Diff(a, b) \in 0..CounterMod - 1
           /\ Diff(a, b) < CounterMod - 1 => Diff(Inc(a), b) = Diff(a, b) + 1
           /\ Diff(Inc(a), b) <= Diff(a, b) + 1
           /\ Diff(a, b) > 0 => Diff(a, Inc(b)) = Diff(a, b) - 1
           /\ Diff(a, b) = 0 <=> a = b
  BY CapacityAssumption DEF Diff, Inc

\* The distance of two counters is at most the way through a third one.
LEMMA DiffTriangle ==
    ASSUME NEW a \in 0..CounterMod - 1, NEW b \in 0..CounterMod - 1,
           NEW c \in 0..CounterMod - 1
    PROVE  Diff(a, c) <= Diff(a, b) + Diff(b, c)
  BY CapacityAssumption DEF Diff

\* The counters have room for more than one ring: a full ring is told from an
\* empty one.
LEMMA RingSmallerThanCounters == Capacity < CounterMod - 1
<1>1. PICK laps \in 2..CounterMod : CounterMod = Capacity * laps
  BY CapacityAssumption
<1>2. CounterMod >= Capacity * 2
  BY <1>1, CapacityAssumption
<1> QED
  BY <1>2, CapacityAssumption


-----------------------------------------------------------------------------
(* The inductive invariant.                                                  *)

\* What a thread between two of its accesses may rely on: the producer past
\* its test still has a free slot and the consumer past its test still has a
\* value, whatever the other thread has done since.
ThreadsHaveRoom ==
    /\ Size <= Capacity
    /\ ppc # "idle" => pval \in Values
    /\ ppc \in {"write", "store_tail"} => Size < Capacity
    /\ cpc \in {"take", "reset", "store_head"} => Size > 0
    /\ cpc \in {"reset", "store_head"} => cval \in Values
    /\ cpc # "idle" => budget > 0

\* The slot of tail_ is the one Size places after the slot of head_.
TailFollowsHead ==
    Slot(tail) =
        IF Slot(head) + Size >= Capacity
          THEN Slot(head) + Size - Capacity ELSE Slot(head) + Size

\* head_ moved by no more than the counted pops since the observer loaded it.
ObserverBehind ==
    opc = "load_tail" /\ opops <= MaxPops => Diff(head, ohead) <= opops

\* Together they are inductive: each part is needed to preserve another.
IInv ==
    /\ RingTypeOK
    /\ ThreadsHaveRoom
    /\ TailFollowsHead
    /\ SlotsMatchCounters
    /\ ObserverBehind
    /\ SizeApproxBounded

\* The initial state satisfies the invariant.
LEMMA InitIInv == RingInit => IInv
<1> SUFFICES ASSUME RingInit PROVE IInv
  OBVIOUS
<1> USE CapacityAssumption, BoundsAssumption, SlotOfZero DEF RingInit
<1>0. Size = 0
  BY DEF Size, Diff
<1>1. RingTypeOK
  BY DEF RingTypeOK
<1>2. ThreadsHaveRoom /\ TailFollowsHead
  BY <1>0 DEF ThreadsHaveRoom, TailFollowsHead
<1>3. SlotsMatchCounters
  BY <1>0 DEF SlotsMatchCounters, SlotAt
<1>4. ObserverBehind /\ SizeApproxBounded
  BY DEF ObserverBehind, SizeApproxBounded
<1> QED
  BY <1>1, <1>2, <1>3, <1>4 DEF IInv

\* Every access of every thread preserves the invariant.
LEMMA NextIInv == IInv /\ [RingNext]_ringVars => IInv'
<1> SUFFICES ASSUME IInv, [RingNext]_ringVars PROVE IInv'
  OBVIOUS
<1> USE CapacityAssumption, ValuesAssumption, BoundsAssumption
<1>s. /\ Slot(head) \in 0..Capacity - 1 /\ Slot(tail) \in 0..Capacity - 1
      /\ Inc(head) \in 0..CounterMod - 1 /\ Inc(tail) \in 0..CounterMod - 1
      /\ Slot(Inc(head)) = IF Slot(head) + 1 = Capacity THEN 0 ELSE Slot(head) + 1
      /\ Slot(Inc(tail)) = IF Slot(tail) + 1 = Capacity THEN 0 ELSE Slot(tail) + 1
  BY SlotOfCounter DEF IInv, RingTypeOK
<1>d. /\ Size \in 0..CounterMod - 1
      /\ Size < Capacity => Diff(Inc(tail), head) = Size + 1
      /\ Size > 0 => Diff(tail, Inc(head)) = Size - 1
  <2>1. head \in 0..CounterMod - 1 /\ tail \in 0..CounterMod - 1
    BY DEF IInv, RingTypeOK
  <2>2. /\ Diff(tail, head) \in 0..CounterMod - 1
        /\ Diff(tail, head) < CounterMod - 1 => Diff(Inc(tail), head) = Diff(tail, head) + 1
        /\ Diff(tail, head) > 0 => Diff(tail, Inc(head)) = Diff(tail, head) - 1
    BY <2>1, DiffOfCounters
  <2> QED
    BY <2>2, RingSmallerThanCounters DEF Size
<1>1. ASSUME NEW v \in Values, PushCall(v) PROVE IInv'
  <2> USE <1>1 DEF PushCall, consumerVars, observerVars
  <2>1. Size' = Size /\ (\A i : SlotAt(i)' = SlotAt(i))
    BY DEF Size, SlotAt
  <2>2. RingTypeOK' /\ ThreadsHaveRoom' /\ TailFollowsHead'
    BY <2>1 DEF IInv, RingTypeOK, ThreadsHaveRoom, TailFollowsHead
  <2>3. SlotsMatchCounters'
    BY <2>1 DEF IInv, SlotsMatchCounters
  <2>4. ObserverBehind' /\ SizeApproxBounded'
    BY DEF IInv, ObserverBehind, SizeApproxBounded
  <2> QED
    BY <2>2, <2>3, <2>4 DEF IInv
<1>2. CASE LoadHead
  <2> USE <1>2 DEF LoadHead, consumerVars, observerVars
  <2>1. Size' = Size /\ (\A i : SlotAt(i)' = SlotAt(i))
    BY DEF Size, SlotAt
  <2>2. RingTypeOK' /\ ThreadsHaveRoom' /\ TailFollowsHead'
    BY <2>1, <1>d DEF IInv, RingTypeOK, ThreadsHaveRoom, TailFollowsHead
  <2>3. SlotsMatchCounters'
    BY <2>1 DEF IInv, SlotsMatchCounters
  <2>4. ObserverBehind' /\ SizeApproxBounded'
    BY DEF IInv, ObserverBehind, SizeApproxBounded
  <2> QED
    BY <2>2, <2>3, <2>4 DEF IInv
<1>3. CASE WriteSlot
  <2> USE <1>3 DEF WriteSlot, consumerVars, observerVars
  <2>1. Size' = Size /\ (\A i : SlotAt(i)' = SlotAt(i))
    BY DEF Size, SlotAt
  <2>2. RingTypeOK' /\ ThreadsHaveRoom' /\ TailFollowsHead'
    BY <2>1, <1>s DEF IInv, RingTypeOK, ThreadsHaveRoom, TailFollowsHead
  <2>3. SlotsMatchCounters'
    <3>1. \A i \in 0..Capacity - 1 :
             buffer'[SlotAt(i)] = IF i = Size THEN pval ELSE buffer[SlotAt(i)]
      <4>1. \A i \in 0..Capacity - 1 :
               SlotAt(i) \in 0..Capacity - 1 /\ (SlotAt(i) = Slot(tail) <=> i = Size)
        BY <1>s, <1>d DEF IInv, ThreadsHaveRoom, TailFollowsHead, SlotAt
      <4> QED
        BY <4>1, <1>s DEF IInv, RingTypeOK
    <3> QED
      BY <2>1, <3>1, <1>d DEF IInv, SlotsMatchCounters, ThreadsHaveRoom
  <2>4. ObserverBehind' /\ SizeApproxBounded'
    BY DEF IInv, ObserverBehind, SizeApproxBounded
  <2> QED
    BY <2>2, <2>3, <2>4 DEF IInv
<1>4. CASE StoreTail
  <2> USE <1>4 DEF StoreTail, consumerVars, observerVars
  <2>1. Size' = Size + 1 /\ (\A i : SlotAt(i)' = SlotAt(i))
    BY <1>d DEF IInv, ThreadsHaveRoom, Size, SlotAt
  <2>2. /\ RingTypeOK'
        /\ ThreadsHaveRoom'
        /\ TailFollowsHead'
    <3>1. RingTypeOK'
      BY <1>s DEF IInv, RingTypeOK
    <3>2. ThreadsHaveRoom'
      BY <2>1, <1>d DEF IInv, ThreadsHaveRoom
    <3>3. TailFollowsHead'
      BY <2>1, <1>s, <1>d DEF IInv, ThreadsHaveRoom, TailFollowsHead
    <3> QED
      BY <3>1, <3>2, <3>3
  <2>3. SlotsMatchCounters'
    BY <2>1, <1>d DEF IInv, SlotsMatchCounters, ThreadsHaveRoom
  <2>4. ObserverBehind' /\ SizeApproxBounded'
    BY DEF IInv, ObserverBehind, SizeApproxBounded
  <2> QED
    BY <2>2, <2>3, <2>4 DEF IInv
<1>5. ASSUME NEW n \in 1..MaxDrain, PopCall(n) PROVE IInv'
  <2> USE <1>5 DEF PopCall, producerVars, observerVars
  <2>1. Size' = Size /\ (\A i : SlotAt(i)' = SlotAt(i))
    BY DEF Size, SlotAt
  <2>2. RingTypeOK' /\ ThreadsHaveRoom' /\ TailFollowsHead'
    BY <2>1 DEF IInv, RingTypeOK, ThreadsHaveRoom, TailFollowsHead
  <2>3. SlotsMatchCounters'
    BY <2>1 DEF IInv, SlotsMatchCounters
  <2>4. ObserverBehind' /\ SizeApproxBounded'
    BY DEF IInv, ObserverBehind, SizeApproxBounded
  <2> QED
    BY <2>2, <2>3, <2>4 DEF IInv
<1>6. CASE LoadTail
  <2> USE <1>6 DEF LoadTail, producerVars, observerVars
  <2>1. Size' = Size /\ (\A i : SlotAt(i)' = SlotAt(i))
    BY DEF Size, SlotAt
  <2>2. head # tail => Size > 0
    BY <1>d, DiffOfCounters DEF IInv, RingTypeOK, Size
  <2>3. RingTypeOK' /\ ThreadsHaveRoom' /\ TailFollowsHead'
    BY <2>1, <2>2 DEF IInv, RingTypeOK, ThreadsHaveRoom, TailFollowsHead
  <2>4. SlotsMatchCounters'
    BY <2>1 DEF IInv, SlotsMatchCounters
  <2>5. ObserverBehind' /\ SizeApproxBounded'
    BY DEF IInv, ObserverBehind, SizeApproxBounded
  <2> QED
    BY <2>3, <2>4, <2>5 DEF IInv
<1>7. CASE TakeSlot
  <2> USE <1>7 DEF TakeSlot, producerVars, observerVars
  <2>1. Size' = Size /\ (\A i : SlotAt(i)' = SlotAt(i))
    BY DEF Size, SlotAt
  <2>2. \A i \in 0..Capacity - 1 :
           buffer'[SlotAt(i)] = IF i = 0 THEN Moved ELSE buffer[SlotAt(i)]
    BY <1>s DEF IInv, RingTypeOK, SlotAt
  <2>3. buffer[Slot(head)] \in Values
    BY <1>s, <1>d DEF IInv, SlotsMatchCounters, ThreadsHaveRoom, SlotAt
  <2>4. RingTypeOK' /\ ThreadsHaveRoom' /\ TailFollowsHead'
    BY <2>1, <2>3, <1>s DEF IInv, RingTypeOK, ThreadsHaveRoom, TailFollowsHead
  <2>5. SlotsMatchCounters'
    BY <2>1, <2>2, <1>d DEF IInv, SlotsMatchCounters, ThreadsHaveRoom
  <2>6. ObserverBehind' /\ SizeApproxBounded'
    BY DEF IInv, ObserverBehind, SizeApproxBounded
  <2> QED
    BY <2>4, <2>5, <2>6 DEF IInv
<1>8. CASE ResetSlot
  <2> USE <1>8 DEF ResetSlot, producerVars, observerVars
  <2>1. Size' = Size /\ (\A i : SlotAt(i)' = SlotAt(i))
    BY DEF Size, SlotAt
  <2>2. \A i \in 0..Capacity - 1 :
           buffer'[SlotAt(i)] = IF i = 0 THEN Null ELSE buffer[SlotAt(i)]
    BY <1>s DEF IInv, RingTypeOK, SlotAt
  <2>3. RingTypeOK' /\ ThreadsHaveRoom' /\ TailFollowsHead'
    BY <2>1, <1>s DEF IInv, RingTypeOK, ThreadsHaveRoom, TailFollowsHead
  <2>4. SlotsMatchCounters'
    BY <2>1, <2>2, <1>d DEF IInv, SlotsMatchCounters, ThreadsHaveRoom
  <2>5. ObserverBehind' /\ SizeApproxBounded'
    BY DEF IInv, ObserverBehind, SizeApproxBounded
  <2> QED
    BY <2>3, <2>4, <2>5 DEF IInv
<1>9. CASE StoreHead
  <2> USE <1>9 DEF StoreHead, producerVars
  <2>1. Size' = Size - 1
    BY <1>d DEF IInv, ThreadsHaveRoom, Size
  <2>2. /\ \A i \in 0..Capacity - 2 : SlotAt(i)' = SlotAt(i + 1)
        /\ SlotAt(Capacity - 1)' = SlotAt(0)
    BY <1>s DEF SlotAt
  <2>3. /\ RingTypeOK'
        /\ ThreadsHaveRoom'
        /\ TailFollowsHead'
    <3>1. RingTypeOK'
      BY <1>s DEF IInv, RingTypeOK, ThreadsHaveRoom
    <3>2. ThreadsHaveRoom'
      BY <2>1, <1>d DEF IInv, RingTypeOK, ThreadsHaveRoom
    <3>3. TailFollowsHead'
      BY <2>1, <1>s, <1>d DEF IInv, ThreadsHaveRoom, TailFollowsHead
    <3> QED
      BY <3>1, <3>2, <3>3
  <2>4. SlotsMatchCounters'
    <3>1. ASSUME NEW i \in 0..Capacity - 2
          PROVE  /\ (i < Size)' => buffer[SlotAt(i + 1)] \in Values
                 /\ (i = Size /\ ppc = "store_tail")' => buffer[SlotAt(i + 1)] = pval
                 /\ (i >= Size /\ ~(i = Size /\ ppc = "store_tail"))'
                      => buffer[SlotAt(i + 1)] = Null
      BY <2>1, <1>d DEF IInv, SlotsMatchCounters, ThreadsHaveRoom
    <3>2. buffer[SlotAt(0)] = Null
      BY <1>d DEF IInv, SlotsMatchCounters, ThreadsHaveRoom
    <3>3. (Size < Capacity /\ (ppc = "store_tail" => Size < Capacity - 1))'
      BY <2>1, <1>d DEF IInv, ThreadsHaveRoom
    <3>4. cpc' \notin {"reset", "store_head"} /\ buffer' = buffer /\ pval' = pval
      OBVIOUS
    <3>5. ASSUME NEW i \in 0..Capacity - 2
          PROVE  /\ (i < Size)' => buffer'[SlotAt(i)'] \in Values
                 /\ (i = Size /\ ppc = "store_tail")' => buffer'[SlotAt(i)'] = pval'
                 /\ (i >= Size /\ ~(i = Size /\ ppc = "store_tail"))'
                      => buffer'[SlotAt(i)'] = Null
      BY <2>2, <3>1, <3>4
    <3>6. buffer'[SlotAt(Capacity - 1)'] = Null
      BY <2>2, <3>2, <3>4
    <3>7. \A i \in 0..Capacity - 1 : i \in 0..Capacity - 2 \/ i = Capacity - 1
      OBVIOUS
    <3> QED
      BY <2>1, <1>d, <3>3, <3>4, <3>5, <3>6, <3>7 DEF SlotsMatchCounters
  <2>5. ObserverBehind' /\ SizeApproxBounded'
    <3>1. /\ Diff(head, ohead) \in 0..CounterMod - 1
          /\ Diff(Inc(head), ohead) \in 0..CounterMod - 1
          /\ Diff(Inc(head), ohead) <= Diff(head, ohead) + 1
      BY <1>s, DiffOfCounters DEF IInv, RingTypeOK
    <3> QED
      BY <3>1 DEF IInv, RingTypeOK, ObserverBehind, SizeApproxBounded
  <2> QED
    BY <2>3, <2>4, <2>5 DEF IInv
<1>10. CASE SizeLoadHead
  <2> USE <1>10 DEF SizeLoadHead, producerVars, consumerVars
  <2>1. Size' = Size /\ (\A i : SlotAt(i)' = SlotAt(i))
    BY DEF Size, SlotAt
  <2>2. RingTypeOK' /\ ThreadsHaveRoom' /\ TailFollowsHead'
    BY <2>1 DEF IInv, RingTypeOK, ThreadsHaveRoom, TailFollowsHead
  <2>3. SlotsMatchCounters'
    BY <2>1 DEF IInv, SlotsMatchCounters
  <2>4. ObserverBehind' /\ SizeApproxBounded'
    BY DiffOfCounters DEF IInv, RingTypeOK, ObserverBehind, SizeApproxBounded
  <2> QED
    BY <2>2, <2>3, <2>4 DEF IInv
<1>11. CASE SizeLoadTail
  <2> USE <1>11 DEF SizeLoadTail, producerVars, consumerVars
  <2>1. Size' = Size /\ (\A i : SlotAt(i)' = SlotAt(i))
    BY DEF Size, SlotAt
  <2>2. RingTypeOK' /\ ThreadsHaveRoom' /\ TailFollowsHead'
    BY <2>1, DiffOfCounters, SlotOfZero
    DEF IInv, RingTypeOK, ThreadsHaveRoom, TailFollowsHead
  <2>3. SlotsMatchCounters'
    BY <2>1 DEF IInv, SlotsMatchCounters
  <2>4. ObserverBehind' /\ SizeApproxBounded'
    <3>1. /\ Diff(tail, ohead) <= Diff(tail, head) + Diff(head, ohead)
          /\ Diff(tail, ohead) \in 0..CounterMod - 1
          /\ Diff(head, ohead) \in 0..CounterMod - 1
      BY DiffTriangle, DiffOfCounters DEF IInv, RingTypeOK
    <3> QED
      BY <3>1, <1>d
      DEF IInv, RingTypeOK, ThreadsHaveRoom, Size, ObserverBehind, SizeApproxBounded
  <2> QED
    BY <2>2, <2>3, <2>4 DEF IInv
<1>12. CASE UNCHANGED ringVars
  BY <1>12 DEF ringVars, producerVars, consumerVars, observerVars, IInv, RingTypeOK,
     ThreadsHaveRoom, TailFollowsHead, SlotsMatchCounters, SlotAt, Size,
     ObserverBehind, SizeApproxBounded
<1> QED
  BY <1>1, <1>2, <1>3, <1>4, <1>5, <1>6, <1>7, <1>8, <1>9, <1>10, <1>11, <1>12
  DEF RingNext, Producer, Consumer, Observer

-----------------------------------------------------------------------------
(* The safety theorems.                                                      *)

\* IInv holds in every reachable state.
THEOREM InductiveInvariant == RingSpec => []IInv
<1>1. RingInit => IInv
  BY InitIInv
<1>2. IInv /\ [RingNext]_ringVars => IInv'
  BY NextIInv
<1> QED
  BY <1>1, <1>2, PTL DEF RingSpec

\* Counters, slots and program points of head_, tail_, buffer_ and the three
\* threads keep their types.
THEOREM TypeCorrectness == RingSpec => []RingTypeOK
<1>1. IInv => RingTypeOK
  BY DEF IInv
<1> QED
  BY <1>1, InductiveInvariant, PTL

\* emplace and try_pop_impl never touch the same slot at the same time,
\* although each works from a counter it loaded earlier.
THEOREM NoDataRace == RingSpec => []NoSlotRace
<1>1. IInv => NoSlotRace
  <2> SUFFICES ASSUME IInv, ppc = "write", cpc \in {"take", "reset"}
               PROVE  Slot(tail) # Slot(head)
    BY DEF NoSlotRace
  <2>1. Size > 0 /\ Size < Capacity /\ Size \in Nat
    BY DiffOfCounters, CapacityAssumption DEF IInv, RingTypeOK, ThreadsHaveRoom, Size
  <2>2. Slot(head) \in 0..Capacity - 1
    BY SlotOfCounter DEF IInv, RingTypeOK
  <2> QED
    BY <2>1, <2>2, CapacityAssumption DEF IInv, TailFollowsHead
<1> QED
  BY <1>1, InductiveInvariant, PTL

\* The slots always agree with the counters, around any wrap.
THEOREM SlotsAgree == RingSpec => []SlotsMatchCounters
<1>1. IInv => SlotsMatchCounters
  BY DEF IInv
<1> QED
  BY <1>1, InductiveInvariant, PTL

\* size_approx never wraps to a huge number.
THEOREM SizeApproxSound == RingSpec => []SizeApproxBounded
<1>1. IInv => SizeApproxBounded
  BY DEF IInv
<1> QED
  BY <1>1, InductiveInvariant, PTL

-----------------------------------------------------------------------------
(* The ring implements the bounded first-in first-out queue.                 *)

\* The ring's contents are a sequence of values of length Size.
LEMMA ContentsIsSeq ==
    IInv => /\ Contents \in Seq(Values)
            /\ Len(Contents) = Size
            /\ Size \in 0..Capacity
            /\ Contents = << >> <=> head = tail
<1> SUFFICES ASSUME IInv
             PROVE  /\ Contents \in Seq(Values)
                    /\ Len(Contents) = Size
                    /\ Size \in 0..Capacity
                    /\ Contents = << >> <=> head = tail
  OBVIOUS
<1> USE CapacityAssumption
<1>1. Size \in 0..Capacity /\ (Size = 0 <=> head = tail)
  <2>1. Diff(tail, head) \in 0..CounterMod - 1 /\ (Diff(tail, head) = 0 <=> tail = head)
    BY DiffOfCounters DEF IInv, RingTypeOK
  <2> QED
    BY <2>1 DEF IInv, ThreadsHaveRoom, Size
<1>2. \A i \in 1..Size : Contents[i] \in Values
  <2> TAKE i \in 1..Size
  <2>1. i - 1 \in 0..Capacity - 1 /\ i - 1 < Size
    BY <1>1
  <2> QED
    BY <2>1, <1>1 DEF Contents, IInv, SlotsMatchCounters, ThreadsHaveRoom
<1>3. Contents \in [1..Size -> Values]
  BY <1>2 DEF Contents
<1>4. Contents \in Seq(Values) /\ Len(Contents) = Size
  BY <1>1, <1>3
<1> QED
  BY <1>1, <1>4

\* The same after a step.
LEMMA ContentsIsSeqNext ==
    IInv' => (Contents \in Seq(Values) /\ Len(Contents) = Size)'
<1>1. IInv => Contents \in Seq(Values) /\ Len(Contents) = Size
  BY ContentsIsSeq
<1> QED
  BY <1>1, PTL

\* Every access is a push, a pop, a refused push, an empty try_pop or invisible
\* to the callers.
LEMMA StepRefinement ==
    ASSUME IInv, IInv', [RingNext]_ringVars
    PROVE  [Fifo!Next]_(Fifo!vars)
<1> USE CapacityAssumption
<1>c. /\ Contents \in Seq(Values) /\ Len(Contents) = Size /\ Size \in 0..Capacity
      /\ Contents = << >> <=> head = tail
  BY ContentsIsSeq
<1>s. Slot(head) \in 0..Capacity - 1
  BY SlotOfCounter DEF IInv, RingTypeOK
<1>a. \A i \in 0..Capacity - 1 : SlotAt(i) \in 0..Capacity - 1
  BY <1>s DEF SlotAt
<1>1. ASSUME NEW v \in Values, PushCall(v) PROVE UNCHANGED Fifo!vars
  BY <1>1 DEF PushCall, Fifo!vars, Contents, Size, SlotAt, consumerVars
<1>2. CASE LoadHead
  <2>1. UNCHANGED <<Contents, popRet>>
    BY <1>2 DEF LoadHead, Contents, Size, SlotAt, consumerVars
  <2>2. CASE Size = Capacity
    BY <1>2, <2>1, <2>2, <1>c DEF LoadHead, Fifo!Next, Fifo!PushFull
  <2>3. CASE Size # Capacity
    BY <1>2, <2>1, <2>3 DEF LoadHead, Fifo!vars
  <2> QED
    BY <2>2, <2>3
<1>3. CASE WriteSlot
  <2>1. Size' = Size /\ (\A i : SlotAt(i)' = SlotAt(i))
    BY <1>3 DEF WriteSlot, Size, SlotAt
  <2>2. \A i \in 0..Capacity - 1 : i < Size => SlotAt(i) # Slot(tail)
    BY <1>3, <1>s, <1>c DEF WriteSlot, IInv, ThreadsHaveRoom, TailFollowsHead, SlotAt
  <2>3. \A i \in 1..Size : buffer'[SlotAt(i - 1)] = buffer[SlotAt(i - 1)]
    BY <1>3, <2>2, <1>a, <1>c DEF WriteSlot, IInv, RingTypeOK
  <2>4. UNCHANGED Contents
    BY <1>3, <2>1, <2>3 DEF WriteSlot, Contents, consumerVars
  <2> QED
    BY <1>3, <2>4 DEF WriteSlot, Fifo!vars, consumerVars
<1>4. CASE StoreTail
  <2>1. Size' = Size + 1 /\ (\A i : SlotAt(i)' = SlotAt(i)) /\ Size < Capacity
    <3>1. Diff(tail, head) \in 0..CounterMod - 1 /\ Size < Capacity
          /\ (Diff(tail, head) < CounterMod - 1 => Diff(Inc(tail), head) = Diff(tail, head) + 1)
      BY <1>4, DiffOfCounters DEF StoreTail, IInv, RingTypeOK, ThreadsHaveRoom
    <3> QED
      BY <1>4, <3>1, RingSmallerThanCounters DEF StoreTail, Size, SlotAt
  <2>2. buffer[SlotAt(Size)] = pval /\ pval \in Values
    BY <1>4, <2>1, <1>c DEF StoreTail, IInv, SlotsMatchCounters, ThreadsHaveRoom
  <2>3. Contents' = Append(Contents, pval)
    <3>1. Contents' \in Seq(Values) /\ Len(Contents') = Size + 1
      BY <2>1, ContentsIsSeqNext
    <3>2. \A i \in 1..Size : Contents'[i] = Contents[i]
      BY <1>4, <2>1, <1>c DEF StoreTail, Contents, consumerVars
    <3>3. Contents'[Size + 1] = pval
      BY <1>4, <2>1, <2>2, <1>c DEF StoreTail, Contents, consumerVars, IInv, ThreadsHaveRoom
    <3> QED
      BY <3>1, <3>2, <3>3, <1>c, <2>2
  <2> QED
    BY <1>4, <2>1, <2>2, <2>3, <1>c DEF StoreTail, Fifo!Next, Fifo!Push, consumerVars
<1>5. ASSUME NEW n \in 1..MaxDrain, PopCall(n) PROVE UNCHANGED Fifo!vars
  BY <1>5 DEF PopCall, Fifo!vars, Contents, Size, SlotAt, producerVars
<1>6. CASE LoadTail
  <2>1. UNCHANGED <<Contents, pushRet>>
    BY <1>6 DEF LoadTail, Contents, Size, SlotAt, producerVars
  <2>2. CASE head = tail
    BY <1>6, <2>1, <2>2, <1>c DEF LoadTail, Fifo!Next, Fifo!PopEmpty
  <2>3. CASE head # tail
    BY <1>6, <2>1, <2>3 DEF LoadTail, Fifo!vars
  <2> QED
    BY <2>2, <2>3
<1>7. CASE TakeSlot
  <2>1. Size' = Size /\ (\A i : SlotAt(i)' = SlotAt(i)) /\ SlotAt(0) = Slot(head)
    BY <1>7, <1>s DEF TakeSlot, Size, SlotAt
  <2>2. \A i \in 1..Capacity - 1 : SlotAt(i) # Slot(head)
    BY <1>s DEF SlotAt
  <2>3. \A i \in 1..Size : i # 1 => buffer'[SlotAt(i - 1)] = buffer[SlotAt(i - 1)]
    BY <1>7, <2>2, <1>a, <1>c DEF TakeSlot, IInv, RingTypeOK
  <2>4. UNCHANGED Contents
    BY <1>7, <2>1, <2>3 DEF TakeSlot, Contents
  <2> QED
    BY <1>7, <2>4 DEF TakeSlot, Fifo!vars, producerVars
<1>8. CASE ResetSlot
  <2>1. Size' = Size /\ (\A i : SlotAt(i)' = SlotAt(i)) /\ SlotAt(0) = Slot(head)
    BY <1>8, <1>s DEF ResetSlot, Size, SlotAt
  <2>2. \A i \in 1..Capacity - 1 : SlotAt(i) # Slot(head)
    BY <1>s DEF SlotAt
  <2>3. \A i \in 1..Size : i # 1 => buffer'[SlotAt(i - 1)] = buffer[SlotAt(i - 1)]
    BY <1>8, <2>2, <1>a, <1>c DEF ResetSlot, IInv, RingTypeOK
  <2>4. UNCHANGED Contents
    BY <1>8, <2>1, <2>3 DEF ResetSlot, Contents
  <2> QED
    BY <1>8, <2>4 DEF ResetSlot, Fifo!vars, producerVars
<1>9. CASE StoreHead
  <2>1. Size > 0 /\ Size' = Size - 1
    <3>1. Size > 0 /\ (Diff(tail, head) > 0 => Diff(tail, Inc(head)) = Diff(tail, head) - 1)
      BY <1>9, DiffOfCounters DEF StoreHead, IInv, RingTypeOK, ThreadsHaveRoom
    <3> QED
      BY <1>9, <3>1 DEF StoreHead, Size
  <2>2. \A i \in 0..Capacity - 2 : SlotAt(i)' = SlotAt(i + 1)
    <3>1. Slot(Inc(head)) = IF Slot(head) + 1 = Capacity THEN 0 ELSE Slot(head) + 1
      BY SlotOfCounter DEF IInv, RingTypeOK
    <3> QED
      BY <1>9, <3>1, <1>s DEF StoreHead, SlotAt
  <2>3. Head(Contents) = cval /\ Contents # << >>
    BY <1>9, <2>1, <1>c DEF StoreHead, Contents
  <2>4. Contents' = Tail(Contents)
    <3>1. Contents' \in Seq(Values) /\ Len(Contents') = Size - 1
      BY <2>1, ContentsIsSeqNext
    <3>2. \A i \in 1..Size - 1 : Contents'[i] = Contents[i + 1]
      <4> TAKE i \in 1..Size - 1
      <4>1. i - 1 \in 0..Capacity - 2 /\ i \in 1..Size' /\ i + 1 \in 1..Size
        BY <2>1, <1>c
      <4>2. SlotAt(i - 1)' = SlotAt(i)
        BY <4>1, <2>2
      <4>3. Contents'[i] = buffer'[SlotAt(i - 1)']
        BY <1>9, <4>1 DEF StoreHead, Contents
      <4>4. Contents[i + 1] = buffer[SlotAt(i)]
        BY <4>1 DEF Contents
      <4> QED
        BY <1>9, <4>2, <4>3, <4>4 DEF StoreHead
    <3> QED
      BY <3>1, <3>2, <2>3, <1>c
  <2> QED
    BY <1>9, <2>3, <2>4 DEF StoreHead, Fifo!Next, Fifo!Pop, producerVars
<1>10. CASE SizeLoadHead
  BY <1>10 DEF SizeLoadHead, Fifo!vars, Contents, Size, SlotAt, producerVars, consumerVars
<1>11. CASE SizeLoadTail
  BY <1>11 DEF SizeLoadTail, Fifo!vars, Contents, Size, SlotAt, producerVars, consumerVars
<1>12. CASE UNCHANGED ringVars
  BY <1>12 DEF ringVars, Fifo!vars, Contents, Size, SlotAt, producerVars, consumerVars
<1> QED
  BY <1>1, <1>2, <1>3, <1>4, <1>5, <1>6, <1>7, <1>8, <1>9, <1>10, <1>11, <1>12
  DEF RingNext, Producer, Consumer, Observer

\* The lock-free ring implements the atomic bounded queue: what push and
\* try_pop answer is what a first-in first-out queue of Capacity values would.
THEOREM Refinement == RingSpec => ImplementsFifo
<1>1. RingInit => Fifo!Init
  BY CapacityAssumption, SlotOfZero DEF RingInit, Fifo!Init, Contents, Size, Diff
<1>2. IInv /\ IInv' /\ [RingNext]_ringVars => [Fifo!Next]_(Fifo!vars)
  BY StepRefinement
<1> QED
  BY <1>1, <1>2, InductiveInvariant, PTL DEF RingSpec, ImplementsFifo, Fifo!Spec

-----------------------------------------------------------------------------
(* FixedBlockPool: caches stay within their limit, a block has one owner, and *)
(* no thread has a block of a slab that is gone.                              *)

Blocks == Nat \ {0}

-----------------------------------------------------------------------------
(* Sequences without repetition, and the sets of their elements.             *)

\* Max and Min of two numbers.
LEMMA MaxMinPair ==
    ASSUME NEW a \in Nat, NEW b \in Nat
    PROVE  /\ Max({a, b}) = IF a >= b THEN a ELSE b
           /\ Min({a, b}) = IF a <= b THEN a ELSE b
<1>1. \A x \in {a, b} : x \in Nat
      OBVIOUS
<1>2. \E x \in {a, b} : \A y \in {a, b} : x >= y
      BY SMT
<1>3. \E x \in {a, b} : \A y \in {a, b} : x =< y
      BY SMT
<1>4. Max({a, b}) \in {a, b} /\ \A y \in {a, b} : Max({a, b}) >= y
      BY <1>2 DEF Max
<1>5. Min({a, b}) \in {a, b} /\ \A y \in {a, b} : Min({a, b}) =< y
      BY <1>3 DEF Min
<1> QED BY <1>1, <1>4, <1>5

\* front and back are sequences that share the elements of s among them, and
\* repeat none if s does not.
AreParts(S, s, front, back) ==
    /\ front \in Seq(S) /\ back \in Seq(S)
    /\ Len(front) + Len(back) = Len(s)
    /\ ToSet(s) = ToSet(front) \cup ToSet(back)
    /\ IsInjective(s) => /\ IsInjective(front) /\ IsInjective(back)
                         /\ ToSet(front) \cap ToSet(back) = {}

\* A sequence cut in two, its end turned round.
LEMMA Cut ==
    ASSUME NEW S, NEW s \in Seq(S), NEW k \in 0..Len(s)
    PROVE  /\ AreParts(S, s, SubSeq(s, 1, k), Reverse(SubSeq(s, k + 1, Len(s))))
           /\ Len(SubSeq(s, 1, k)) = k
<1> DEFINE front == SubSeq(s, 1, k)
           back == Reverse(SubSeq(s, k + 1, Len(s)))
           rest == SubSeq(s, k + 1, Len(s))
<1>1. front \in Seq(S) /\ Len(front) = k /\ \A i \in 1..k : front[i] = s[i]
      BY SubSeqProperties
<1>2. rest \in Seq(S) /\ Len(rest) = Len(s) - k /\ \A i \in 1..(Len(s) - k) : rest[i] = s[k + i]
      BY SubSeqProperties
<1>3. back \in Seq(S) /\ Len(back) = Len(s) - k
      /\ \A i \in 1..(Len(s) - k) : back[i] = s[Len(s) - i + 1]
  <2>1. Len(rest) \in Nat /\ back = [i \in 1..Len(rest) |-> rest[Len(rest) - i + 1]]
        BY <1>2 DEF Reverse
  <2>2. ASSUME NEW i \in 1..Len(rest) PROVE rest[Len(rest) - i + 1] \in S
    <3>1. Len(rest) - i + 1 \in 1..Len(rest)
          BY <2>1
    <3> QED BY <1>2, <3>1, ElementOfSeq
  <2> HIDE DEF rest, back
  <2>3. back \in Seq(S)
        BY <2>1, <2>2
  <2>4. DOMAIN back = 1..Len(back) /\ DOMAIN back = 1..Len(rest) /\ Len(back) \in Nat
        BY <2>1, <2>3, LenProperties
  <2>5. Len(back) = Len(rest)
        BY <2>1, <2>3, <2>4, LenProperties
  <2>6. ASSUME NEW i \in 1..(Len(s) - k) PROVE back[i] = s[Len(s) - i + 1]
    <3>1. back[i] = rest[Len(rest) - i + 1]
          BY <1>2, <2>1
    <3>2. Len(rest) - i + 1 \in 1..(Len(s) - k) /\ k + (Len(rest) - i + 1) = Len(s) - i + 1
          BY <1>2
    <3> QED BY <1>2, <3>1, <3>2
  <2> QED BY <1>2, <2>3, <2>5, <2>6
<1>4. DOMAIN front = 1..k /\ DOMAIN back = 1..(Len(s) - k) /\ DOMAIN s = 1..Len(s)
      BY <1>1, <1>3
<1> HIDE DEF front, back, rest
<1>5. ToSet(s) = ToSet(front) \cup ToSet(back)
  <2>1. ASSUME NEW i \in 1..Len(s) PROVE s[i] \in ToSet(front) \cup ToSet(back)
    <3>1. CASE i <= k
          BY <1>1, <1>4, <3>1 DEF ToSet
    <3>2. CASE i > k
      <4>1. Len(s) - i + 1 \in 1..(Len(s) - k) /\ back[Len(s) - i + 1] = s[i]
        <5>1. Len(s) \in Nat /\ k \in Nat /\ k <= Len(s)
              BY LenProperties
        <5>2. PICK m \in Nat : m = Len(s)
              BY <5>1
        <5>3. i \in 1..m /\ i > k
              BY <3>2, <5>2
        <5>4. PICK j \in 1..(m - k) : j = m - i + 1
          <6>1. m - i + 1 \in 1..(m - k)
                BY <5>1, <5>2, <5>3
          <6> QED BY <6>1
        <5>5. m - j + 1 = i
              BY <5>3, <5>4
        <5>6. back[j] = s[m - j + 1]
              BY <1>3, <5>2, <5>4
        <5> QED BY <5>2, <5>4, <5>5, <5>6
      <4> QED BY <4>1, <1>4 DEF ToSet
    <3> QED BY <3>1, <3>2
  <2>2. ToSet(front) \subseteq ToSet(s)
        BY <1>1, <1>4 DEF ToSet
  <2>3. ASSUME NEW i \in 1..(Len(s) - k) PROVE back[i] \in ToSet(s)
    <3>1. Len(s) - i + 1 \in 1..Len(s)
          OBVIOUS
    <3> QED BY <1>3, <1>4, <3>1 DEF ToSet
  <2> QED BY <2>1, <2>2, <2>3, <1>4 DEF ToSet
<1>6. ASSUME IsInjective(s)
      PROVE  /\ IsInjective(front) /\ IsInjective(back) /\ ToSet(front) \cap ToSet(back) = {}
  <2>1. IsInjective(front)
        BY <1>1, <1>4, <1>6 DEF IsInjective
  <2>2. IsInjective(back)
    <3>1. ASSUME NEW i \in 1..(Len(s) - k), NEW j \in 1..(Len(s) - k), back[i] = back[j]
          PROVE  i = j
      <4>1. Len(s) - i + 1 \in 1..Len(s) /\ Len(s) - j + 1 \in 1..Len(s)
            OBVIOUS
      <4>2. Len(s) - i + 1 = Len(s) - j + 1
            BY <1>3, <1>4, <1>6, <3>1, <4>1 DEF IsInjective
      <4> QED BY <4>2
    <3> QED BY <3>1, <1>4 DEF IsInjective
  <2>3. ASSUME NEW i \in 1..k, NEW j \in 1..(Len(s) - k) PROVE front[i] # back[j]
    <3>1. i \in 1..Len(s) /\ Len(s) - j + 1 \in 1..Len(s) /\ i # Len(s) - j + 1
          OBVIOUS
    <3>2. s[i] # s[Len(s) - j + 1]
          BY <3>1, <1>4, <1>6 DEF IsInjective
    <3> QED BY <1>1, <1>3, <3>2
  <2> QED BY <2>1, <2>2, <2>3, <1>4 DEF ToSet
<1>7. AreParts(S, s, front, back)
      BY <1>1, <1>3, <1>5, <1>6 DEF AreParts
<1> QED BY <1>1, <1>7 DEF front, back

\* The last element and the rest of a sequence without repetition.
LEMMA CutLast ==
    ASSUME NEW S, NEW s \in Seq(S), s # << >>
    PROVE  /\ Front(s) \in Seq(S) /\ Len(Front(s)) = Len(s) - 1
           /\ Last(s) \in S
           /\ ToSet(s) = ToSet(Front(s)) \cup {Last(s)}
           /\ IsInjective(s) => IsInjective(Front(s)) /\ Last(s) \notin ToSet(Front(s))
<1>1. Len(s) \in Nat \ {0} /\ DOMAIN s = 1..Len(s)
      BY EmptySeq
<1>2. /\ Front(s) \in Seq(S) /\ Len(Front(s)) = Len(s) - 1
      /\ \A i \in 1..(Len(s) - 1) : Front(s)[i] = s[i]
      BY <1>1, SubSeqProperties DEF Front
<1>3. DOMAIN Front(s) = 1..(Len(s) - 1)
      BY <1>2
<1>4. Last(s) \in S
      BY <1>1, ElementOfSeq DEF Last
<1>5. ToSet(s) = ToSet(Front(s)) \cup {Last(s)}
      BY <1>1, <1>2, <1>3 DEF ToSet, Last
<1>6. ASSUME IsInjective(s) PROVE IsInjective(Front(s)) /\ Last(s) \notin ToSet(Front(s))
      BY <1>1, <1>2, <1>3, <1>6 DEF ToSet, Last, IsInjective
<1> QED BY <1>2, <1>4, <1>5, <1>6

\* Two sequences without repetition and without common elements, joined.
LEMMA Join ==
    ASSUME NEW S, NEW s \in Seq(S), NEW r \in Seq(S)
    PROVE  /\ s \o r \in Seq(S) /\ Len(s \o r) = Len(s) + Len(r)
           /\ ToSet(s \o r) = ToSet(s) \cup ToSet(r)
           /\ (IsInjective(s) /\ IsInjective(r) /\ ToSet(s) \cap ToSet(r) = {})
                 => IsInjective(s \o r)
<1>1. /\ s \o r \in Seq(S) /\ Len(s \o r) = Len(s) + Len(r)
      /\ \A i \in 1..(Len(s) + Len(r)) :
            (s \o r)[i] = IF i <= Len(s) THEN s[i] ELSE r[i - Len(s)]
      BY ConcatProperties
<1> DEFINE q == s \o r
<1>2. DOMAIN s = 1..Len(s) /\ DOMAIN r = 1..Len(r) /\ DOMAIN q = 1..(Len(s) + Len(r))
      BY <1>1
<1> HIDE DEF q
<1>3. ToSet(q) = ToSet(s) \cup ToSet(r)
  <2>1. ToSet(q) \subseteq ToSet(s) \cup ToSet(r)
        BY <1>1, <1>2 DEF ToSet, q
  <2>2. ToSet(s) \subseteq ToSet(q)
        BY <1>1, <1>2 DEF ToSet, q
  <2>3. ASSUME NEW j \in 1..Len(r) PROVE r[j] \in ToSet(q)
    <3>1. Len(s) + j \in 1..(Len(s) + Len(r)) /\ q[Len(s) + j] = r[j]
          BY <1>1 DEF q
    <3> QED BY <3>1, <1>2 DEF ToSet
  <2> QED BY <2>1, <2>2, <2>3, <1>2 DEF ToSet
<1>4. ASSUME IsInjective(s), IsInjective(r), ToSet(s) \cap ToSet(r) = {}
      PROVE  IsInjective(q)
  <2>1. \A i \in 1..Len(s), j \in 1..Len(r) : s[i] # r[j]
        BY <1>2, <1>4 DEF ToSet
  <2> QED BY <1>1, <1>2, <1>4, <2>1 DEF IsInjective, q
<1> QED BY <1>1, <1>3, <1>4 DEF q

\* An element added at the end of a sequence.
LEMMA AppendOne ==
    ASSUME NEW S, NEW s \in Seq(S), NEW x \in S
    PROVE  /\ Append(s, x) \in Seq(S) /\ Len(Append(s, x)) = Len(s) + 1
           /\ ToSet(Append(s, x)) = ToSet(s) \cup {x}
           /\ (IsInjective(s) /\ x \notin ToSet(s)) => IsInjective(Append(s, x))
<1>1. /\ Append(s, x) \in Seq(S) /\ Len(Append(s, x)) = Len(s) + 1
      /\ \A i \in 1..Len(s) : Append(s, x)[i] = s[i]
      /\ Append(s, x)[Len(s) + 1] = x
      BY AppendProperties
<1>2. DOMAIN s = 1..Len(s) /\ DOMAIN Append(s, x) = 1..(Len(s) + 1)
      BY <1>1
<1> QED BY <1>1, <1>2 DEF ToSet, IsInjective

-----------------------------------------------------------------------------
(* Types, and how full a cache is at each step of a call.                    *)

Steps == {"idle", "refill", "count", "uncount", "flush"}

PoolTypeOK ==
    /\ alive \in BOOLEAN
    /\ slabs \in Nat
    /\ globalFree \in Seq(Blocks)
    /\ caches \in [Threads -> Seq(Blocks)]
    /\ held \in SUBSET Blocks
    /\ pc \in [Threads -> Steps]
    /\ block \in [Threads -> Nat]
    /\ \A t \in Threads : block[t] # NoBlock <=> pc[t] = "count"

\* A deallocate may fill the cache to its limit before it flushes it, and only
\* a thread with an empty cache refills it.
CacheSizes ==
    \A t \in Threads :
        /\ Len(caches[t]) <= LocalCacheLimit
        /\ pc[t] \in {"idle", "count"} => Len(caches[t]) < LocalCacheLimit
        /\ pc[t] = "refill" => caches[t] = << >>

SizeInv == PoolTypeOK /\ CacheSizes

\* allocate_slab's blocks are new: numbered after those of all earlier slabs.
LEMMA NewSlabFacts ==
    ASSUME slabs \in Nat
    PROVE  /\ slabs * BlocksPerSlab \in Nat
           /\ (slabs + 1) * BlocksPerSlab = slabs * BlocksPerSlab + BlocksPerSlab
           /\ NewSlab \in Seq(Blocks) /\ NewSlab # << >> /\ IsInjective(NewSlab)
           /\ ToSet(NewSlab) = (slabs * BlocksPerSlab + 1) .. (slabs * BlocksPerSlab + BlocksPerSlab)
<1>1. BlocksPerSlab \in Nat \ {0}
      BY SizesAssumption
<1>2. /\ slabs * BlocksPerSlab \in Nat
      /\ (slabs + 1) * BlocksPerSlab = slabs * BlocksPerSlab + BlocksPerSlab
      BY <1>1, SMT
<1>3. PICK base \in Nat : base = slabs * BlocksPerSlab
      BY <1>2
<1>4. NewSlab = [i \in 1..BlocksPerSlab |-> base + i]
      BY <1>3 DEF NewSlab
<1>5. NewSlab \in Seq(Blocks) /\ NewSlab # << >> /\ IsInjective(NewSlab)
      BY <1>1, <1>4 DEF Blocks, IsInjective
<1>6. ToSet(NewSlab) = (base + 1) .. (base + BlocksPerSlab)
  <2>1. ToSet(NewSlab) = {base + i : i \in 1..BlocksPerSlab}
        BY <1>1, <1>4 DEF ToSet
  <2>2. ASSUME NEW x \in (base + 1) .. (base + BlocksPerSlab)
        PROVE  x - base \in 1..BlocksPerSlab /\ x = base + (x - base)
        BY <1>1
  <2> QED BY <1>1, <2>1, <2>2
<1> QED BY <1>2, <1>3, <1>5, <1>6

\* A refill takes between one and RefillTarget blocks off the list.
LEMMA RefillFacts ==
    ASSUME PoolTypeOK, NEW t \in Threads, Refill(t)
    PROVE  /\ Replenished \in Seq(Blocks)
           /\ \E taken \in Seq(Blocks) :
                 /\ taken # << >> /\ Len(taken) <= RefillTarget
                 /\ AreParts(Blocks, Replenished, globalFree', taken)
                 /\ caches' = [caches EXCEPT ![t] = Front(taken)]
                 /\ Goto(t, "count", Last(taken))
<1>1. Replenished \in Seq(Blocks) /\ Replenished # << >>
      BY NewSlabFacts DEF PoolTypeOK, Replenished
<1>2. RefillTarget \in Nat \ {0}
      BY MaxMinPair, SizesAssumption DEF RefillTarget
<1> DEFINE n == Len(Replenished)
           count == Min({RefillTarget, n})
           kept == n - count
           left == SubSeq(Replenished, 1, kept)
           taken == Reverse(SubSeq(Replenished, kept + 1, n))
<1>3. n \in Nat \ {0}
      BY <1>1, EmptySeq
<1>4. count \in 1..n /\ count <= RefillTarget /\ kept \in 0..n /\ n - kept = count
  <2> HIDE DEF n
  <2>1. count = IF RefillTarget <= n THEN RefillTarget ELSE n
        BY <1>2, <1>3, MaxMinPair
  <2> QED BY <1>2, <1>3, <2>1
<1>5. /\ globalFree' = left
      /\ caches' = [caches EXCEPT ![t] = Front(taken)]
      /\ Goto(t, "count", Last(taken))
      BY DEF Refill
<1> HIDE DEF count, kept
<1>6. AreParts(Blocks, Replenished, left, taken) /\ Len(left) = kept
      BY <1>1, <1>4, Cut
<1> HIDE DEF n, left, taken
<1>7. taken \in Seq(Blocks) /\ taken # << >> /\ Len(taken) <= RefillTarget
      BY <1>3, <1>4, <1>6, EmptySeq DEF AreParts, n
<1> QED BY <1>1, <1>5, <1>6, <1>7

\* A flush leaves at most half a cache and gives the rest to the list.
LEMMA FlushFacts ==
    ASSUME PoolTypeOK, NEW t \in Threads, Flush(t)
    PROVE  \E left, given \in Seq(Blocks) :
              /\ AreParts(Blocks, caches[t], left, given)
              /\ Len(left) < LocalCacheLimit
              /\ globalFree' = globalFree \o given
              /\ caches' = [caches EXCEPT ![t] = left]
<1> DEFINE n == Len(caches[t])
           retained == Min({LocalCacheLimit \div 2, n})
           left == SubSeq(caches[t], 1, retained)
           given == Reverse(SubSeq(caches[t], retained + 1, n))
<1>1. caches[t] \in Seq(Blocks) /\ n \in Nat
      BY DEF PoolTypeOK
<1>2. retained \in 0..n /\ retained < LocalCacheLimit
  <2> HIDE DEF n
  <2>1. LocalCacheLimit \div 2 \in Nat /\ LocalCacheLimit \div 2 < LocalCacheLimit
        BY SizesAssumption
  <2>2. retained = IF LocalCacheLimit \div 2 <= n THEN LocalCacheLimit \div 2 ELSE n
        BY <1>1, <2>1, MaxMinPair
  <2> QED BY <1>1, <2>1, <2>2, SizesAssumption
<1>3. globalFree' = globalFree \o given /\ caches' = [caches EXCEPT ![t] = left]
      BY DEF Flush, PoolTypeOK
<1> HIDE DEF retained
<1>4. AreParts(Blocks, caches[t], left, given) /\ Len(left) = retained
      BY <1>1, <1>2, Cut
<1> HIDE DEF n, left, given
<1> QED BY <1>2, <1>3, <1>4 DEF AreParts

\* No thread starts with blocks.
LEMMA InitSize == PoolInit => SizeInv
  BY SizesAssumption, EmptySeq DEF PoolInit, SizeInv, PoolTypeOK, CacheSizes, Steps, NoBlock

\* Every step of allocate and deallocate keeps the types and the bound of the caches.
LEMMA NextSize == SizeInv /\ [PoolNext]_poolVars => SizeInv'
<1> SUFFICES ASSUME SizeInv, [PoolNext]_poolVars PROVE SizeInv'
    OBVIOUS
<1> USE SizesAssumption DEF SizeInv, Steps
<1>1. ASSUME NEW t \in Threads, AllocateCached(t) PROVE SizeInv'
  <2>1. caches[t] \in Seq(Blocks) /\ caches[t] # << >>
        BY <1>1 DEF PoolTypeOK, AllocateCached
  <2>2. /\ Front(caches[t]) \in Seq(Blocks) /\ Len(Front(caches[t])) = Len(caches[t]) - 1
        /\ Last(caches[t]) \in Blocks
        BY <2>1, CutLast
  <2>3. PoolTypeOK'
        BY <1>1, <2>2 DEF PoolTypeOK, AllocateCached, Goto, Blocks, NoBlock
  <2>4. CacheSizes'
        BY <1>1, <2>1, <2>2 DEF PoolTypeOK, CacheSizes, AllocateCached, Goto
  <2> QED BY <2>3, <2>4
<1>2. ASSUME NEW t \in Threads, AllocateMiss(t) PROVE SizeInv'
      BY <1>2, EmptySeq DEF PoolTypeOK, CacheSizes, AllocateMiss, Goto, NoBlock
<1>3. ASSUME NEW t \in Threads, Refill(t) PROVE SizeInv'
  <2>1. PICK taken \in Seq(Blocks) :
            /\ taken # << >> /\ Len(taken) <= RefillTarget
            /\ globalFree' \in Seq(Blocks)
            /\ caches' = [caches EXCEPT ![t] = Front(taken)]
            /\ Goto(t, "count", Last(taken))
        BY <1>3, RefillFacts DEF AreParts
  <2>2. /\ Front(taken) \in Seq(Blocks) /\ Len(Front(taken)) = Len(taken) - 1
        /\ Last(taken) \in Blocks
        BY <2>1, CutLast
  <2>3. RefillTarget \in Nat /\ RefillTarget <= LocalCacheLimit
        BY MaxMinPair DEF RefillTarget
  <2>6. alive' = alive /\ held' = held /\ slabs' \in Nat
        BY <1>3 DEF Refill, PoolTypeOK
  <2>4. PoolTypeOK'
        BY <2>1, <2>2, <2>6 DEF PoolTypeOK, Goto, Blocks, NoBlock
  <2>5. CacheSizes'
        BY <2>1, <2>2, <2>3 DEF PoolTypeOK, CacheSizes, Goto
  <2> QED BY <2>4, <2>5
<1>4. ASSUME NEW t \in Threads, RefillFails(t) PROVE SizeInv'
      BY <1>4, NewSlabFacts, EmptySeq DEF PoolTypeOK, CacheSizes, RefillFails, Goto, NoBlock
<1>5. ASSUME NEW t \in Threads, Count(t) PROVE SizeInv'
      BY <1>5 DEF PoolTypeOK, CacheSizes, Count, Goto, NoBlock, Blocks
<1>6. ASSUME NEW t \in Threads, NEW b \in held, Deallocate(t, b) PROVE SizeInv'
  <2>1. /\ Append(caches[t], b) \in Seq(Blocks)
        /\ Len(Append(caches[t], b)) = Len(caches[t]) + 1
        BY AppendOne DEF PoolTypeOK
  <2>2. PoolTypeOK'
        BY <1>6, <2>1 DEF PoolTypeOK, Deallocate, Goto, NoBlock
  <2>3. CacheSizes'
        BY <1>6, <2>1 DEF PoolTypeOK, CacheSizes, Deallocate, Goto
  <2> QED BY <2>2, <2>3
<1>7. ASSUME NEW t \in Threads, Uncount(t) PROVE SizeInv'
  <2>1. PoolTypeOK'
        BY <1>7 DEF PoolTypeOK, Uncount, Goto, NoBlock
  <2>2. CacheSizes'
        BY <1>7 DEF PoolTypeOK, CacheSizes, Uncount, Goto
  <2> QED BY <2>1, <2>2
<1>8. ASSUME NEW t \in Threads, Flush(t) PROVE SizeInv'
  <2>1. PICK left, given \in Seq(Blocks) :
            /\ Len(left) < LocalCacheLimit
            /\ globalFree' = globalFree \o given
            /\ caches' = [caches EXCEPT ![t] = left]
        BY <1>8, FlushFacts
  <2>2. globalFree' \in Seq(Blocks)
        BY <2>1, ConcatProperties DEF PoolTypeOK
  <2>3. PoolTypeOK'
        BY <1>8, <2>1, <2>2 DEF PoolTypeOK, Flush, Goto, NoBlock
  <2>4. Goto(t, "idle", NoBlock)
        BY <1>8 DEF Flush
  <2>5. CacheSizes'
        BY <2>1, <2>4 DEF PoolTypeOK, CacheSizes, Goto
  <2> QED BY <2>3, <2>5
<1>9. ASSUME NEW t \in Threads, EndThread(t) PROVE SizeInv'
      BY <1>9, EmptySeq DEF PoolTypeOK, CacheSizes, EndThread
<1>10. ASSUME NEW t \in Threads, Destroy(t) PROVE SizeInv'
  <2>1. /\ alive' \in BOOLEAN /\ globalFree' = << >> /\ caches' = [caches EXCEPT ![t] = << >>]
        /\ UNCHANGED <<slabs, held, pc, block>>
        BY <1>10 DEF Destroy
  <2>2. PoolTypeOK'
        BY <2>1, EmptySeq DEF PoolTypeOK
  <2>3. CacheSizes'
        BY <2>1, EmptySeq DEF PoolTypeOK, CacheSizes
  <2> QED BY <2>2, <2>3
<1>11. ASSUME Construct PROVE SizeInv'
      BY <1>11 DEF PoolTypeOK, CacheSizes, Construct
<1>12. ASSUME UNCHANGED poolVars PROVE SizeInv'
      BY <1>12 DEF PoolTypeOK, CacheSizes, poolVars
<1> QED BY <1>1, <1>2, <1>3, <1>4, <1>5, <1>6, <1>7, <1>8, <1>9, <1>10, <1>11, <1>12 DEF PoolNext

\* Whatever the threads do, the free blocks a thread keeps between two calls are
\* fewer than local_cache_limit_.
THEOREM CachesAreBounded == PoolSpec => []CachesBounded
<1>1. PoolSpec => []SizeInv
      BY InitSize, NextSize, PTL DEF PoolSpec
<1>2. SizeInv => CachesBounded
      BY DEF SizeInv, CacheSizes, CachesBounded
<1> QED BY <1>1, <1>2, PTL

-----------------------------------------------------------------------------
(* Where blocks come from.                                                   *)

\* The effect of Goto on the blocks in hand.
LEMMA HandFacts ==
    ASSUME PoolTypeOK, NEW t \in Threads, NEW there, NEW b, Goto(t, there, b)
    PROVE  /\ InHand' \subseteq InHand \cup {b}
           /\ \A u \in Threads : block'[u] = IF u = t THEN b ELSE block[u]
           /\ b = NoBlock => InHand' \subseteq InHand
<1>1. \A u \in Threads : block'[u] = IF u = t THEN b ELSE block[u]
      BY DEF Goto, PoolTypeOK
<1>2. InHand' = {block'[u] : u \in {v \in Threads : block'[v] # NoBlock}}
      BY DEF InHand
<1> QED BY <1>1, <1>2 DEF InHand

\* What a step leaves known was known before, but for the blocks of a new slab.
LEMMA KnownStep ==
    ASSUME ~Torn, SizeInv, [PoolNext]_poolVars
    PROVE  \/ slabs' = slabs /\ Known' \subseteq Known
           \/ /\ slabs' = slabs + 1 /\ owned' = owned \cup ToSet(NewSlab)
              /\ Known' \subseteq Known \cup ToSet(NewSlab)
<1> DEFINE Goal == \/ slabs' = slabs /\ Known' \subseteq Known
                   \/ /\ slabs' = slabs + 1 /\ owned' = owned \cup ToSet(NewSlab)
                      /\ Known' \subseteq Known \cup ToSet(NewSlab)
<1> USE DEF SizeInv
<1>1. ASSUME NEW t \in Threads, AllocateCached(t) PROVE Goal
  <2>1. ToSet(caches[t]) = ToSet(Front(caches[t])) \cup {Last(caches[t])}
        BY <1>1, CutLast DEF PoolTypeOK, AllocateCached
  <2>2. InHand' \subseteq InHand \cup {Last(caches[t])}
        BY <1>1, HandFacts DEF AllocateCached
  <2>3. \A u \in Threads : caches'[u] = IF u = t THEN Front(caches[t]) ELSE caches[u]
        BY <1>1 DEF AllocateCached, PoolTypeOK
  <2> QED BY <1>1, <2>1, <2>2, <2>3 DEF AllocateCached, Known, Cached
<1>2. ASSUME NEW t \in Threads, AllocateMiss(t) PROVE Goal
  <2>1. InHand' \subseteq InHand
        BY <1>2, HandFacts DEF AllocateMiss
  <2> QED BY <1>2, <2>1 DEF AllocateMiss, Known, Cached
<1>3. ASSUME NEW t \in Threads, Refill(t) PROVE Goal
  <2>1. PICK taken \in Seq(Blocks) :
            /\ taken # << >>
            /\ AreParts(Blocks, Replenished, globalFree', taken)
            /\ caches' = [caches EXCEPT ![t] = Front(taken)]
            /\ Goto(t, "count", Last(taken))
        BY <1>3, RefillFacts
  <2>2. ToSet(taken) = ToSet(Front(taken)) \cup {Last(taken)}
        BY <2>1, CutLast
  <2>3. InHand' \subseteq InHand \cup {Last(taken)}
        BY <2>1, HandFacts
  <2>4. \A u \in Threads : caches'[u] = IF u = t THEN Front(taken) ELSE caches[u]
        BY <2>1 DEF PoolTypeOK
  <2>5. ToSet(Replenished) = ToSet(globalFree') \cup ToSet(taken)
        BY <2>1 DEF AreParts
  <2>6. held' = held
        BY <1>3 DEF Refill
  <2>7. Known' \subseteq Known \cup ToSet(Replenished)
        BY <2>2, <2>3, <2>4, <2>5, <2>6 DEF Known, Cached
  <2>8. CASE globalFree = << >>
    <3>1. slabs' = slabs + 1 /\ owned' = owned \cup ToSet(NewSlab)
          BY <1>3, <2>8 DEF Refill
    <3> QED BY <2>7, <2>8, <3>1 DEF Replenished
  <2>9. CASE globalFree # << >>
    <3>1. slabs' = slabs
          BY <1>3, <2>9 DEF Refill
    <3>2. ToSet(Replenished) \subseteq Known
          BY <2>9 DEF Replenished, Known
    <3> QED BY <2>7, <3>1, <3>2
  <2> QED BY <2>8, <2>9
<1>4. ASSUME NEW t \in Threads, RefillFails(t) PROVE Goal
  <2>1. InHand' \subseteq InHand
        BY <1>4, HandFacts DEF RefillFails
  <2> QED BY <1>4, <2>1 DEF RefillFails, Known, Cached
<1>5. ASSUME NEW t \in Threads, Count(t) PROVE Goal
  <2>1. InHand' \subseteq InHand
        BY <1>5, HandFacts DEF Count
  <2>2. block[t] \in InHand
        BY <1>5 DEF Count, InHand, PoolTypeOK
  <2> QED BY <1>5, <2>1, <2>2 DEF Count, Known, Cached
<1>6. ASSUME NEW t \in Threads, NEW b \in held, Deallocate(t, b) PROVE Goal
  <2>1. InHand' \subseteq InHand
        BY <1>6, HandFacts DEF Deallocate
  <2>2. ToSet(Append(caches[t], b)) = ToSet(caches[t]) \cup {b}
        BY AppendOne DEF PoolTypeOK
  <2>3. \A u \in Threads : caches'[u] = IF u = t THEN Append(caches[t], b) ELSE caches[u]
        BY <1>6 DEF Deallocate, PoolTypeOK
  <2> QED BY <1>6, <2>1, <2>2, <2>3 DEF Deallocate, Known, Cached
<1>7. ASSUME NEW t \in Threads, Uncount(t) PROVE Goal
  <2>1. InHand' \subseteq InHand
        BY <1>7, HandFacts DEF Uncount
  <2> QED BY <1>7, <2>1 DEF Uncount, Known, Cached
<1>8. ASSUME NEW t \in Threads, Flush(t) PROVE Goal
  <2>1. PICK left, given \in Seq(Blocks) :
            /\ AreParts(Blocks, caches[t], left, given)
            /\ globalFree' = globalFree \o given
            /\ caches' = [caches EXCEPT ![t] = left]
        BY <1>8, FlushFacts
  <2>2. ToSet(globalFree') = ToSet(globalFree) \cup ToSet(given)
        BY <2>1, Join DEF PoolTypeOK
  <2>3. ToSet(caches[t]) = ToSet(left) \cup ToSet(given)
        BY <2>1 DEF AreParts
  <2>4. \A u \in Threads : caches'[u] = IF u = t THEN left ELSE caches[u]
        BY <2>1 DEF PoolTypeOK
  <2>5. InHand' \subseteq InHand /\ held' = held /\ slabs' = slabs
        BY <1>8, HandFacts DEF Flush
  <2> QED BY <2>2, <2>3, <2>4, <2>5 DEF Known, Cached
<1>9. ASSUME NEW t \in Threads, EndThread(t) PROVE Goal
  <2>1. ToSet(<< >>) = {}
        BY DEF ToSet
  <2>2. \A u \in Threads : caches'[u] = IF u = t THEN << >> ELSE caches[u]
        BY <1>9 DEF EndThread, PoolTypeOK
  <2> QED BY <1>9, <2>1, <2>2 DEF EndThread, Known, Cached, InHand
<1>10. ASSUME NEW t \in Threads, Destroy(t) PROVE Goal
  <2>1. ToSet(<< >>) = {}
        BY DEF ToSet
  <2>2. /\ \A u \in Threads : caches'[u] = IF u = t THEN << >> ELSE caches[u]
        /\ globalFree' = << >> /\ UNCHANGED <<slabs, held, block>>
        BY <1>10 DEF Destroy, PoolTypeOK
  <2> QED BY <2>1, <2>2 DEF Known, Cached, InHand
<1>11. ASSUME Construct \/ UNCHANGED poolVars PROVE Goal
      BY <1>11 DEF Construct, poolVars, Known, Cached, InHand
<1> QED BY <1>1, <1>2, <1>3, <1>4, <1>5, <1>6, <1>7, <1>8, <1>9, <1>10, <1>11 DEF PoolNext

\* The blocks in use, free or cached are blocks of the slabs in slabs_.
LEMMA NextOwned ==
    ASSUME Joined, ~Torn, SizeInv, Known \subseteq owned, [PoolNext]_poolVars
    PROVE  Known' \subseteq owned'
<1>1. CASE owned' = owned \/ owned' = owned \cup ToSet(NewSlab)
      BY <1>1, KnownStep
<1>2. ASSUME NEW t \in Threads, Destroy(t) PROVE Known' = {}
  <2>1. ToSet(<< >>) = {}
        BY DEF ToSet
  <2>2. /\ \A u \in Threads : caches'[u] = << >>
        /\ globalFree' = << >> /\ held' = {}
        BY <1>2 DEF Destroy, SizeInv, PoolTypeOK
  <2>3. \A u \in Threads : block'[u] = NoBlock
        BY <1>2 DEF Destroy, SizeInv, PoolTypeOK
  <2> QED BY <2>1, <2>2, <2>3 DEF Known, Cached, InHand
<1>3. \/ \E t \in Threads : Destroy(t)
      \/ owned' = owned \/ owned' = owned \cup ToSet(NewSlab)
      BY DEF PoolNext, poolVars, AllocateCached, AllocateMiss, Refill, RefillFails, Count, Deallocate,
             Uncount, Flush, EndThread, Construct
<1> QED BY <1>1, <1>2, <1>3

\* With threads that end before the pool does, and memory that does not run out
\* between a slab's blocks and its entry, what allocate hands out, and what the
\* caches and the list keep, is memory of the pool that is alive.
THEOREM NoBlockIsStale ==
    ASSUME Joined, ~Torn
    PROVE  PoolSpec => []NoStaleBlock
<1> DEFINE StaleInv == SizeInv /\ Known \subseteq owned
<1>1. PoolInit => StaleInv
  <2>1. ToSet(<< >>) = {}
        BY DEF ToSet
  <2>2. PoolInit => Known = {}
        BY <2>1 DEF PoolInit, Known, Cached, InHand
  <2> QED BY <2>2, InitSize
<1>2. StaleInv /\ [PoolNext]_poolVars => StaleInv'
      BY NextSize, NextOwned
<1>3. StaleInv => NoStaleBlock
      BY DEF NoStaleBlock
<1> QED BY <1>1, <1>2, <1>3, PTL DEF PoolSpec

-----------------------------------------------------------------------------
(* One owner per block.                                                      *)

\* Blocks are numbered in the order they are cut, so a new slab's are new.
Fresh == Known \subseteq 1..slabs * BlocksPerSlab

OwnerInv == SizeInv /\ Fresh /\ Apart /\ IsFiniteSet(held) /\ Counted

\* No step knows of a block before its slab is cut.
LEMMA NextFresh ==
    ASSUME ~Torn, SizeInv, Fresh, [PoolNext]_poolVars
    PROVE  Fresh'
<1>1. slabs \in Nat /\ BlocksPerSlab \in Nat
      BY SizesAssumption DEF SizeInv, PoolTypeOK
<1>2. PICK base \in Nat :
          /\ base = slabs * BlocksPerSlab
          /\ (slabs + 1) * BlocksPerSlab = base + BlocksPerSlab
          /\ ToSet(NewSlab) = (base + 1) .. (base + BlocksPerSlab)
      BY <1>1, NewSlabFacts
<1>3. CASE slabs' = slabs /\ Known' \subseteq Known
      BY <1>3 DEF Fresh
<1>4. CASE slabs' = slabs + 1 /\ Known' \subseteq Known \cup ToSet(NewSlab)
  <2>1. Known' \subseteq 1 .. (base + BlocksPerSlab)
        BY <1>1, <1>2, <1>4 DEF Fresh
  <2> QED BY <1>2, <1>4, <2>1 DEF Fresh
<1> QED BY <1>3, <1>4, KnownStep

\* No step gives a block a second place.
LEMMA NextApart ==
    ASSUME ~Torn, SizeInv, Fresh, Apart, [PoolNext]_poolVars
    PROVE  Apart'
<1> USE DEF SizeInv
<1>0. ToSet(<< >>) = {} /\ IsInjective(<< >>)
      BY DEF ToSet, IsInjective
<1>1. ASSUME NEW t \in Threads, AllocateCached(t) PROVE Apart'
  <2> DEFINE b == Last(caches[t])
  <2>1. /\ ToSet(caches[t]) = ToSet(Front(caches[t])) \cup {b}
        /\ IsInjective(Front(caches[t])) /\ b \notin ToSet(Front(caches[t]))
        BY <1>1, CutLast DEF PoolTypeOK, AllocateCached, Apart
  <2>2. InHand' \subseteq InHand \cup {b} /\ \A u \in Threads : block'[u] = IF u = t THEN b ELSE block[u]
        BY <1>1, HandFacts DEF AllocateCached
  <2>3. \A u \in Threads : caches'[u] = IF u = t THEN Front(caches[t]) ELSE caches[u]
        BY <1>1 DEF AllocateCached, PoolTypeOK
  <2>4. globalFree' = globalFree /\ held' = held
        BY <1>1 DEF AllocateCached
  <2>5. \A u \in Threads : block[u] # NoBlock => block[u] \in InHand
        BY DEF InHand
  <2> HIDE DEF b
  <2> QED BY <2>1, <2>2, <2>3, <2>4, <2>5 DEF Apart, Cached
<1>2. ASSUME NEW t \in Threads, AllocateMiss(t) PROVE Apart'
  <2>1. InHand' \subseteq InHand /\ \A u \in Threads : block'[u] = IF u = t THEN NoBlock ELSE block[u]
        BY <1>2, HandFacts DEF AllocateMiss
  <2> QED BY <1>2, <2>1 DEF AllocateMiss, Apart, Cached
<1>3. ASSUME NEW t \in Threads, Refill(t) PROVE Apart'
  <2>1. PICK taken \in Seq(Blocks) :
            /\ taken # << >>
            /\ AreParts(Blocks, Replenished, globalFree', taken)
            /\ caches' = [caches EXCEPT ![t] = Front(taken)]
            /\ Goto(t, "count", Last(taken))
        BY <1>3, RefillFacts
  <2> DEFINE b == Last(taken)
  <2>2. /\ IsInjective(Replenished)
        /\ ToSet(Replenished) \cap (held \cup InHand \cup UNION {Cached(u) : u \in Threads}) = {}
    <3>1. CASE globalFree = << >>
      <4>1. PICK base \in Nat :
                /\ base = slabs * BlocksPerSlab
                /\ IsInjective(NewSlab)
                /\ ToSet(NewSlab) = (base + 1) .. (base + BlocksPerSlab)
            BY NewSlabFacts DEF PoolTypeOK
      <4>2. ToSet(NewSlab) \cap Known = {}
            BY <4>1, SizesAssumption DEF Fresh
      <4> QED BY <3>1, <4>1, <4>2 DEF Replenished, Known
    <3>2. CASE globalFree # << >>
          BY <3>2 DEF Replenished, Apart
    <3> QED BY <3>1, <3>2
  <2>3. /\ ToSet(Replenished) = ToSet(globalFree') \cup ToSet(taken)
        /\ IsInjective(globalFree') /\ IsInjective(taken)
        /\ ToSet(globalFree') \cap ToSet(taken) = {}
        BY <2>1, <2>2 DEF AreParts
  <2>4. /\ ToSet(taken) = ToSet(Front(taken)) \cup {b}
        /\ IsInjective(Front(taken)) /\ b \notin ToSet(Front(taken))
        BY <2>1, <2>3, CutLast
  <2>5. InHand' \subseteq InHand \cup {b} /\ \A u \in Threads : block'[u] = IF u = t THEN b ELSE block[u]
        BY <2>1, HandFacts
  <2>6. \A u \in Threads : caches'[u] = IF u = t THEN Front(taken) ELSE caches[u]
        BY <2>1 DEF PoolTypeOK
  <2>7. held' = held
        BY <1>3 DEF Refill
  <2>8. \A u \in Threads : block[u] # NoBlock => block[u] \in InHand
        BY DEF InHand
  <2> HIDE DEF b
  <2> QED BY <2>2, <2>3, <2>4, <2>5, <2>6, <2>7, <2>8 DEF Apart, Cached
<1>4. ASSUME NEW t \in Threads, RefillFails(t) PROVE Apart'
  <2>1. InHand' \subseteq InHand /\ \A u \in Threads : block'[u] = IF u = t THEN NoBlock ELSE block[u]
        BY <1>4, HandFacts DEF RefillFails
  <2> QED BY <1>4, <2>1 DEF RefillFails, Apart, Cached
<1>5. ASSUME NEW t \in Threads, Count(t) PROVE Apart'
  <2>1. \A u \in Threads : block'[u] = IF u = t THEN NoBlock ELSE block[u]
        BY <1>5, HandFacts DEF Count
  <2>2. block[t] # NoBlock /\ block[t] \in InHand
        BY <1>5 DEF Count, InHand, PoolTypeOK
  <2>3. InHand' \subseteq InHand /\ block[t] \notin InHand'
        BY <2>1, <2>2 DEF InHand, Apart
  <2> QED BY <1>5, <2>1, <2>2, <2>3 DEF Count, Apart, Cached
<1>6. ASSUME NEW t \in Threads, NEW b \in held, Deallocate(t, b) PROVE Apart'
  <2>1. InHand' \subseteq InHand /\ \A u \in Threads : block'[u] = IF u = t THEN NoBlock ELSE block[u]
        BY <1>6, HandFacts DEF Deallocate
  <2>2. b \notin ToSet(caches[t])
        BY DEF Apart, Cached
  <2>3. /\ ToSet(Append(caches[t], b)) = ToSet(caches[t]) \cup {b}
        /\ IsInjective(Append(caches[t], b))
        BY <2>2, AppendOne DEF PoolTypeOK, Apart
  <2>4. \A u \in Threads : caches'[u] = IF u = t THEN Append(caches[t], b) ELSE caches[u]
        BY <1>6 DEF Deallocate, PoolTypeOK
  <2>5. globalFree' = globalFree /\ held' = held \ {b}
        BY <1>6 DEF Deallocate
  <2> QED BY <2>1, <2>3, <2>4, <2>5 DEF Apart, Cached
<1>7. ASSUME NEW t \in Threads, Uncount(t) PROVE Apart'
  <2>1. InHand' \subseteq InHand /\ \A u \in Threads : block'[u] = IF u = t THEN NoBlock ELSE block[u]
        BY <1>7, HandFacts DEF Uncount
  <2> QED BY <1>7, <2>1 DEF Uncount, Apart, Cached
<1>8. ASSUME NEW t \in Threads, Flush(t) PROVE Apart'
  <2>1. PICK left, given \in Seq(Blocks) :
            /\ AreParts(Blocks, caches[t], left, given)
            /\ globalFree' = globalFree \o given
            /\ caches' = [caches EXCEPT ![t] = left]
        BY <1>8, FlushFacts
  <2>2. /\ ToSet(caches[t]) = ToSet(left) \cup ToSet(given)
        /\ IsInjective(left) /\ IsInjective(given) /\ ToSet(left) \cap ToSet(given) = {}
        BY <2>1 DEF AreParts, Apart
  <2>3. ToSet(globalFree) \cap ToSet(given) = {}
        BY <2>2 DEF Apart, Cached
  <2>4. ToSet(globalFree') = ToSet(globalFree) \cup ToSet(given) /\ IsInjective(globalFree')
        BY <2>1, <2>2, <2>3, Join DEF PoolTypeOK, Apart
  <2>5. \A u \in Threads : caches'[u] = IF u = t THEN left ELSE caches[u]
        BY <2>1 DEF PoolTypeOK
  <2>6. InHand' \subseteq InHand /\ \A u \in Threads : block'[u] = IF u = t THEN NoBlock ELSE block[u]
        BY <1>8, HandFacts DEF Flush
  <2>7. held' = held
        BY <1>8 DEF Flush
  <2> QED BY <2>2, <2>4, <2>5, <2>6, <2>7 DEF Apart, Cached
<1>9. ASSUME NEW t \in Threads, EndThread(t) PROVE Apart'
  <2>1. \A u \in Threads : caches'[u] = IF u = t THEN << >> ELSE caches[u]
        BY <1>9 DEF EndThread, PoolTypeOK
  <2>2. InHand' = InHand /\ block' = block /\ globalFree' = globalFree /\ held' = held
        BY <1>9 DEF EndThread, InHand
  <2> QED BY <1>0, <2>1, <2>2 DEF Apart, Cached
<1>10. ASSUME NEW t \in Threads, Destroy(t) PROVE Apart'
  <2>1. /\ \A u \in Threads : caches'[u] = IF u = t THEN << >> ELSE caches[u]
        /\ globalFree' = << >> /\ held' = held /\ block' = block
        BY <1>10 DEF Destroy, PoolTypeOK
  <2>2. InHand' = InHand
        BY <2>1 DEF InHand
  <2> QED BY <1>0, <2>1, <2>2 DEF Apart, Cached
<1>11. ASSUME Construct \/ UNCHANGED poolVars PROVE Apart'
      BY <1>11 DEF Construct, poolVars, Apart, Cached, InHand
<1> QED BY <1>1, <1>2, <1>3, <1>4, <1>5, <1>6, <1>7, <1>8, <1>9, <1>10, <1>11 DEF PoolNext

Uncounting == {t \in Threads : pc[t] = "uncount"}

\* The counter follows the blocks the callers have.
LEMMA NextCounted ==
    ASSUME SizeInv, Apart, IsFiniteSet(held), Counted, [PoolNext]_poolVars
    PROVE  IsFiniteSet(held') /\ Counted'
<1> USE DEF SizeInv
<1>1. IsFiniteSet(Uncounting) /\ Cardinality(Uncounting) \in Nat /\ Cardinality(held) \in Nat
      BY ThreadsAssumption, FS_Subset, FS_CardinalityType DEF Uncounting
<1>2. outstanding = Cardinality(held) + Cardinality(Uncounting)
      BY DEF Counted, Uncounting
<1>3. /\ Counted' <=> outstanding' = Cardinality(held') + Cardinality(Uncounting')
      /\ Uncounting' = {t \in Threads : pc'[t] = "uncount"}
      BY DEF Counted, Uncounting
<1>4. ASSUME NEW t \in Threads, NEW there, NEW b, Goto(t, there, b)
      PROVE  Uncounting' = IF there = "uncount" THEN Uncounting \cup {t} ELSE Uncounting \ {t}
      BY <1>3, <1>4 DEF Goto, Uncounting, PoolTypeOK
<1>5. ASSUME NEW t \in Threads, NEW there, NEW b, Goto(t, there, b), pc[t] # "uncount", there # "uncount"
      PROVE  Uncounting' = Uncounting
      BY <1>3, <1>5 DEF Goto, Uncounting, PoolTypeOK
<1>6. ASSUME held' = held, outstanding' = outstanding, Uncounting' = Uncounting
      PROVE  IsFiniteSet(held') /\ Counted'
      BY <1>2, <1>3, <1>6
<1>7. ASSUME NEW t \in Threads, Count(t) PROVE IsFiniteSet(held') /\ Counted'
  <2>1. Uncounting' = Uncounting
        BY <1>5, <1>7 DEF Count
  <2>2. block[t] \notin held
    <3>1. block[t] \in InHand
          BY <1>7 DEF Count, InHand, PoolTypeOK
    <3> QED BY <3>1 DEF Apart
  <2>3. IsFiniteSet(held') /\ Cardinality(held') = Cardinality(held) + 1
        BY <1>7, <2>2, FS_AddElement DEF Count
  <2>4. outstanding' = outstanding + 1
        BY <1>7 DEF Count
  <2>5. outstanding' = Cardinality(held') + Cardinality(Uncounting')
        BY <1>1, <1>2, <2>1, <2>3, <2>4
  <2> QED BY <1>3, <2>3, <2>5
<1>8. ASSUME NEW t \in Threads, NEW b \in held, Deallocate(t, b)
      PROVE  IsFiniteSet(held') /\ Counted'
  <2>1. Uncounting' = Uncounting \cup {t} /\ t \notin Uncounting
        BY <1>4, <1>8 DEF Deallocate, Uncounting
  <2>2. Cardinality(Uncounting') = Cardinality(Uncounting) + 1
        BY <1>1, <2>1, FS_AddElement
  <2>3. IsFiniteSet(held') /\ Cardinality(held') = Cardinality(held) - 1
        BY <1>8, FS_RemoveElement DEF Deallocate
  <2>4. outstanding' = outstanding
        BY <1>8 DEF Deallocate
  <2> QED BY <1>1, <1>2, <1>3, <2>2, <2>3, <2>4
<1>9. ASSUME NEW t \in Threads, Uncount(t) PROVE IsFiniteSet(held') /\ Counted'
  <2>1. t \in Uncounting /\ held' = held /\ outstanding' = outstanding - 1
        BY <1>9 DEF Uncount, Uncounting
  <2>2. Uncounting' = Uncounting \ {t}
        BY <1>4, <1>9 DEF Uncount
  <2>3. Cardinality(Uncounting') = Cardinality(Uncounting) - 1
        BY <1>1, <2>1, <2>2, FS_RemoveElement
  <2> QED BY <1>1, <1>2, <1>3, <2>1, <2>3
<1>10. ASSUME NEW t \in Threads, Destroy(t) PROVE IsFiniteSet(held') /\ Counted'
  <2>1. held' = {} /\ outstanding' = 0 /\ pc' = pc /\ \A u \in Threads : pc[u] = "idle"
        BY <1>10 DEF Destroy
  <2>2. Uncounting' = {}
        BY <1>3, <2>1
  <2> QED BY <1>3, <2>1, <2>2, FS_EmptySet
<1>11. ASSUME NEW t \in Threads,
              AllocateCached(t) \/ AllocateMiss(t) \/ Refill(t) \/ RefillFails(t) \/ Flush(t)
       PROVE  IsFiniteSet(held') /\ Counted'
  <2>1. held' = held /\ outstanding' = outstanding /\ pc[t] # "uncount"
        BY <1>11 DEF AllocateCached, AllocateMiss, Refill, RefillFails, Flush
  <2>2. \E there \in {"count", "refill", "idle"} : \E b : Goto(t, there, b)
        BY <1>11 DEF AllocateCached, AllocateMiss, Refill, RefillFails, Flush
  <2>3. Uncounting' = Uncounting
        BY <1>5, <2>1, <2>2
  <2> QED BY <1>6, <2>1, <2>3
<1>12. ASSUME Construct \/ (\E t \in Threads : EndThread(t)) \/ UNCHANGED poolVars
       PROVE  IsFiniteSet(held') /\ Counted'
  <2>1. held' = held /\ outstanding' = outstanding /\ pc' = pc
        BY <1>12 DEF Construct, EndThread, poolVars
  <2>2. Uncounting' = Uncounting
        BY <1>3, <2>1 DEF Uncounting
  <2> QED BY <1>6, <2>1, <2>2
<1> QED BY <1>7, <1>8, <1>9, <1>10, <1>11, <1>12 DEF PoolNext

\* No two callers are ever given the same block, and the outstanding counter is
\* right, for any number of threads and slabs, however long the threads trade
\* blocks through the caches and the list.
THEOREM BlocksHaveOneOwner ==
    ASSUME ~Torn
    PROVE  PoolSpec => []OneOwner
<1>1. PoolInit => OwnerInv
  <2>1. ToSet(<< >>) = {} /\ IsInjective(<< >>)
        BY DEF ToSet, IsInjective
  <2>2. ASSUME PoolInit PROVE Known = {} /\ Apart
        BY <2>1, <2>2 DEF PoolInit, Known, Cached, InHand, Apart, NoBlock
  <2>3. ASSUME PoolInit PROVE IsFiniteSet(held) /\ Counted
    <3>1. {t \in Threads : pc[t] = "uncount"} = {}
          BY <2>3 DEF PoolInit
    <3> QED BY <2>3, <3>1, FS_EmptySet DEF PoolInit, Counted
  <2> QED BY <2>2, <2>3, InitSize DEF OwnerInv, Fresh
<1>2. OwnerInv /\ [PoolNext]_poolVars => OwnerInv'
      BY NextSize, NextFresh, NextApart, NextCounted DEF OwnerInv
<1>3. OwnerInv => OneOwner
      BY DEF OwnerInv, OneOwner
<1> QED BY <1>1, <1>2, <1>3, PTL DEF PoolSpec

-----------------------------------------------------------------------------
(* The envelopes.                                                            *)

\* The flusher's envelope before the queue.
Ahead(f, q) == Held(f) \o q

\* All places an envelope can be in, and those of the envelopes under way.
PlacesOf(f, q, p) == Ahead(f, q) \o Held(p)
UnderOf(d, f, q) == IF d THEN q ELSE Ahead(f, q)

\* One place for each of the envelopes in D.
OwnedOK(places, D) ==
    /\ IsSequence(places)
    /\ \A a, b \in 1 .. Len(places) : places[a] = places[b] => a = b
    /\ D = {places[k] : k \in 1 .. Len(places)}

\* What was sent is what was processed, and the content of what is under way.
SentOK(s, processed, under, content) ==
    /\ IsSequence(s) /\ IsSequence(processed) /\ IsSequence(under)
    /\ Len(s) = Len(processed) + Len(under)
    /\ \A k \in 1 .. Len(processed) : s[k] = processed[k]
    /\ \A k \in 1 .. Len(under) : s[Len(processed) + k] = content[under[k]]

ProcessedPlaces(entries) == {k \in DOMAIN entries : entries[k].kind # "rule"}
ProcessedIn(entries) == Picked(entries, ProcessedPlaces(entries))

EnvelopesInv ==
    /\ IsSequence(queue) /\ IsSequence(log)
    /\ OwnedOK(PlacesOf(flushed, queue, publishing), DOMAIN pool)
    /\ DOMAIN pool \subseteq Envelopes
    /\ \A e \in DOMAIN pool : pool[e] \in Telemetry
    /\ done \in BOOLEAN /\ (done => flushed # NoEnvelope)
    /\ stage \in {"idle", "flush", "draining", "gone"}
    /\ flushed # NoEnvelope => stage = "flush"
    /\ publishing # NoEnvelope => stage \in {"idle", "flush"}
    /\ stage = "gone" => queue = << >>
    /\ IsSequence(sent)
    /\ stage \in {"idle", "flush"} =>
          SentOK(sent, ProcessedIn(log), UnderOf(done, flushed, queue), pool)
    /\ dropped \in Nat
    /\ calls = Len(sent) + dropped + (IF publishing = NoEnvelope THEN 0 ELSE 1)

\* The flusher's envelope and the queue, by the cases of it.
LEMMA AheadFacts ==
    ASSUME NEW q, IsSequence(q)
    PROVE  /\ \A f : IsSequence(Held(f)) /\ IsSequence(Ahead(f, q))
           /\ Ahead(NoEnvelope, q) = q
           /\ \A f, e : Ahead(f, Append(q, e)) = Append(Ahead(f, q), e)
           /\ \A f : f # NoEnvelope => Ahead(f, q) # << >> /\ Head(Ahead(f, q)) = f
                                       /\ Tail(Ahead(f, q)) = q
           /\ q # << >> /\ Head(q) # NoEnvelope => Ahead(Head(q), Tail(q)) = q
<1>1. ASSUME NEW f PROVE IsSequence(Held(f)) /\ IsSequence(Ahead(f, q))
  <2>1. IsSequence(Held(f))
        BY EmptySequence, OneSequence DEF Held
  <2>2. PICK h : h = Held(f)
        OBVIOUS
  <2>3. IsSequence(h \o q)
        BY <2>1, <2>2, ConcatFacts
  <2> QED BY <2>1, <2>2, <2>3 DEF Ahead
<1>2. Ahead(NoEnvelope, q) = q
      BY ConcatEmpty DEF Ahead, Held
<1>3. ASSUME NEW f, NEW e PROVE Ahead(f, Append(q, e)) = Append(Ahead(f, q), e)
  <2>1. PICK h : h = Held(f)
        OBVIOUS
  <2>2. IsSequence(h)
        BY <1>1, <2>1
  <2>3. h \o Append(q, e) = Append(h \o q, e)
        BY <2>2, ConcatAppend
  <2> QED BY <2>1, <2>3 DEF Ahead
<1>4. ASSUME NEW f, f # NoEnvelope
      PROVE  Ahead(f, q) # << >> /\ Head(Ahead(f, q)) = f /\ Tail(Ahead(f, q)) = q
  <2>1. Ahead(f, q) = <<f>> \o q
        BY <1>4 DEF Ahead, Held
  <2> QED BY <2>1, OneConcat
<1>5. ASSUME q # << >>, Head(q) # NoEnvelope PROVE Ahead(Head(q), Tail(q)) = q
  <2>1. Ahead(Head(q), Tail(q)) = <<Head(q)>> \o Tail(q)
        BY <1>5 DEF Ahead, Held
  <2> QED BY <1>5, <2>1, HeadAndTail
<1> QED BY <1>1, <1>2, <1>3, <1>4, <1>5

\* The publisher's envelope, the same way.
LEMMA PlacesFacts ==
    ASSUME NEW f, NEW q, IsSequence(q)
    PROVE  /\ PlacesOf(f, q, NoEnvelope) = Ahead(f, q)
           /\ \A p : p # NoEnvelope => PlacesOf(f, q, p) = Append(Ahead(f, q), p)
<1>1. PICK a : a = Ahead(f, q)
      OBVIOUS
<1>2. IsSequence(a)
      BY <1>1, AheadFacts
<1>3. PlacesOf(f, q, NoEnvelope) = Ahead(f, q)
  <2>1. a \o << >> = a
        BY <1>2, ConcatEmpty
  <2> QED BY <1>1, <2>1 DEF PlacesOf, Held
<1>4. ASSUME NEW p, p # NoEnvelope PROVE PlacesOf(f, q, p) = Append(a, p)
  <2>1. a \o <<p>> = Append(a, p)
        BY <1>2, ConcatOne
  <2> QED BY <1>1, <1>4, <2>1 DEF PlacesOf, Held
<1> QED BY <1>1, <1>3, <1>4

\* One more envelope, in a place of its own.
LEMMA OwnMore ==
    ASSUME NEW p, NEW D, OwnedOK(p, D), NEW e, e \notin D
    PROVE  OwnedOK(Append(p, e), D \cup {e})
<1>1. PICK n \in Nat : n = Len(p) /\ IsSequence(p)
      BY SequenceFacts DEF OwnedOK
<1>2. PICK q : q = Append(p, e)
      OBVIOUS
<1>3. /\ IsSequence(q) /\ Len(q) = n + 1 /\ q[n + 1] = e
      /\ \A k \in 1 .. n : q[k] = p[k]
      BY <1>1, <1>2, AppendFacts
<1>4. /\ \A a, b \in 1 .. n : p[a] = p[b] => a = b
      /\ D = {p[k] : k \in 1 .. n}
      BY <1>1 DEF OwnedOK
<1>5. \A k \in 1 .. n + 1 : k \in 1 .. n \/ k = n + 1
      OBVIOUS
<1>6. \A k \in 1 .. n : p[k] # e
      BY <1>4
<1>7. ASSUME NEW a \in 1 .. n + 1, NEW b \in 1 .. n + 1, q[a] = q[b] PROVE a = b
      BY <1>3, <1>4, <1>5, <1>6, <1>7
<1>8. D \cup {e} = {q[k] : k \in 1 .. n + 1}
  <2>1. \A k \in 1 .. n : k \in 1 .. n + 1
        OBVIOUS
  <2>2. n + 1 \in 1 .. n + 1
        OBVIOUS
  <2> QED BY <1>3, <1>4, <1>5, <2>1, <2>2
<1> QED BY <1>2, <1>3, <1>7, <1>8 DEF OwnedOK

\* The last one is given up.
LEMMA OwnButLast ==
    ASSUME NEW p, IsSequence(p), NEW D, NEW e, OwnedOK(Append(p, e), D)
    PROVE  OwnedOK(p, D \ {e}) /\ e \in D
<1>1. PICK n \in Nat : n = Len(p)
      BY SequenceFacts
<1>2. PICK q : q = Append(p, e)
      OBVIOUS
<1>3. /\ IsSequence(q) /\ Len(q) = n + 1 /\ q[n + 1] = e
      /\ \A k \in 1 .. n : q[k] = p[k]
      BY <1>1, <1>2, AppendFacts
<1>4. /\ \A a, b \in 1 .. n + 1 : q[a] = q[b] => a = b
      /\ D = {q[k] : k \in 1 .. n + 1}
      BY <1>2, <1>3 DEF OwnedOK
<1>5. \A k \in 1 .. n + 1 : k \in 1 .. n \/ k = n + 1
      OBVIOUS
<1>6. n + 1 \in 1 .. n + 1 /\ \A k \in 1 .. n : k \in 1 .. n + 1 /\ k # n + 1
      OBVIOUS
<1>7. \A a, b \in 1 .. n : p[a] = p[b] => a = b
      BY <1>3, <1>4, <1>6
<1>8. \A k \in 1 .. n : p[k] # e
      BY <1>3, <1>4, <1>6
<1>9. D \ {e} = {p[k] : k \in 1 .. n}
      BY <1>3, <1>4, <1>5, <1>6, <1>8
<1>10. e \in D
      BY <1>3, <1>4, <1>6
<1> QED BY <1>1, <1>7, <1>9, <1>10 DEF OwnedOK

\* The first one is given up.
LEMMA OwnButFirst ==
    ASSUME NEW p, p # << >>, NEW D, OwnedOK(p, D)
    PROVE  OwnedOK(Tail(p), D \ {Head(p)}) /\ Head(p) \in D
<1>1. PICK n \in Nat : n = Len(p) /\ IsSequence(p)
      BY SequenceFacts DEF OwnedOK
<1>2. PICK q : q = Tail(p)
      OBVIOUS
<1>3. /\ IsSequence(q) /\ n >= 1 /\ Len(q) = n - 1 /\ Head(p) = p[1]
      /\ \A k \in 1 .. n - 1 : q[k] = p[k + 1]
      BY <1>1, <1>2, TailFacts
<1>4. /\ \A a, b \in 1 .. n : p[a] = p[b] => a = b
      /\ D = {p[k] : k \in 1 .. n}
      BY <1>1 DEF OwnedOK
<1>5. \A k \in 1 .. n - 1 : k + 1 \in 1 .. n /\ k + 1 # 1
      OBVIOUS
<1>6. 1 \in 1 .. n
      BY <1>3
<1>7. ASSUME NEW a \in 1 .. n - 1, NEW b \in 1 .. n - 1, q[a] = q[b] PROVE a = b
  <2>1. a + 1 = b + 1
        BY <1>3, <1>4, <1>5, <1>7
  <2> QED BY <2>1
<1>8. D \ {p[1]} = {q[k] : k \in 1 .. n - 1}
  <2>1. ASSUME NEW x \in D \ {p[1]} PROVE x \in {q[k] : k \in 1 .. n - 1}
    <3>1. PICK k \in 1 .. n : x = p[k]
          BY <1>4
    <3>2. k # 1
          BY <3>1
    <3>3. k - 1 \in 1 .. n - 1 /\ (k - 1) + 1 = k
          BY <3>2
    <3>4. q[k - 1] = x
          BY <1>3, <3>1, <3>3
    <3> QED BY <3>3, <3>4
  <2>2. ASSUME NEW k \in 1 .. n - 1 PROVE q[k] \in D \ {p[1]}
        BY <1>3, <1>4, <1>5, <1>6
  <2> QED BY <2>1, <2>2
<1>9. p[1] \in D
      BY <1>4, <1>6
<1>10. OwnedOK(q, D \ {p[1]})
      BY <1>3, <1>7, <1>8 DEF OwnedOK
<1> QED BY <1>2, <1>3, <1>9, <1>10

\* A push is sent after all others.
LEMMA SendMore ==
    ASSUME NEW s, NEW pr, NEW u, NEW c, SentOK(s, pr, u, c), NEW e
    PROVE  SentOK(Append(s, c[e]), pr, Append(u, e), c)
<1>1. PICK m \in Nat : m = Len(pr)
      BY SequenceFacts DEF SentOK
<1>2. PICK n \in Nat : n = Len(u)
      BY SequenceFacts DEF SentOK
<1>3. /\ IsSequence(s) /\ IsSequence(pr) /\ IsSequence(u) /\ Len(s) = m + n
      /\ \A k \in 1 .. m : s[k] = pr[k]
      /\ \A k \in 1 .. n : s[m + k] = c[u[k]]
      BY <1>1, <1>2 DEF SentOK
<1>4. PICK s2 : s2 = Append(s, c[e])
      OBVIOUS
<1>5. PICK u2 : u2 = Append(u, e)
      OBVIOUS
<1>6. /\ IsSequence(s2) /\ Len(s2) = (m + n) + 1 /\ s2[(m + n) + 1] = c[e]
      /\ \A k \in 1 .. m + n : s2[k] = s[k]
      BY <1>3, <1>4, AppendFacts
<1>7. /\ IsSequence(u2) /\ Len(u2) = n + 1 /\ u2[n + 1] = e
      /\ \A k \in 1 .. n : u2[k] = u[k]
      BY <1>2, <1>3, <1>5, AppendFacts
<1>8. \A k \in 1 .. m : k \in 1 .. m + n
      OBVIOUS
<1>9. \A k \in 1 .. n : m + k \in 1 .. m + n
      OBVIOUS
<1>10. ASSUME NEW k \in 1 .. n + 1 PROVE s2[m + k] = c[u2[k]]
  <2>1. CASE k = n + 1
    <3>1. m + k = (m + n) + 1
          BY <2>1
    <3> QED BY <1>6, <1>7, <2>1, <3>1
  <2>2. CASE k # n + 1
    <3>1. k \in 1 .. n
          BY <2>2
    <3> QED BY <1>3, <1>6, <1>7, <1>9, <3>1
  <2> QED BY <2>1, <2>2
<1>11. Len(s2) = Len(pr) + Len(u2)
      BY <1>1, <1>6, <1>7
<1>12. SentOK(s2, pr, u2, c)
      BY <1>1, <1>3, <1>6, <1>7, <1>8, <1>10, <1>11 DEF SentOK
<1> QED BY <1>4, <1>5, <1>12

\* The first one under way is processed.
LEMMA ProcessFirst ==
    ASSUME NEW s, NEW pr, NEW u, NEW c, SentOK(s, pr, u, c), u # << >>
    PROVE  SentOK(s, Append(pr, c[Head(u)]), Tail(u), c)
<1>1. PICK m \in Nat : m = Len(pr)
      BY SequenceFacts DEF SentOK
<1>2. PICK n \in Nat : n = Len(u)
      BY SequenceFacts DEF SentOK
<1>3. /\ IsSequence(s) /\ IsSequence(pr) /\ IsSequence(u) /\ Len(s) = m + n
      /\ \A k \in 1 .. m : s[k] = pr[k]
      /\ \A k \in 1 .. n : s[m + k] = c[u[k]]
      BY <1>1, <1>2 DEF SentOK
<1>4. PICK x : x = c[Head(u)]
      OBVIOUS
<1>5. PICK pr2 : pr2 = Append(pr, x)
      OBVIOUS
<1>6. PICK u2 : u2 = Tail(u)
      OBVIOUS
<1>7. /\ IsSequence(pr2) /\ Len(pr2) = m + 1 /\ pr2[m + 1] = x
      /\ \A k \in 1 .. m : pr2[k] = pr[k]
      BY <1>1, <1>3, <1>5, AppendFacts
<1>8. /\ IsSequence(u2) /\ n >= 1 /\ Len(u2) = n - 1 /\ Head(u) = u[1]
      /\ \A k \in 1 .. n - 1 : u2[k] = u[k + 1]
      BY <1>2, <1>3, <1>6, TailFacts
<1>9. 1 \in 1 .. n
      BY <1>8
<1>10. s[m + 1] = x
      BY <1>3, <1>4, <1>8, <1>9
<1>11. ASSUME NEW k \in 1 .. m + 1 PROVE s[k] = pr2[k]
  <2>1. k \in 1 .. m \/ k = m + 1
        OBVIOUS
  <2> QED BY <1>3, <1>7, <1>10, <2>1
<1>12. ASSUME NEW k \in 1 .. n - 1 PROVE s[(m + 1) + k] = c[u2[k]]
  <2>1. k + 1 \in 1 .. n /\ (m + 1) + k = m + (k + 1)
        OBVIOUS
  <2> QED BY <1>3, <1>8, <2>1
<1>13. Len(s) = Len(pr2) + Len(u2)
      BY <1>3, <1>7, <1>8
<1>14. SentOK(s, pr2, u2, c)
      BY <1>3, <1>7, <1>8, <1>11, <1>12, <1>13 DEF SentOK
<1> QED BY <1>4, <1>5, <1>6, <1>14

\* The log of what was processed, when it grows.
LEMMA ProcessedGrows ==
    ASSUME NEW entries, IsSequence(entries), NEW d
    PROVE  /\ IsSequence(ProcessedIn(entries))
           /\ d.kind = "rule" => ProcessedIn(Append(entries, d)) = ProcessedIn(entries)
           /\ d.kind # "rule" => ProcessedIn(Append(entries, d)) = Append(ProcessedIn(entries), d)
<1>1. PICK n \in Nat : n = Len(entries) /\ DOMAIN entries = 1 .. n
      BY SequenceFacts
<1>2. PICK t : t = Append(entries, d)
      OBVIOUS
<1>3. /\ IsSequence(t) /\ Len(t) = n + 1 /\ t[n + 1] = d
      /\ \A k \in 1 .. n : t[k] = entries[k]
      BY <1>1, <1>2, AppendFacts
<1>4. DOMAIN t = 1 .. n + 1
      BY <1>3, SequenceFacts
<1>5. PICK P : P = ProcessedPlaces(entries)
      OBVIOUS
<1>6. P \in SUBSET (1 .. n)
      BY <1>1, <1>5 DEF ProcessedPlaces
<1>7. \A k \in 1 .. n + 1 : k \in 1 .. n \/ k = n + 1
      OBVIOUS
<1>8. n + 1 \in 1 .. n + 1 /\ n + 1 \notin 1 .. n /\ \A k \in 1 .. n : k \in 1 .. n + 1
      OBVIOUS
<1>9. \A k \in 1 .. n : k \in ProcessedPlaces(t) <=> k \in P
      BY <1>1, <1>3, <1>4, <1>5, <1>8 DEF ProcessedPlaces
<1>10. n + 1 \in ProcessedPlaces(t) <=> d.kind # "rule"
      BY <1>3, <1>4, <1>8 DEF ProcessedPlaces
<1>11. ProcessedPlaces(t) \subseteq 1 .. n + 1
      BY <1>4 DEF ProcessedPlaces
<1>12. /\ IsSequence(Picked(entries, P))
       /\ Picked(t, P) = Picked(entries, P)
       /\ IsAppended(Picked(t, P \cup {n + 1}), Picked(entries, P), d)
  <2>1. P \in SUBSET (1 .. Len(entries))
        BY <1>1, <1>6
  <2>2. /\ IsSequence(Picked(entries, P))
        /\ Picked(t, P) = Picked(entries, P)
        /\ IsAppended(Picked(t, P \cup {Len(entries) + 1}), Picked(entries, P), d)
        BY <1>2, <2>1, PickedAppend
  <2> QED BY <1>1, <2>2
<1>13. ASSUME d.kind = "rule" PROVE ProcessedIn(t) = ProcessedIn(entries)
  <2>1. ProcessedPlaces(t) = P
        BY <1>6, <1>7, <1>9, <1>10, <1>11, <1>13
  <2> QED BY <1>5, <1>12, <2>1 DEF ProcessedIn
<1>14. ASSUME d.kind # "rule" PROVE ProcessedIn(t) = Append(ProcessedIn(entries), d)
  <2>1. ProcessedPlaces(t) = P \cup {n + 1}
        BY <1>6, <1>7, <1>8, <1>9, <1>10, <1>11, <1>14
  <2>2. IsAppended(ProcessedIn(t), ProcessedIn(entries), d)
        BY <1>5, <1>12, <2>1 DEF ProcessedIn
  <2> QED BY <2>2 DEF IsAppended
<1>15. IsSequence(ProcessedIn(entries))
      BY <1>5, <1>12 DEF ProcessedIn
<1> QED BY <1>2, <1>13, <1>14, <1>15

\* The invariant gives the property.
LEMMA InvAccounts == EnvelopesInv => EnvelopesAccounted
<1> SUFFICES ASSUME EnvelopesInv PROVE EnvelopesAccounted
    OBVIOUS
<1>1. PICK places : places = PlacesOf(flushed, queue, publishing)
      OBVIOUS
<1>2. places = Held(flushed) \o queue \o Held(publishing)
      BY <1>1 DEF PlacesOf, Ahead
<1>3. OwnedOK(places, DOMAIN pool)
      BY <1>1 DEF EnvelopesInv
<1>4. DOMAIN places = 1 .. Len(places)
      BY <1>3, SequenceFacts DEF OwnedOK
<1>5. IsInjective(places) /\ ToSet(places) = DOMAIN pool
      BY <1>3, <1>4 DEF OwnedOK, IsInjective, ToSet
<1>6. PICK under : under = (IF done THEN << >> ELSE Held(flushed)) \o queue
      OBVIOUS
<1>7. under = UnderOf(done, flushed, queue) /\ IsSequence(under)
  <2>1. IsSequence(queue) /\ done \in BOOLEAN
        BY DEF EnvelopesInv
  <2>2. CASE done
        BY <1>6, <2>1, <2>2, ConcatEmpty DEF UnderOf
  <2>3. CASE ~done
        BY <1>6, <2>1, <2>3, AheadFacts DEF UnderOf, Ahead
  <2> QED BY <2>2, <2>3
<1>8. ASSUME stage \in {"idle", "flush"}
      PROVE  sent = Processed \o [k \in DOMAIN under |-> pool[under[k]]]
  <2>1. PICK pr : pr = Processed
        OBVIOUS
  <2>2. pr = ProcessedIn(log)
        BY <2>1 DEF Processed, ProcessedIn, ProcessedPlaces, Filter
  <2>3. SentOK(sent, pr, under, pool)
        BY <1>7, <1>8, <2>2 DEF EnvelopesInv
  <2>4. PICK n \in Nat : n = Len(under) /\ DOMAIN under = 1 .. n
        BY <1>7, SequenceFacts
  <2>5. PICK m \in Nat : m = Len(pr)
        BY <2>3, SequenceFacts DEF SentOK
  <2>6. /\ IsSequence(sent) /\ IsSequence(pr) /\ Len(sent) = m + n
        /\ \A k \in 1 .. m : sent[k] = pr[k]
        /\ \A k \in 1 .. n : sent[m + k] = pool[under[k]]
        BY <2>3, <2>4, <2>5 DEF SentOK
  <2>7. PICK t : t = [k \in 1 .. n |-> pool[under[k]]]
        OBVIOUS
  <2>8. IsSequence(t) /\ Len(t) = n
    <3>1. t = [k \in 1 .. n |-> t[k]]
          BY <2>7
    <3> QED BY <3>1, FunctionSequence
  <2>9. PICK a : a = pr \o t
        OBVIOUS
  <2>10. /\ IsSequence(a) /\ Len(a) = Len(pr) + Len(t)
         /\ \A k \in 1 .. Len(pr) : a[k] = pr[k]
         /\ \A k \in 1 .. Len(t) : a[Len(pr) + k] = t[k]
    <3>1. IsSequence(pr) /\ IsSequence(t) /\ a = pr \o t
          BY <2>6, <2>8, <2>9
    <3> QED BY <3>1, ConcatFacts
  <2>11. ASSUME NEW k \in 1 .. m + n PROVE sent[k] = a[k]
    <3>1. CASE k \in 1 .. m
          BY <2>5, <2>6, <2>10, <3>1
    <3>2. CASE k \notin 1 .. m
      <4>1. PICK j \in 1 .. n : k = m + j
        <5>1. k - m \in 1 .. n /\ k = m + (k - m)
              BY <3>2
        <5> QED BY <5>1
      <4> QED BY <2>5, <2>6, <2>7, <2>8, <2>10, <4>1
    <3> QED BY <3>1, <3>2
  <2>12. Len(a) = m + n
        BY <2>5, <2>8, <2>10
  <2>13. sent = a
        BY <2>6, <2>10, <2>11, <2>12, SequencesEqual
  <2> QED BY <2>1, <2>4, <2>7, <2>9, <2>13
<1>9. calls = Len(sent) + dropped + Len(Held(publishing))
  <2>1. Len(<< >>) = 0 /\ Len(<<publishing>>) = 1
        OBVIOUS
  <2>2. Len(Held(publishing)) = IF publishing = NoEnvelope THEN 0 ELSE 1
        BY <2>1 DEF Held
  <2> QED BY <2>2 DEF EnvelopesInv
<1>10. ASSUME stage = "gone" PROVE DOMAIN pool = {}
  <2>1. /\ flushed = NoEnvelope /\ publishing = NoEnvelope /\ queue = << >>
        BY <1>10 DEF EnvelopesInv
  <2>2. places = << >>
        BY <1>1, <2>1, AheadFacts, PlacesFacts, EmptySequence
  <2>3. Len(places) = 0
        BY <2>2
  <2> QED BY <1>3, <2>3 DEF OwnedOK
<1> QED BY <1>2, <1>5, <1>6, <1>8, <1>9, <1>10 DEF EnvelopesAccounted

\* Each thread's envelope is its own.
LEMMA OwnedParts ==
    ASSUME EnvelopesInv
    PROVE  /\ NoEnvelope \notin DOMAIN pool
           /\ OwnedOK(Ahead(flushed, queue), DOMAIN pool \ {publishing})
           /\ OwnedOK(queue, (DOMAIN pool \ {publishing}) \ {flushed})
           /\ publishing # NoEnvelope => publishing \in DOMAIN pool
           /\ flushed # NoEnvelope => flushed \in DOMAIN pool /\ flushed # publishing
           /\ queue # << >> => /\ Head(queue) \in DOMAIN pool
                               /\ Head(queue) # publishing /\ Head(queue) # flushed
<1>1. IsSequence(queue) /\ OwnedOK(PlacesOf(flushed, queue, publishing), DOMAIN pool)
      BY DEF EnvelopesInv
<1>2. NoEnvelope \notin DOMAIN pool
      BY ObservabilityAssumption DEF EnvelopesInv
<1>3. PICK a : a = Ahead(flushed, queue)
      OBVIOUS
<1>4. IsSequence(a)
      BY <1>1, <1>3, AheadFacts
<1>5. PICK D : D = DOMAIN pool
      OBVIOUS
<1>6. PICK E : E = D \ {publishing}
      OBVIOUS
<1>7. OwnedOK(a, E) /\ (publishing # NoEnvelope => publishing \in D)
  <2>1. CASE publishing = NoEnvelope
    <3>1. PlacesOf(flushed, queue, publishing) = a /\ E = D
          BY <1>1, <1>2, <1>3, <1>5, <1>6, <2>1, PlacesFacts
    <3> QED BY <1>1, <1>5, <2>1, <3>1
  <2>2. CASE publishing # NoEnvelope
    <3>1. PlacesOf(flushed, queue, publishing) = Append(a, publishing)
          BY <1>1, <1>3, <2>2, PlacesFacts
    <3>2. OwnedOK(Append(a, publishing), D)
          BY <1>1, <1>5, <3>1
    <3> QED BY <1>4, <1>6, <3>2, OwnButLast
  <2> QED BY <2>1, <2>2
<1>8. PICK F : F = E \ {flushed}
      OBVIOUS
<1>9. OwnedOK(queue, F) /\ (flushed # NoEnvelope => flushed \in E)
  <2>1. CASE flushed = NoEnvelope
    <3>1. a = queue
          BY <1>1, <1>3, <2>1, AheadFacts
    <3>2. F = E
          BY <1>2, <1>5, <1>6, <1>8, <2>1
    <3> QED BY <1>7, <2>1, <3>1, <3>2
  <2>2. CASE flushed # NoEnvelope
    <3>1. a # << >> /\ Head(a) = flushed /\ Tail(a) = queue
          BY <1>1, <1>3, <2>2, AheadFacts
    <3>2. OwnedOK(Tail(a), E \ {Head(a)}) /\ Head(a) \in E
          BY <1>7, <3>1, OwnButFirst
    <3> QED BY <1>8, <3>1, <3>2
  <2> QED BY <2>1, <2>2
<1>10. queue # << >> => Head(queue) \in F
      BY <1>9, OwnButFirst
<1> QED BY <1>2, <1>3, <1>5, <1>6, <1>7, <1>8, <1>9, <1>10

\* And together they are all places.
LEMMA PlacesFrom ==
    ASSUME NEW f, NEW q, IsSequence(q), NEW D, NEW p, OwnedOK(Ahead(f, q), D \ {p}),
           p = NoEnvelope => p \notin D, p # NoEnvelope => p \in D
    PROVE  OwnedOK(PlacesOf(f, q, p), D)
<1>1. PICK a : a = Ahead(f, q)
      OBVIOUS
<1>2. PICK E : E = D \ {p}
      OBVIOUS
<1>3. OwnedOK(a, E)
      BY <1>1, <1>2
<1>4. CASE p = NoEnvelope
  <2>1. PlacesOf(f, q, p) = a /\ E = D
        BY <1>1, <1>2, <1>4, PlacesFacts
  <2> QED BY <1>3, <2>1
<1>5. CASE p # NoEnvelope
  <2>1. PlacesOf(f, q, p) = Append(a, p)
        BY <1>1, <1>5, PlacesFacts
  <2>2. p \notin E /\ E \cup {p} = D
        BY <1>2, <1>5
  <2>3. OwnedOK(Append(a, p), E \cup {p})
        BY <1>3, <2>2, OwnMore
  <2> QED BY <2>1, <2>2, <2>3
<1> QED BY <1>4, <1>5

\* What is under way keeps its content while only other envelopes change.
LEMMA SameContent ==
    ASSUME NEW s, NEW pr, NEW u, NEW c, SentOK(s, pr, u, c), NEW D, OwnedOK(u, D),
           NEW c2, \A e \in D : c2[e] = c[e]
    PROVE  SentOK(s, pr, u, c2)
<1>1. \A k \in 1 .. Len(u) : u[k] \in D
      BY DEF OwnedOK
<1>2. \A k \in 1 .. Len(u) : c2[u[k]] = c[u[k]]
      BY <1>1
<1> QED BY <1>2 DEF SentOK

\* Those under way are neither the publisher's nor, once it is processed, the
\* flusher's.
LEMMA UnderOwned ==
    ASSUME EnvelopesInv
    PROVE  LET D == DOMAIN pool \ {publishing}
           IN  /\ IsSequence(UnderOf(done, flushed, queue))
               /\ OwnedOK(UnderOf(done, flushed, queue), IF done THEN D \ {flushed} ELSE D)
<1>1. done \in BOOLEAN
      BY DEF EnvelopesInv
<1>2. OwnedOK(UnderOf(done, flushed, queue),
              IF done THEN (DOMAIN pool \ {publishing}) \ {flushed} ELSE DOMAIN pool \ {publishing})
  <2>1. CASE done
        BY <2>1, OwnedParts DEF UnderOf
  <2>2. CASE ~done
        BY <2>2, OwnedParts DEF UnderOf
  <2> QED BY <1>1, <2>1, <2>2
<1> QED BY <1>2 DEF OwnedOK

-----------------------------------------------------------------------------
(* The steps, one lemma for each.                                            *)

\* An envelope is made.
LEMMA MakeKeepsEnvelopes ==
    ASSUME EnvelopesInv, NEW content \in Telemetry, MakeEnvelope(content)
    PROVE  EnvelopesInv'
<1>0. /\ IsSequence(queue) /\ IsSequence(log) /\ IsSequence(sent)
      /\ OwnedOK(PlacesOf(flushed, queue, publishing), DOMAIN pool)
      /\ DOMAIN pool \subseteq Envelopes
      /\ \A e \in DOMAIN pool : pool[e] \in Telemetry
      /\ done \in BOOLEAN /\ (done => flushed # NoEnvelope)
      /\ stage \in {"idle", "flush", "draining", "gone"}
      /\ flushed # NoEnvelope => stage = "flush"
      /\ publishing # NoEnvelope => stage \in {"idle", "flush"}
      /\ stage = "gone" => queue = << >>
      /\ stage \in {"idle", "flush"} =>
            SentOK(sent, ProcessedIn(log), UnderOf(done, flushed, queue), pool)
      /\ dropped \in Nat
      /\ calls = Len(sent) + dropped + (IF publishing = NoEnvelope THEN 0 ELSE 1)
      BY DEF EnvelopesInv
<1>1. /\ publishing = NoEnvelope /\ stage \in {"idle", "flush"} /\ calls' = calls + 1
      /\ UNCHANGED <<queue, stage, flushed, done, dropped, sent, log>>
      BY DEF MakeEnvelope, viewVars
<1>2. PICK e \in Envelopes \ DOMAIN pool : pool' = With(pool, e, content) /\ publishing' = e
      BY DEF MakeEnvelope
<1>3. /\ DOMAIN pool' = DOMAIN pool \cup {e} /\ pool'[e] = content
      /\ \A x \in DOMAIN pool : pool'[x] = pool[x]
      BY <1>2 DEF With
<1>4. e # NoEnvelope /\ NoEnvelope \notin DOMAIN pool
      BY <1>2, OwnedParts, ObservabilityAssumption
<1>5. PICK D : D = DOMAIN pool'
      OBVIOUS
<1>6. OwnedOK(PlacesOf(flushed, queue, e), D)
  <2>1. D \ {e} = DOMAIN pool \ {publishing}
        BY <1>1, <1>2, <1>3, <1>4, <1>5
  <2>2. OwnedOK(Ahead(flushed, queue), D \ {e})
        BY <2>1, OwnedParts
  <2>3. e \in D
        BY <1>3, <1>5
  <2> QED BY <1>0, <1>4, <2>2, <2>3, PlacesFrom
<1>7. SentOK(sent, ProcessedIn(log), UnderOf(done, flushed, queue), pool')
  <2>1. PICK F : F = IF done THEN (DOMAIN pool \ {publishing}) \ {flushed} ELSE DOMAIN pool \ {publishing}
        OBVIOUS
  <2>2. OwnedOK(UnderOf(done, flushed, queue), F) /\ F \subseteq DOMAIN pool
        BY <2>1, UnderOwned
  <2>3. \A x \in F : pool'[x] = pool[x]
        BY <1>3, <2>2
  <2> QED BY <1>0, <1>1, <2>2, <2>3, SameContent
<1>8. /\ DOMAIN pool' \subseteq Envelopes
      /\ \A x \in DOMAIN pool' : pool'[x] \in Telemetry
      BY <1>0, <1>2, <1>3
<1>9. calls' = Len(sent') + dropped' + (IF publishing' = NoEnvelope THEN 0 ELSE 1)
  <2>1. Len(sent) \in Nat
        BY <1>0, SequenceFacts
  <2> QED BY <1>0, <1>1, <1>2, <1>4, <2>1
<1> QED BY <1>0, <1>1, <1>2, <1>5, <1>6, <1>7, <1>8, <1>9 DEF EnvelopesInv

\* It is pushed.
LEMMA PushKeepsEnvelopes ==
    ASSUME EnvelopesInv, PushEnvelope
    PROVE  EnvelopesInv'
<1>0. /\ IsSequence(queue) /\ IsSequence(log) /\ IsSequence(sent)
      /\ OwnedOK(PlacesOf(flushed, queue, publishing), DOMAIN pool)
      /\ DOMAIN pool \subseteq Envelopes
      /\ \A e \in DOMAIN pool : pool[e] \in Telemetry
      /\ done \in BOOLEAN /\ (done => flushed # NoEnvelope)
      /\ stage \in {"idle", "flush", "draining", "gone"}
      /\ flushed # NoEnvelope => stage = "flush"
      /\ publishing # NoEnvelope => stage \in {"idle", "flush"}
      /\ stage = "gone" => queue = << >>
      /\ stage \in {"idle", "flush"} =>
            SentOK(sent, ProcessedIn(log), UnderOf(done, flushed, queue), pool)
      /\ dropped \in Nat
      /\ calls = Len(sent) + dropped + (IF publishing = NoEnvelope THEN 0 ELSE 1)
      BY DEF EnvelopesInv
<1>1. /\ publishing # NoEnvelope /\ publishing' = NoEnvelope
      /\ queue' = Append(queue, publishing)
      /\ sent' = Append(sent, pool[publishing])
      /\ UNCHANGED <<pool, stage, flushed, done, dropped, calls, log>>
      BY DEF PushEnvelope, viewVars
<1>2. PICK e : e = publishing
      OBVIOUS
<1>3. IsSequence(queue') /\ IsSequence(sent') /\ Len(sent') = Len(sent) + 1 /\ Len(sent) \in Nat
      BY <1>0, <1>1, AppendFacts, SequenceFacts
<1>4. PlacesOf(flushed, queue', NoEnvelope) = PlacesOf(flushed, queue, publishing)
  <2>1. PlacesOf(flushed, queue', NoEnvelope) = Ahead(flushed, queue')
        BY <1>3, PlacesFacts
  <2>2. Ahead(flushed, queue') = Append(Ahead(flushed, queue), e)
        BY <1>0, <1>1, <1>2, AheadFacts
  <2>3. PlacesOf(flushed, queue, e) = Append(Ahead(flushed, queue), e)
        BY <1>0, <1>1, <1>2, PlacesFacts
  <2> QED BY <1>2, <2>1, <2>2, <2>3
<1>5. SentOK(sent', ProcessedIn(log), UnderOf(done, flushed, queue'), pool)
  <2>1. PICK u : u = UnderOf(done, flushed, queue)
        OBVIOUS
  <2>2. UnderOf(done, flushed, queue') = Append(u, e)
    <3>1. CASE done
          BY <1>1, <1>2, <2>1, <3>1 DEF UnderOf
    <3>2. CASE ~done
      <4>1. Ahead(flushed, queue') = Append(Ahead(flushed, queue), e)
            BY <1>0, <1>1, <1>2, AheadFacts
      <4> QED BY <2>1, <3>2, <4>1 DEF UnderOf
    <3> QED BY <1>0, <3>1, <3>2
  <2>3. SentOK(sent, ProcessedIn(log), u, pool)
        BY <1>0, <1>1, <2>1
  <2>4. SentOK(Append(sent, pool[e]), ProcessedIn(log), Append(u, e), pool)
        BY <2>3, SendMore
  <2> QED BY <1>1, <1>2, <2>2, <2>4
<1>6. calls' = Len(sent') + dropped' + (IF publishing' = NoEnvelope THEN 0 ELSE 1)
      BY <1>0, <1>1, <1>3
<1>7. stage # "gone"
      BY <1>0, <1>1
<1> QED BY <1>0, <1>1, <1>3, <1>4, <1>5, <1>6, <1>7 DEF EnvelopesInv

\* It is dropped, the queue being full.
LEMMA DropKeepsEnvelopes ==
    ASSUME EnvelopesInv, DropEnvelope
    PROVE  EnvelopesInv'
<1>0. /\ IsSequence(queue) /\ IsSequence(log) /\ IsSequence(sent)
      /\ OwnedOK(PlacesOf(flushed, queue, publishing), DOMAIN pool)
      /\ DOMAIN pool \subseteq Envelopes
      /\ \A e \in DOMAIN pool : pool[e] \in Telemetry
      /\ done \in BOOLEAN /\ (done => flushed # NoEnvelope)
      /\ stage \in {"idle", "flush", "draining", "gone"}
      /\ flushed # NoEnvelope => stage = "flush"
      /\ publishing # NoEnvelope => stage \in {"idle", "flush"}
      /\ stage = "gone" => queue = << >>
      /\ stage \in {"idle", "flush"} =>
            SentOK(sent, ProcessedIn(log), UnderOf(done, flushed, queue), pool)
      /\ dropped \in Nat
      /\ calls = Len(sent) + dropped + (IF publishing = NoEnvelope THEN 0 ELSE 1)
      BY DEF EnvelopesInv
<1>1. /\ publishing # NoEnvelope /\ publishing' = NoEnvelope
      /\ pool' = Without(pool, publishing) /\ dropped' = dropped + 1
      /\ UNCHANGED <<queue, stage, flushed, done, calls, sent, log>>
      BY DEF DropEnvelope, viewVars
<1>2. /\ DOMAIN pool' = DOMAIN pool \ {publishing}
      /\ \A x \in DOMAIN pool \ {publishing} : pool'[x] = pool[x]
      BY <1>1 DEF Without
<1>3. OwnedOK(PlacesOf(flushed, queue, NoEnvelope), DOMAIN pool')
  <2>1. PlacesOf(flushed, queue, NoEnvelope) = Ahead(flushed, queue)
        BY <1>0, PlacesFacts
  <2> QED BY <1>2, <2>1, OwnedParts
<1>4. SentOK(sent, ProcessedIn(log), UnderOf(done, flushed, queue), pool')
  <2>1. PICK F : F = IF done THEN (DOMAIN pool \ {publishing}) \ {flushed} ELSE DOMAIN pool \ {publishing}
        OBVIOUS
  <2>2. OwnedOK(UnderOf(done, flushed, queue), F) /\ F \subseteq DOMAIN pool \ {publishing}
        BY <2>1, UnderOwned
  <2>3. \A x \in F : pool'[x] = pool[x]
        BY <1>2, <2>2
  <2>4. stage \in {"idle", "flush"}
        BY <1>0, <1>1
  <2> QED BY <1>0, <2>2, <2>3, <2>4, SameContent
<1>5. /\ DOMAIN pool' \subseteq Envelopes
      /\ \A x \in DOMAIN pool' : pool'[x] \in Telemetry
      BY <1>0, <1>2
<1>6. dropped' \in Nat /\ calls' = Len(sent') + dropped' + (IF publishing' = NoEnvelope THEN 0 ELSE 1)
  <2>1. Len(sent) \in Nat
        BY <1>0, SequenceFacts
  <2> QED BY <1>0, <1>1, <2>1
<1> QED BY <1>0, <1>1, <1>3, <1>4, <1>5, <1>6 DEF EnvelopesInv

\* The flusher takes one from the queue.
LEMMA PopKeepsEnvelopes ==
    ASSUME EnvelopesInv, FlushPop
    PROVE  EnvelopesInv'
<1>0. /\ IsSequence(queue) /\ IsSequence(log) /\ IsSequence(sent)
      /\ OwnedOK(PlacesOf(flushed, queue, publishing), DOMAIN pool)
      /\ DOMAIN pool \subseteq Envelopes
      /\ \A e \in DOMAIN pool : pool[e] \in Telemetry
      /\ done \in BOOLEAN /\ (done => flushed # NoEnvelope)
      /\ stage \in {"idle", "flush", "draining", "gone"}
      /\ flushed # NoEnvelope => stage = "flush"
      /\ publishing # NoEnvelope => stage \in {"idle", "flush"}
      /\ stage = "gone" => queue = << >>
      /\ stage \in {"idle", "flush"} =>
            SentOK(sent, ProcessedIn(log), UnderOf(done, flushed, queue), pool)
      /\ dropped \in Nat
      /\ calls = Len(sent) + dropped + (IF publishing = NoEnvelope THEN 0 ELSE 1)
      BY DEF EnvelopesInv
<1>1. /\ stage = "flush" /\ flushed = NoEnvelope /\ queue # << >>
      /\ flushed' = Head(queue) /\ queue' = Tail(queue)
      /\ UNCHANGED <<pool, stage, done, publishing, dropped, calls, sent, log>>
      BY DEF FlushPop, viewVars, publisherVars
<1>2. Head(queue) # NoEnvelope
      BY <1>1, OwnedParts
<1>3. IsSequence(queue')
      BY <1>0, <1>1, TailFacts
<1>4. Ahead(flushed', queue') = Ahead(flushed, queue)
  <2>1. Ahead(Head(queue), Tail(queue)) = queue /\ Ahead(NoEnvelope, queue) = queue
        BY <1>0, <1>1, <1>2, AheadFacts
  <2> QED BY <1>1, <2>1
<1>5. ~done
      BY <1>0, <1>1
<1>6. /\ PlacesOf(flushed', queue', publishing) = PlacesOf(flushed, queue, publishing)
      /\ UnderOf(done, flushed', queue') = UnderOf(done, flushed, queue)
      BY <1>4, <1>5 DEF PlacesOf, UnderOf
<1> QED BY <1>0, <1>1, <1>2, <1>3, <1>5, <1>6 DEF EnvelopesInv

\* It processes its content.
LEMMA ProcessKeepsEnvelopes ==
    ASSUME EnvelopesInv, FlushProcess
    PROVE  EnvelopesInv'
<1>0. /\ IsSequence(queue) /\ IsSequence(log) /\ IsSequence(sent)
      /\ OwnedOK(PlacesOf(flushed, queue, publishing), DOMAIN pool)
      /\ DOMAIN pool \subseteq Envelopes
      /\ \A e \in DOMAIN pool : pool[e] \in Telemetry
      /\ done \in BOOLEAN /\ (done => flushed # NoEnvelope)
      /\ stage \in {"idle", "flush", "draining", "gone"}
      /\ flushed # NoEnvelope => stage = "flush"
      /\ publishing # NoEnvelope => stage \in {"idle", "flush"}
      /\ stage = "gone" => queue = << >>
      /\ stage \in {"idle", "flush"} =>
            SentOK(sent, ProcessedIn(log), UnderOf(done, flushed, queue), pool)
      /\ dropped \in Nat
      /\ calls = Len(sent) + dropped + (IF publishing = NoEnvelope THEN 0 ELSE 1)
      BY DEF EnvelopesInv
<1>1. /\ flushed # NoEnvelope /\ ~done /\ done' = TRUE
      /\ log' = Append(log, pool[flushed])
      /\ UNCHANGED <<pool, queue, stage, flushed, publishing, dropped, calls, sent>>
      BY DEF FlushProcess, publisherVars
<1>2. PICK c : c = pool[flushed]
      OBVIOUS
<1>3. c.kind # "rule"
      BY <1>0, <1>1, <1>2, OwnedParts, ObservabilityAssumption
<1>4. IsSequence(log') /\ ProcessedIn(log') = Append(ProcessedIn(log), c)
      BY <1>0, <1>1, <1>2, <1>3, AppendFacts, ProcessedGrows
<1>5. PICK u : u = Ahead(flushed, queue)
      OBVIOUS
<1>6. u # << >> /\ Head(u) = flushed /\ Tail(u) = queue
      BY <1>0, <1>1, <1>5, AheadFacts
<1>7. SentOK(sent, ProcessedIn(log), u, pool)
      BY <1>0, <1>1, <1>5 DEF UnderOf
<1>8. SentOK(sent, Append(ProcessedIn(log), pool[Head(u)]), Tail(u), pool)
      BY <1>6, <1>7, ProcessFirst
<1>9. SentOK(sent, ProcessedIn(log'), UnderOf(done', flushed, queue), pool)
      BY <1>1, <1>2, <1>4, <1>6, <1>8 DEF UnderOf
<1> QED BY <1>0, <1>1, <1>4, <1>9 DEF EnvelopesInv

\* It gives it back.
LEMMA DestroyKeepsEnvelopes ==
    ASSUME EnvelopesInv, FlushDestroy
    PROVE  EnvelopesInv'
<1>0. /\ IsSequence(queue) /\ IsSequence(log) /\ IsSequence(sent)
      /\ OwnedOK(PlacesOf(flushed, queue, publishing), DOMAIN pool)
      /\ DOMAIN pool \subseteq Envelopes
      /\ \A e \in DOMAIN pool : pool[e] \in Telemetry
      /\ done \in BOOLEAN /\ (done => flushed # NoEnvelope)
      /\ stage \in {"idle", "flush", "draining", "gone"}
      /\ flushed # NoEnvelope => stage = "flush"
      /\ publishing # NoEnvelope => stage \in {"idle", "flush"}
      /\ stage = "gone" => queue = << >>
      /\ stage \in {"idle", "flush"} =>
            SentOK(sent, ProcessedIn(log), UnderOf(done, flushed, queue), pool)
      /\ dropped \in Nat
      /\ calls = Len(sent) + dropped + (IF publishing = NoEnvelope THEN 0 ELSE 1)
      BY DEF EnvelopesInv
<1>1. /\ flushed # NoEnvelope /\ done /\ done' = FALSE /\ flushed' = NoEnvelope
      /\ pool' = Without(pool, flushed)
      /\ UNCHANGED <<queue, stage, publishing, dropped, calls, sent, log>>
      BY DEF FlushDestroy, publisherVars, viewVars
<1>2. /\ DOMAIN pool' = DOMAIN pool \ {flushed}
      /\ \A x \in DOMAIN pool \ {flushed} : pool'[x] = pool[x]
      BY <1>1 DEF Without
<1>3. PICK D : D = DOMAIN pool'
      OBVIOUS
<1>4. OwnedOK(queue, D \ {publishing})
  <2>1. D \ {publishing} = (DOMAIN pool \ {publishing}) \ {flushed}
        BY <1>2, <1>3
  <2> QED BY <2>1, OwnedParts
<1>5. Ahead(NoEnvelope, queue) = queue
      BY <1>0, AheadFacts
<1>6. OwnedOK(PlacesOf(NoEnvelope, queue, publishing), D)
  <2>1. (publishing = NoEnvelope => publishing \notin D) /\ (publishing # NoEnvelope => publishing \in D)
        BY <1>1, <1>2, <1>3, OwnedParts
  <2>2. OwnedOK(Ahead(NoEnvelope, queue), D \ {publishing})
        BY <1>4, <1>5
  <2> QED BY <1>0, <2>1, <2>2, PlacesFrom
<1>7. SentOK(sent, ProcessedIn(log), UnderOf(done', flushed', queue), pool')
  <2>1. UnderOf(done', flushed', queue) = queue /\ UnderOf(done, flushed, queue) = queue
        BY <1>1, <1>5 DEF UnderOf
  <2>2. SentOK(sent, ProcessedIn(log), queue, pool)
        BY <1>0, <1>1, <2>1
  <2>3. \A x \in D \ {publishing} : pool'[x] = pool[x]
        BY <1>2, <1>3
  <2>4. SentOK(sent, ProcessedIn(log), queue, pool')
        BY <1>4, <2>2, <2>3, SameContent
  <2> QED BY <2>1, <2>4
<1>8. /\ DOMAIN pool' \subseteq Envelopes
      /\ \A x \in DOMAIN pool' : pool'[x] \in Telemetry
      BY <1>0, <1>2
<1> QED BY <1>0, <1>1, <1>3, <1>6, <1>7, <1>8 DEF EnvelopesInv

\* The destructor disposes of one that was not flushed, or is done.
LEMMA DrainKeepsEnvelopes ==
    ASSUME EnvelopesInv, DrainAndDispose
    PROVE  EnvelopesInv'
<1>0. /\ IsSequence(queue) /\ IsSequence(log) /\ IsSequence(sent)
      /\ OwnedOK(PlacesOf(flushed, queue, publishing), DOMAIN pool)
      /\ DOMAIN pool \subseteq Envelopes
      /\ \A e \in DOMAIN pool : pool[e] \in Telemetry
      /\ done \in BOOLEAN /\ (done => flushed # NoEnvelope)
      /\ stage \in {"idle", "flush", "draining", "gone"}
      /\ flushed # NoEnvelope => stage = "flush"
      /\ publishing # NoEnvelope => stage \in {"idle", "flush"}
      /\ stage = "gone" => queue = << >>
      /\ stage \in {"idle", "flush"} =>
            SentOK(sent, ProcessedIn(log), UnderOf(done, flushed, queue), pool)
      /\ dropped \in Nat
      /\ calls = Len(sent) + dropped + (IF publishing = NoEnvelope THEN 0 ELSE 1)
      BY DEF EnvelopesInv
<1>1. /\ stage = "draining" /\ flushed = NoEnvelope /\ publishing = NoEnvelope
      /\ UNCHANGED <<flushed, done, publishing, dropped, calls, sent, log>>
      BY <1>0 DEF DrainAndDispose, publisherVars, viewVars
<1>2. CASE queue # << >>
  <2>1. pool' = Without(pool, Head(queue)) /\ queue' = Tail(queue) /\ stage' = stage
        BY <1>2 DEF DrainAndDispose
  <2>2. /\ DOMAIN pool' = DOMAIN pool \ {Head(queue)}
        /\ \A x \in DOMAIN pool \ {Head(queue)} : pool'[x] = pool[x]
        BY <2>1 DEF Without
  <2>3. IsSequence(queue')
        BY <1>0, <1>2, <2>1, TailFacts
  <2>4. PlacesOf(NoEnvelope, queue, NoEnvelope) = queue
        BY <1>0, AheadFacts, PlacesFacts
  <2>5. PlacesOf(NoEnvelope, queue', NoEnvelope) = queue'
        BY <2>3, AheadFacts, PlacesFacts
  <2>6. OwnedOK(queue, DOMAIN pool)
        BY <1>0, <1>1, <2>4
  <2>7. OwnedOK(Tail(queue), DOMAIN pool \ {Head(queue)})
        BY <1>2, <2>6, OwnButFirst
  <2>8. OwnedOK(PlacesOf(flushed', queue', publishing'), DOMAIN pool')
        BY <1>1, <2>1, <2>2, <2>5, <2>7
  <2>9. /\ DOMAIN pool' \subseteq Envelopes
        /\ \A x \in DOMAIN pool' : pool'[x] \in Telemetry
        BY <1>0, <2>2
  <2> QED BY <1>0, <1>1, <2>1, <2>3, <2>8, <2>9 DEF EnvelopesInv
<1>3. CASE queue = << >>
  <2>1. pool' = pool /\ queue' = queue /\ stage' = "gone"
        BY <1>3 DEF DrainAndDispose
  <2> QED BY <1>0, <1>1, <1>3, <2>1 DEF EnvelopesInv
<1> QED BY <1>2, <1>3

\* Every step keeps the envelopes in order.
LEMMA StepKeepsEnvelopes == EnvelopesInv /\ [Next]_vars => EnvelopesInv'
<1> SUFFICES ASSUME EnvelopesInv, [Next]_vars PROVE EnvelopesInv'
    OBVIOUS
<1>0. /\ IsSequence(queue) /\ IsSequence(log) /\ IsSequence(sent)
      /\ OwnedOK(PlacesOf(flushed, queue, publishing), DOMAIN pool)
      /\ DOMAIN pool \subseteq Envelopes
      /\ \A e \in DOMAIN pool : pool[e] \in Telemetry
      /\ done \in BOOLEAN /\ (done => flushed # NoEnvelope)
      /\ stage \in {"idle", "flush", "draining", "gone"}
      /\ flushed # NoEnvelope => stage = "flush"
      /\ publishing # NoEnvelope => stage \in {"idle", "flush"}
      /\ stage = "gone" => queue = << >>
      /\ stage \in {"idle", "flush"} =>
            SentOK(sent, ProcessedIn(log), UnderOf(done, flushed, queue), pool)
      /\ dropped \in Nat
      /\ calls = Len(sent) + dropped + (IF publishing = NoEnvelope THEN 0 ELSE 1)
      BY DEF EnvelopesInv
<1>1. ASSUME NEW rule \in AlertRules, RegisterRule(rule) PROVE EnvelopesInv'
  <2>1. PICK d : d = [kind |-> "rule", rule |-> rule]
        OBVIOUS
  <2>2. /\ log' = Append(log, d) /\ d.kind = "rule"
        /\ UNCHANGED <<pool, queue, stage, flushed, done, publishing, dropped, calls, sent>>
        BY <1>1, <2>1 DEF RegisterRule, publisherVars
  <2>3. IsSequence(log') /\ ProcessedIn(log') = ProcessedIn(log)
        BY <1>0, <2>2, AppendFacts, ProcessedGrows
  <2> QED BY <1>0, <2>2, <2>3 DEF EnvelopesInv
<1>2. CASE FlushCall \/ FlushReturn \/ Destruct
  <2>1. /\ stage \in {"idle", "flush"} /\ flushed = NoEnvelope
        /\ stage' \in {"idle", "flush", "draining"}
        /\ stage' = "draining" => publishing = NoEnvelope
        /\ UNCHANGED <<pool, queue, flushed, done, publishing, dropped, calls, sent, log>>
        BY <1>0, <1>2 DEF FlushCall, FlushReturn, Destruct, publisherVars, viewVars
  <2> QED BY <1>0, <2>1 DEF EnvelopesInv
<1>3. CASE UNCHANGED vars
  <2>1. UNCHANGED <<pool, queue, stage, flushed, done, publishing, dropped, calls, sent, log>>
        BY <1>3 DEF vars, publisherVars, viewVars
  <2> QED BY <1>0, <2>1 DEF EnvelopesInv
<1> QED BY <1>1, <1>2, <1>3, MakeKeepsEnvelopes, PushKeepsEnvelopes, DropKeepsEnvelopes,
           PopKeepsEnvelopes, ProcessKeepsEnvelopes, DestroyKeepsEnvelopes, DrainKeepsEnvelopes DEF Next

\* At first there is none.
LEMMA InitHasEnvelopes == Init => EnvelopesInv
<1> SUFFICES ASSUME Init PROVE EnvelopesInv
    OBVIOUS
<1>1. /\ pool = EmptyMap /\ queue = << >> /\ publishing = NoEnvelope /\ flushed = NoEnvelope
      /\ stage = "idle" /\ done = FALSE /\ dropped = 0 /\ calls = 0
      /\ sent = << >> /\ log = << >>
      BY DEF Init
<1>2. IsSequence(<< >>) /\ Len(<< >>) = 0 /\ DOMAIN << >> = {}
      BY EmptySequence
<1>3. DOMAIN pool = {}
      BY <1>1 DEF EmptyMap
<1>4. PlacesOf(flushed, queue, publishing) = << >> /\ UnderOf(done, flushed, queue) = << >>
      BY <1>1, <1>2, AheadFacts, PlacesFacts DEF UnderOf
<1>5. OwnedOK(PlacesOf(flushed, queue, publishing), DOMAIN pool)
      BY <1>2, <1>3, <1>4 DEF OwnedOK
<1>6. ProcessedIn(log) = << >>
  <2>1. ProcessedPlaces(log) = {}
        BY <1>1, <1>2 DEF ProcessedPlaces
  <2> QED BY <2>1, PickedNone DEF ProcessedIn
<1>7. SentOK(sent, ProcessedIn(log), UnderOf(done, flushed, queue), pool)
      BY <1>1, <1>2, <1>4, <1>6 DEF SentOK
<1>8. dropped \in Nat /\ calls = Len(sent) + dropped + (IF publishing = NoEnvelope THEN 0 ELSE 1)
      BY <1>1, <1>2
<1>9. IsSequence(queue) /\ IsSequence(log) /\ IsSequence(sent)
      BY <1>1, <1>2
<1>10. /\ DOMAIN pool \subseteq Envelopes
       /\ \A e \in DOMAIN pool : pool[e] \in Telemetry
      BY <1>3
<1>11. /\ done \in BOOLEAN /\ ~done /\ stage = "idle" /\ flushed = NoEnvelope /\ publishing = NoEnvelope
      BY <1>1
<1> QED BY <1>5, <1>7, <1>8, <1>9, <1>10, <1>11 DEF EnvelopesInv

\* No envelope is lost, used twice or read after it went back to the pool, what
\* is pushed is processed once and in order, and the destructor leaves nothing:
\* for any number of envelopes, calls and any capacity.  publish_metric,
\* publish_span, flush, drain_and_dispose_pending.
THEOREM EnvelopesAreAccounted == Spec => []EnvelopesAccounted
<1>1. Spec => []EnvelopesInv
      BY InitHasEnvelopes, StepKeepsEnvelopes, PTL DEF Spec
<1> QED BY <1>1, InvAccounts, PTL

-----------------------------------------------------------------------------
(* Rules, streaks and alerts, for any log.                                   *)

\* Where a rule of that id was registered before entry j, and where last.
RulePlaces(lg, id, j) == {k \in 1 .. (j - 1) : lg[k].kind = "rule" /\ lg[k].rule.id = id}
IsLastRule(lg, id, j, k) == k \in RulePlaces(lg, id, j) /\ \A y \in RulePlaces(lg, id, j) : y <= k

\* The samples for the rule of entry k up to entry j, and the streak they end in.
IsSample(c, rule) == c.kind = "metric" /\ c.name = rule.metric
SamplesIn(lg, k, j) == {i \in (k + 1) .. j : IsSample(lg[i], lg[k].rule)}
StreakIn(lg, k, j) ==
    {i \in SamplesIn(lg, k, j) :
        \A n \in SamplesIn(lg, k, j) : n >= i => lg[n].value >= lg[k].rule.threshold}
CompletesAt(lg, id, j) ==
    \E k \in 1 .. (j - 1) :
        /\ IsLastRule(lg, id, j, k)
        /\ j \in SamplesIn(lg, k, j)
        /\ Cardinality(StreakIn(lg, k, j)) = lg[k].rule.breaches

\* The greatest of some numbers below a bound.
LEMMA GreatestNumber ==
    ASSUME NEW n \in Nat, NEW S \in SUBSET (1 .. n), S # {}
    PROVE  \E x \in S : \A y \in S : y <= x
<1>1. PICK N : N = {m \in Nat : \E x \in S : m = n - x}
      OBVIOUS
<1>2. \A x \in S : x \in Nat /\ n - x \in Nat
      OBVIOUS
<1>3. N \in SUBSET Nat /\ N # {}
      BY <1>1, <1>2
<1>4. PICK m \in N : \A l \in N : m <= l
      BY <1>3, LeastNumber
<1>5. PICK x \in S : m = n - x
      BY <1>1, <1>4
<1>6. ASSUME NEW y \in S PROVE y <= x
  <2>1. n - y \in N
        BY <1>1, <1>2
  <2>2. n - x <= n - y
        BY <1>4, <1>5, <2>1
  <2> QED BY <1>2, <2>2
<1> QED BY <1>6

\* Max finds it.
LEMMA MaxIsGreatest ==
    ASSUME NEW S \in SUBSET Int, NEW x \in S, \A y \in S : y <= x
    PROVE  Max(S) = x
<1>1. \A y \in S : x >= y
      OBVIOUS
<1>2. PICK z : z = Max(S)
      OBVIOUS
<1>3. z \in S /\ \A y \in S : z >= y
      BY <1>1, <1>2 DEF Max
<1>4. z >= x /\ x >= z /\ z \in Int /\ x \in Int
      BY <1>1, <1>3
<1> QED BY <1>2, <1>4

\* RuleAt tells the last rule.
LEMMA RuleAtFacts ==
    ASSUME NEW id, NEW j \in Nat
    PROVE  /\ RuleAt(id, j) # 0 => IsLastRule(log, id, j, RuleAt(id, j))
           /\ \A k : IsLastRule(log, id, j, k) => RuleAt(id, j) = k /\ k # 0
<1>1. PICK S : S = RulePlaces(log, id, j)
      OBVIOUS
<1>2. S \in SUBSET (1 .. (j - 1)) /\ \A x \in S : x \in Int /\ x # 0
      BY <1>1 DEF RulePlaces
<1>3. RuleAt(id, j) = IF S = {} THEN 0 ELSE Max(S)
      BY <1>1 DEF RuleAt, RulePlaces
<1>4. ASSUME NEW k, IsLastRule(log, id, j, k) PROVE S # {} /\ Max(S) = k /\ k # 0
  <2>1. k \in S /\ \A y \in S : y <= k
        BY <1>1, <1>4 DEF IsLastRule
  <2>2. S \in SUBSET Int
        BY <1>2
  <2> QED BY <1>2, <2>1, <2>2, MaxIsGreatest
<1>5. ASSUME S # {} PROVE IsLastRule(log, id, j, Max(S))
  <2>0. PICK some : some \in S
        BY <1>5
  <2>1. j # 0
        BY <1>2, <2>0
  <2>2. PICK n \in Nat : n = j - 1
        BY <2>1
  <2>3. S \in SUBSET (1 .. n)
        BY <1>2, <2>2
  <2>4. PICK x \in S : \A y \in S : y <= x
        BY <1>5, <2>3, GreatestNumber
  <2>5. IsLastRule(log, id, j, x)
        BY <1>1, <2>4 DEF IsLastRule
  <2> QED BY <1>4, <2>5
<1>6. RuleAt(id, j) # 0 => IsLastRule(log, id, j, RuleAt(id, j))
      BY <1>3, <1>5
<1> QED BY <1>3, <1>4, <1>6

\* CompletesStreak, with the place of its rule named.
LEMMA CompletesFacts ==
    ASSUME NEW id, NEW j \in Nat
    PROVE  CompletesStreak(id, j) <=> CompletesAt(log, id, j)
<1>1. PICK k : k = RuleAt(id, j)
      OBVIOUS
<1>2. PICK samples : samples = SamplesIn(log, k, j)
      OBVIOUS
<1>3. PICK streak : streak = StreakIn(log, k, j)
      OBVIOUS
<1>4. CompletesStreak(id, j) <=>
          k # 0 /\ j \in samples /\ Cardinality(streak) = log[k].rule.breaches
      BY <1>1, <1>2, <1>3 DEF CompletesStreak, SamplesIn, StreakIn, IsSample
<1>5. k # 0 => IsLastRule(log, id, j, k) /\ k \in 1 .. (j - 1)
      BY <1>1, RuleAtFacts DEF IsLastRule, RulePlaces
<1>6. \A l : IsLastRule(log, id, j, l) => l = k /\ k # 0
      BY <1>1, RuleAtFacts
<1>7. CompletesStreak(id, j) => CompletesAt(log, id, j)
      BY <1>2, <1>3, <1>4, <1>5 DEF CompletesAt
<1>8. CompletesAt(log, id, j) => CompletesStreak(id, j)
      BY <1>2, <1>3, <1>4, <1>6 DEF CompletesAt
<1> QED BY <1>7, <1>8

\* The log lg2 is lg, of n entries, with d after them.
Grown(lg2, lg, n, d) == (\A k \in 1 .. n : lg2[k] = lg[k]) /\ lg2[n + 1] = d

\* What the first entries say does not change.
LEMMA StreakPrefix ==
    ASSUME NEW n \in Nat, NEW lg, NEW lg2, NEW d, Grown(lg2, lg, n, d), NEW k \in 1 .. n, NEW j \in 0 .. n
    PROVE  SamplesIn(lg2, k, j) = SamplesIn(lg, k, j) /\ StreakIn(lg2, k, j) = StreakIn(lg, k, j)
<1>1. lg2[k] = lg[k]
      BY DEF Grown
<1>2. \A i \in (k + 1) .. j : lg2[i] = lg[i]
  <2>1. \A i \in (k + 1) .. j : i \in 1 .. n
        OBVIOUS
  <2> QED BY <2>1 DEF Grown
<1>3. SamplesIn(lg2, k, j) = SamplesIn(lg, k, j)
      BY <1>1, <1>2 DEF SamplesIn
<1>4. \A i \in SamplesIn(lg, k, j) : lg2[i] = lg[i]
      BY <1>2 DEF SamplesIn
<1>5. StreakIn(lg2, k, j) = StreakIn(lg, k, j)
      BY <1>1, <1>3, <1>4 DEF StreakIn
<1> QED BY <1>3, <1>5

\* Whether an entry completes a streak is settled when it is made.
LEMMA CompletesPrefix ==
    ASSUME NEW n \in Nat, NEW lg, NEW lg2, NEW d, Grown(lg2, lg, n, d), NEW id, NEW j \in 1 .. n + 1
    PROVE  /\ RulePlaces(lg2, id, j) = RulePlaces(lg, id, j)
           /\ \A k : IsLastRule(lg2, id, j, k) <=> IsLastRule(lg, id, j, k)
           /\ j \in 1 .. n => (CompletesAt(lg2, id, j) <=> CompletesAt(lg, id, j))
<1>1. \A i \in 1 .. (j - 1) : i \in 1 .. n /\ lg2[i] = lg[i]
  <2>1. \A i \in 1 .. (j - 1) : i \in 1 .. n
        OBVIOUS
  <2> QED BY <2>1 DEF Grown
<1>2. RulePlaces(lg2, id, j) = RulePlaces(lg, id, j)
      BY <1>1 DEF RulePlaces
<1>3. \A k : IsLastRule(lg2, id, j, k) <=> IsLastRule(lg, id, j, k)
      BY <1>2 DEF IsLastRule
<1>4. ASSUME j \in 1 .. n PROVE CompletesAt(lg2, id, j) <=> CompletesAt(lg, id, j)
  <2>1. ASSUME NEW k \in 1 .. (j - 1)
        PROVE  /\ SamplesIn(lg2, k, j) = SamplesIn(lg, k, j)
               /\ StreakIn(lg2, k, j) = StreakIn(lg, k, j)
               /\ lg2[k] = lg[k]
    <3>1. k \in 1 .. n /\ j \in 0 .. n
          BY <1>4
    <3>2. lg2[k] = lg[k]
          BY <1>1
    <3> QED BY <3>1, <3>2, StreakPrefix
  <2> QED BY <1>3, <2>1 DEF CompletesAt
<1> QED BY <1>2, <1>3, <1>4

\* A rule registered is the last of its id, and others stay.
LEMMA RulesGrow ==
    ASSUME NEW n \in Nat, NEW lg, NEW lg2, NEW d, Grown(lg2, lg, n, d), NEW id, NEW m, m = n + 1
    PROVE  LET new == d.kind = "rule" /\ d.rule.id = id
           IN  /\ new => IsLastRule(lg2, id, m + 1, m)
               /\ ~new => RulePlaces(lg2, id, m + 1) = RulePlaces(lg, id, m)
               /\ ~new => \A k : IsLastRule(lg2, id, m + 1, k) <=> IsLastRule(lg, id, m, k)
<1>1. m \in Nat /\ (m + 1) - 1 = m /\ m - 1 = n /\ m \in 1 .. m
      OBVIOUS
<1>2. \A k \in 1 .. m : k \in 1 .. n \/ k = m
      OBVIOUS
<1>3. \A k \in 1 .. n : k \in 1 .. m /\ k # m /\ lg2[k] = lg[k]
      BY DEF Grown
<1>4. lg2[m] = d
      BY DEF Grown
<1>5. RulePlaces(lg2, id, m + 1) = {k \in 1 .. m : lg2[k].kind = "rule" /\ lg2[k].rule.id = id}
      BY <1>1 DEF RulePlaces
<1>6. RulePlaces(lg, id, m) = {k \in 1 .. n : lg[k].kind = "rule" /\ lg[k].rule.id = id}
      BY <1>1 DEF RulePlaces
<1>7. ASSUME d.kind = "rule" /\ d.rule.id = id PROVE IsLastRule(lg2, id, m + 1, m)
  <2>1. m \in RulePlaces(lg2, id, m + 1)
        BY <1>1, <1>4, <1>5, <1>7
  <2>2. \A y \in RulePlaces(lg2, id, m + 1) : y <= m
        BY <1>5
  <2> QED BY <2>1, <2>2 DEF IsLastRule
<1>8. ASSUME ~(d.kind = "rule" /\ d.rule.id = id)
      PROVE  RulePlaces(lg2, id, m + 1) = RulePlaces(lg, id, m)
      BY <1>2, <1>3, <1>4, <1>5, <1>6, <1>8
<1> QED BY <1>7, <1>8 DEF IsLastRule

\* Streaks are finite.
LEMMA StreakType ==
    ASSUME NEW lg, NEW n \in Nat, NEW k \in Nat
    PROVE  /\ IsFiniteSet(StreakIn(lg, k, n)) /\ Cardinality(StreakIn(lg, k, n)) \in Nat
           /\ \A i \in StreakIn(lg, k, n) : i \in (k + 1) .. n
<1>1. IsFiniteSet((k + 1) .. n)
      BY FS_Interval
<1>2. StreakIn(lg, k, n) \subseteq (k + 1) .. n
      BY DEF StreakIn, SamplesIn
<1>3. IsFiniteSet(StreakIn(lg, k, n))
      BY <1>1, <1>2, FS_Subset
<1> QED BY <1>2, <1>3, FS_CardinalityType

\* The next entry continues a streak, ends it or does not touch it.
LEMMA StreakGrows ==
    ASSUME NEW n \in Nat, NEW lg, NEW lg2, NEW d, Grown(lg2, lg, n, d), NEW k \in 1 .. n,
           NEW m, m = n + 1, NEW rule, rule = lg[k].rule
    PROVE  /\ m \in SamplesIn(lg2, k, m) <=> IsSample(d, rule)
           /\ ~IsSample(d, rule) => Cardinality(StreakIn(lg2, k, m)) = Cardinality(StreakIn(lg, k, n))
           /\ IsSample(d, rule) /\ d.value >= rule.threshold =>
                 Cardinality(StreakIn(lg2, k, m)) = Cardinality(StreakIn(lg, k, n)) + 1
           /\ IsSample(d, rule) /\ ~(d.value >= rule.threshold) => Cardinality(StreakIn(lg2, k, m)) = 0
<1>1. m \in Nat /\ m \in (k + 1) .. m /\ m \notin (k + 1) .. n
      OBVIOUS
<1>2. \A i \in (k + 1) .. m : i \in (k + 1) .. n \/ i = m
      OBVIOUS
<1>3. \A i \in (k + 1) .. n : i \in (k + 1) .. m /\ i # m /\ lg2[i] = lg[i] /\ i \in Nat /\ m > i /\ ~(i >= m)
  <2>1. \A i \in (k + 1) .. n : i \in (k + 1) .. m /\ i # m /\ i \in 1 .. n /\ i \in Nat /\ m > i /\ ~(i >= m)
        OBVIOUS
  <2> QED BY <2>1 DEF Grown
<1>4. lg2[m] = d /\ lg2[k].rule = rule
      BY DEF Grown
<1>5. PICK S : S = SamplesIn(lg, k, n)
      OBVIOUS
<1>6. PICK S2 : S2 = SamplesIn(lg2, k, m)
      OBVIOUS
<1>7. S = {i \in (k + 1) .. n : IsSample(lg[i], rule)} /\ S2 = {i \in (k + 1) .. m : IsSample(lg2[i], rule)}
      BY <1>4, <1>5, <1>6 DEF SamplesIn
<1>8. S \subseteq (k + 1) .. n
      BY <1>7
<1>9. m \in S2 <=> IsSample(d, rule)
      BY <1>1, <1>4, <1>7
<1>10. \A i \in (k + 1) .. n : i \in S2 <=> i \in S
      BY <1>3, <1>7
<1>11. S2 \subseteq (k + 1) .. m
      BY <1>7
<1>12. PICK T : T = StreakIn(lg, k, n)
      OBVIOUS
<1>13. PICK T2 : T2 = StreakIn(lg2, k, m)
      OBVIOUS
<1>14. T = {i \in S : \A l \in S : l >= i => lg[l].value >= rule.threshold}
      BY <1>5, <1>12 DEF StreakIn
<1>15. T2 = {i \in S2 : \A l \in S2 : l >= i => lg2[l].value >= rule.threshold}
      BY <1>4, <1>6, <1>13 DEF StreakIn
<1>16. IsFiniteSet(T) /\ T \subseteq (k + 1) .. n
  <2>1. k \in Nat
        OBVIOUS
  <2>2. IsFiniteSet(T) /\ \A i \in T : i \in (k + 1) .. n
        BY <1>12, <2>1, StreakType
  <2> QED BY <2>2
<1>17. ASSUME ~IsSample(d, rule) PROVE T2 = T
  <2>1. S2 = S
        BY <1>2, <1>8, <1>9, <1>10, <1>11, <1>17
  <2>2. \A l \in S : lg2[l] = lg[l]
        BY <1>3, <1>8
  <2> QED BY <1>14, <1>15, <2>1, <2>2
<1>18. ASSUME IsSample(d, rule) PROVE S2 = S \cup {m}
      BY <1>2, <1>8, <1>9, <1>10, <1>11, <1>18
<1>19. ASSUME IsSample(d, rule), d.value >= rule.threshold
       PROVE  Cardinality(T2) = Cardinality(T) + 1
  <2>1. S2 = S \cup {m}
        BY <1>18, <1>19
  <2>2. \A l \in S : lg2[l] = lg[l] /\ ~(l >= m)
        BY <1>3, <1>8
  <2>3. ASSUME NEW i \in S PROVE i \in T2 <=> i \in T
        BY <1>4, <1>14, <1>15, <1>19, <2>1, <2>2
  <2>4. m \in T2
        BY <1>4, <1>15, <1>19, <2>1, <2>2
  <2>5. T2 = T \cup {m}
        BY <1>14, <1>15, <2>1, <2>3, <2>4
  <2>6. m \notin T
        BY <1>1, <1>16
  <2> QED BY <1>16, <2>5, <2>6, FS_AddElement
<1>20. ASSUME IsSample(d, rule), ~(d.value >= rule.threshold) PROVE Cardinality(T2) = 0
  <2>1. m \in S2
        BY <1>9, <1>20
  <2>2. \A i \in S2 : m >= i
        BY <1>11
  <2>3. T2 = {}
        BY <1>4, <1>15, <1>20, <2>1, <2>2
  <2> QED BY <2>3, FS_EmptySet
<1> QED BY <1>6, <1>9, <1>12, <1>13, <1>17, <1>19, <1>20

-----------------------------------------------------------------------------
(* The invariant of the alerts, after n entries of the log.                  *)

LogRules(lg, n) == \A k \in 1 .. n : lg[k].kind = "rule" => lg[k].rule \in AlertRules

CountIn(counts, id) == IF id \in DOMAIN counts THEN counts[id] ELSE 0
Least(a, b) == IF a <= b THEN a ELSE b

\* A rule in force is the one registered last, with the length of its streak,
\* up to the number it waits for.
RuleOK(lg, n, id, rl, counts, k) ==
    /\ IsLastRule(lg, id, n + 1, k)
    /\ rl[id] = lg[k].rule
    /\ CountIn(counts, id) = Least(Cardinality(StreakIn(lg, k, n)), lg[k].rule.breaches)

RulesOK(lg, n, rl, counts) ==
    /\ IsFiniteSet(DOMAIN rl)
    /\ \A id \in DOMAIN rl : \E k \in 1 .. n : RuleOK(lg, n, id, rl, counts, k)
    /\ \A id : id \notin DOMAIN rl => RulePlaces(lg, id, n + 1) = {}

\* One alert for each streak completed, in order.
AlertsOK(al, lg, n) ==
    /\ IsSequence(al)
    /\ \A a, b \in 1 .. Len(al) : al[a].rule = al[b].rule /\ al[a].at = al[b].at => a = b
    /\ \A a \in 1 .. Len(al) : al[a].at \in 1 .. n /\ CompletesAt(lg, al[a].rule, al[a].at)
    /\ \A id, j : j \in 1 .. n /\ CompletesAt(lg, id, j) =>
          \E a \in 1 .. Len(al) : al[a].rule = id /\ al[a].at = j
    /\ \A a, b \in 1 .. Len(al) : a < b => al[a].at <= al[b].at

\* An entry that completes no streak.
LEMMA AlertsSame ==
    ASSUME NEW n \in Nat, NEW lg, NEW lg2, NEW d, Grown(lg2, lg, n, d), NEW al, AlertsOK(al, lg, n),
           NEW m, m = n + 1, \A id : ~CompletesAt(lg2, id, m)
    PROVE  AlertsOK(al, lg2, m)
<1>1. \A j \in 1 .. n : j \in 1 .. n + 1 /\ j \in 1 .. m
      OBVIOUS
<1>2. \A id : \A j \in 1 .. n : CompletesAt(lg2, id, j) <=> CompletesAt(lg, id, j)
      BY <1>1, CompletesPrefix
<1>3. \A j \in 1 .. m : j \in 1 .. n \/ j = m
      OBVIOUS
<1>4. /\ IsSequence(al)
      /\ \A a, b \in 1 .. Len(al) : al[a].rule = al[b].rule /\ al[a].at = al[b].at => a = b
      /\ \A a, b \in 1 .. Len(al) : a < b => al[a].at <= al[b].at
      BY DEF AlertsOK
<1>5. \A a \in 1 .. Len(al) : al[a].at \in 1 .. m /\ CompletesAt(lg2, al[a].rule, al[a].at)
      BY <1>1, <1>2 DEF AlertsOK
<1>6. ASSUME NEW id, NEW j \in 1 .. m, CompletesAt(lg2, id, j)
      PROVE  \E a \in 1 .. Len(al) : al[a].rule = id /\ al[a].at = j
  <2>1. j \in 1 .. n
        BY <1>3, <1>6
  <2> QED BY <1>2, <1>6, <2>1 DEF AlertsOK
<1> QED BY <1>4, <1>5, <1>6 DEF AlertsOK

\* An entry that completes the streaks of these rules.
Fired(t, r, m) == IsSequence(t) /\ Len(t) = r /\ \A k \in 1 .. r : t[k].at = m

\* The alerts of an entry, one for each streak it completes.
LEMMA AlertsMore ==
    ASSUME NEW n \in Nat, NEW lg, NEW lg2, NEW d, Grown(lg2, lg, n, d), NEW al, AlertsOK(al, lg, n),
           NEW m, m = n + 1, NEW t, NEW r \in Nat, Fired(t, r, m),
           \A a, b \in 1 .. r : t[a].rule = t[b].rule => a = b,
           \A a \in 1 .. r : CompletesAt(lg2, t[a].rule, m),
           \A id : CompletesAt(lg2, id, m) => \E a \in 1 .. r : t[a].rule = id
    PROVE  AlertsOK(al \o t, lg2, m)
<1>1. \A j \in 1 .. n : j \in 1 .. n + 1 /\ j \in 1 .. m /\ j # m /\ j <= m
      OBVIOUS
<1>2. \A id : \A j \in 1 .. n : CompletesAt(lg2, id, j) <=> CompletesAt(lg, id, j)
      BY <1>1, CompletesPrefix
<1>3. \A j \in 1 .. m : j \in 1 .. n \/ j = m
      OBVIOUS
<1>4. m \in 1 .. m /\ m \in Nat
      OBVIOUS
<1>5. PICK l \in Nat : l = Len(al) /\ IsSequence(al)
      BY SequenceFacts DEF AlertsOK
<1>6. PICK s : s = al \o t
      OBVIOUS
<1>7. /\ IsSequence(s) /\ Len(s) = l + r
      /\ \A k \in 1 .. l : s[k] = al[k]
      /\ \A k \in 1 .. r : s[l + k] = t[k]
  <2>1. IsSequence(al) /\ IsSequence(t) /\ s = al \o t
        BY <1>5, <1>6 DEF Fired
  <2>2. /\ IsSequence(s) /\ Len(s) = Len(al) + Len(t)
        /\ \A k \in 1 .. Len(al) : s[k] = al[k]
        /\ \A k \in 1 .. Len(t) : s[Len(al) + k] = t[k]
        BY <2>1, ConcatFacts
  <2> QED BY <1>5, <2>2 DEF Fired
<1>8. /\ \A a, b \in 1 .. l : al[a].rule = al[b].rule /\ al[a].at = al[b].at => a = b
      /\ \A a \in 1 .. l : al[a].at \in 1 .. n /\ CompletesAt(lg, al[a].rule, al[a].at)
      /\ \A id, j : j \in 1 .. n /\ CompletesAt(lg, id, j) => \E a \in 1 .. l : al[a].rule = id /\ al[a].at = j
      /\ \A a, b \in 1 .. l : a < b => al[a].at <= al[b].at
      BY <1>5 DEF AlertsOK
<1>9. \A k \in 1 .. r : t[k].at = m
      BY DEF Fired
<1>10. ASSUME NEW a \in 1 .. l + r
       PROVE  \/ a \in 1 .. l /\ s[a] = al[a] /\ s[a].at \in 1 .. n
              \/ \E k \in 1 .. r : a = l + k /\ s[a] = t[k] /\ s[a].at = m
  <2>1. CASE a \in 1 .. l
        BY <1>7, <1>8, <2>1
  <2>2. CASE a \notin 1 .. l
    <3>1. PICK k \in 1 .. r : a = l + k
      <4>1. a - l \in 1 .. r /\ a = l + (a - l)
            BY <2>2
      <4> QED BY <4>1
    <3> QED BY <1>7, <1>9, <3>1
  <2> QED BY <2>1, <2>2
<1>11. ASSUME NEW a \in 1 .. l + r, NEW b \in 1 .. l + r, s[a].rule = s[b].rule, s[a].at = s[b].at
       PROVE  a = b
  <2>1. CASE a \in 1 .. l /\ s[a] = al[a] /\ s[a].at \in 1 .. n
    <3>1. b \in 1 .. l /\ s[b] = al[b]
          BY <1>1, <1>10, <1>11, <2>1
    <3> QED BY <1>8, <1>11, <2>1, <3>1
  <2>2. CASE \E k \in 1 .. r : a = l + k /\ s[a] = t[k] /\ s[a].at = m
    <3>1. PICK k \in 1 .. r : a = l + k /\ s[a] = t[k] /\ s[a].at = m
          BY <2>2
    <3>2. PICK q \in 1 .. r : b = l + q /\ s[b] = t[q]
          BY <1>1, <1>10, <1>11, <3>1
    <3>3. k = q
          BY <1>11, <3>1, <3>2
    <3> QED BY <3>1, <3>2, <3>3
  <2> QED BY <1>10, <2>1, <2>2
<1>12. ASSUME NEW a \in 1 .. l + r PROVE s[a].at \in 1 .. m /\ CompletesAt(lg2, s[a].rule, s[a].at)
  <2>1. CASE a \in 1 .. l /\ s[a] = al[a] /\ s[a].at \in 1 .. n
        BY <1>1, <1>2, <1>8, <2>1
  <2>2. CASE \E k \in 1 .. r : a = l + k /\ s[a] = t[k] /\ s[a].at = m
        BY <1>4, <2>2
  <2> QED BY <1>10, <2>1, <2>2
<1>13. ASSUME NEW id, NEW j \in 1 .. m, CompletesAt(lg2, id, j)
       PROVE  \E a \in 1 .. l + r : s[a].rule = id /\ s[a].at = j
  <2>1. CASE j \in 1 .. n
    <3>1. PICK a \in 1 .. l : al[a].rule = id /\ al[a].at = j
          BY <1>2, <1>8, <1>13, <2>1
    <3>2. a \in 1 .. l + r
          OBVIOUS
    <3> QED BY <1>7, <3>1, <3>2
  <2>2. CASE j = m
    <3>1. PICK k \in 1 .. r : t[k].rule = id
          BY <1>13, <2>2
    <3>2. l + k \in 1 .. l + r
          OBVIOUS
    <3> QED BY <1>7, <1>9, <2>2, <3>1, <3>2
  <2> QED BY <1>3, <2>1, <2>2
<1>14. ASSUME NEW a \in 1 .. l + r, NEW b \in 1 .. l + r, a < b PROVE s[a].at <= s[b].at
  <2>1. CASE b \in 1 .. l /\ s[b] = al[b] /\ s[b].at \in 1 .. n
    <3>1. a \in 1 .. l
          BY <1>14, <2>1
    <3> QED BY <1>7, <1>8, <1>14, <2>1, <3>1
  <2>2. CASE \E k \in 1 .. r : b = l + k /\ s[b] = t[k] /\ s[b].at = m
    <3>1. s[a].at \in 1 .. m /\ s[b].at = m
          BY <1>12, <2>2
    <3> QED BY <1>4, <3>1
  <2> QED BY <1>10, <2>1, <2>2
<1>15. AlertsOK(s, lg2, m)
  <2>1. \A a, b \in 1 .. Len(s) : s[a].rule = s[b].rule /\ s[a].at = s[b].at => a = b
        BY <1>7, <1>11
  <2>2. \A a \in 1 .. Len(s) : s[a].at \in 1 .. m /\ CompletesAt(lg2, s[a].rule, s[a].at)
        BY <1>7, <1>12
  <2>3. \A id, j : j \in 1 .. m /\ CompletesAt(lg2, id, j) =>
           \E a \in 1 .. Len(s) : s[a].rule = id /\ s[a].at = j
    <3>1. 1 .. Len(s) = 1 .. l + r
          BY <1>7
    <3>2. ASSUME NEW id, NEW j, j \in 1 .. m /\ CompletesAt(lg2, id, j)
          PROVE  \E a \in 1 .. l + r : s[a].rule = id /\ s[a].at = j
          BY <1>13, <3>2
    <3> QED BY <3>1, <3>2
  <2>4. \A a, b \in 1 .. Len(s) : a < b => s[a].at <= s[b].at
        BY <1>7, <1>14
  <2> QED BY <1>7, <2>1, <2>2, <2>3, <2>4 DEF AlertsOK
<1> QED BY <1>6, <1>15

\* With as many alerts as streaks the invariant gives the property.
LEMMA AlertsGiveProperty ==
    ASSUME IsSequence(log), LogRules(log, Len(log)), AlertsOK(alerts, log, Len(log))
    PROVE  AlertsMatchStreaks
<1>1. PICK n \in Nat : n = Len(log) /\ DOMAIN log = 1 .. n
      BY SequenceFacts
<1>2. PICK l \in Nat : l = Len(alerts) /\ DOMAIN alerts = 1 .. l
      BY SequenceFacts DEF AlertsOK
<1>3. PICK ids : ids = {rule.id : rule \in AlertRules}
      OBVIOUS
<1>4. PICK due : due = {e \in ids \X DOMAIN log : CompletesStreak(e[1], e[2])}
      OBVIOUS
<1>5. PICK f : f = [k \in 1 .. l |-> <<alerts[k].rule, alerts[k].at>>]
      OBVIOUS
<1>6. \A id : \A j \in 1 .. n : CompletesStreak(id, j) <=> CompletesAt(log, id, j)
  <2>1. \A j \in 1 .. n : j \in Nat
        OBVIOUS
  <2> QED BY <2>1, CompletesFacts
<1>7. ASSUME NEW id, NEW j \in 1 .. n, CompletesAt(log, id, j) PROVE id \in ids
  <2>1. PICK k \in 1 .. (j - 1) : IsLastRule(log, id, j, k)
        BY <1>7 DEF CompletesAt
  <2>2. log[k].kind = "rule" /\ log[k].rule.id = id
        BY <2>1 DEF IsLastRule, RulePlaces
  <2>3. k \in 1 .. n
        OBVIOUS
  <2>4. log[k].rule \in AlertRules
        BY <1>1, <2>2, <2>3 DEF LogRules
  <2> QED BY <1>3, <2>2, <2>4
<1>8. ASSUME NEW k \in 1 .. l PROVE f[k] \in due
  <2>1. alerts[k].at \in 1 .. n /\ CompletesAt(log, alerts[k].rule, alerts[k].at)
        BY <1>1, <1>2 DEF AlertsOK
  <2>2. alerts[k].rule \in ids /\ CompletesStreak(alerts[k].rule, alerts[k].at)
        BY <1>6, <1>7, <2>1
  <2>3. f[k] = <<alerts[k].rule, alerts[k].at>>
        BY <1>5
  <2> QED BY <1>1, <1>4, <2>1, <2>2, <2>3
<1>9. ASSUME NEW e \in due PROVE \E k \in 1 .. l : f[k] = e
  <2>1. PICK id \in ids, j \in 1 .. n : e = <<id, j>>
        BY <1>1, <1>4
  <2>2. CompletesAt(log, id, j)
        BY <1>4, <1>6, <2>1
  <2>3. PICK k \in 1 .. l : alerts[k].rule = id /\ alerts[k].at = j
        BY <1>1, <1>2, <2>2 DEF AlertsOK
  <2> QED BY <1>5, <2>1, <2>3
<1>10. \A a, b \in 1 .. l : f[a] = f[b] => a = b
  <2>1. ASSUME NEW a \in 1 .. l, NEW b \in 1 .. l, f[a] = f[b] PROVE a = b
    <3>1. alerts[a].rule = alerts[b].rule /\ alerts[a].at = alerts[b].at
          BY <1>5, <2>1
    <3> QED BY <1>2, <3>1 DEF AlertsOK
  <2> QED BY <2>1
<1>11. {<<alerts[k].rule, alerts[k].at>> : k \in DOMAIN alerts} = due
  <2>1. {<<alerts[k].rule, alerts[k].at>> : k \in DOMAIN alerts} = {f[k] : k \in 1 .. l}
        BY <1>2, <1>5
  <2>2. {f[k] : k \in 1 .. l} = due
        BY <1>8, <1>9
  <2> QED BY <2>1, <2>2
<1>12. l = Cardinality(due)
  <2>1. f \in [1 .. l -> due]
        BY <1>5, <1>8
  <2>2. f \in Bijection(1 .. l, due)
        BY <1>9, <1>10, <2>1 DEF Bijection, Injection, IsInjective, Surjection
  <2> QED BY <2>2, FS_CountingElements DEF ExistsBijection
<1>13. \A k \in 2 .. l : alerts[k - 1].at <= alerts[k].at
  <2>1. ASSUME NEW k \in 2 .. l PROVE alerts[k - 1].at <= alerts[k].at
    <3>1. k - 1 \in 1 .. l /\ k \in 1 .. l /\ k - 1 < k
          OBVIOUS
    <3> QED BY <1>2, <3>1 DEF AlertsOK
  <2> QED BY <2>1
<1> QED BY <1>2, <1>3, <1>4, <1>11, <1>12, <1>13 DEF AlertsMatchStreaks

-----------------------------------------------------------------------------
(* The steps that add to the log.                                            *)

\* Two last rules are one.
LEMMA LastRuleUnique ==
    ASSUME NEW lg, NEW id, NEW j \in Nat, NEW k, NEW l, IsLastRule(lg, id, j, k), IsLastRule(lg, id, j, l)
    PROVE  k = l /\ k \in 1 .. (j - 1) /\ lg[k].kind = "rule" /\ lg[k].rule.id = id
<1>1. k \in 1 .. (j - 1) /\ l \in 1 .. (j - 1) /\ k <= l /\ l <= k
      BY DEF IsLastRule, RulePlaces
<1> QED BY <1>1 DEF IsLastRule, RulePlaces

\* What RulesOK and LogRules say of a rule in force.
LEMMA RuleFacts ==
    ASSUME NEW lg, NEW n \in Nat, NEW rl, NEW counts, LogRules(lg, n), NEW id, NEW k \in 1 .. n,
           RuleOK(lg, n, id, rl, counts, k)
    PROVE  /\ rl[id] \in AlertRules /\ rl[id].id = id /\ rl[id].breaches \in Nat \ {0}
           /\ \E c \in Nat : /\ c = Cardinality(StreakIn(lg, k, n))
                             /\ CountIn(counts, id) = Least(c, rl[id].breaches)
<1>1. n + 1 \in Nat
      OBVIOUS
<1>2. lg[k].kind = "rule" /\ lg[k].rule.id = id
      BY <1>1, LastRuleUnique DEF RuleOK
<1>3. rl[id] = lg[k].rule /\ lg[k].rule \in AlertRules
      BY <1>2 DEF RuleOK, LogRules
<1>4. k \in Nat
      OBVIOUS
<1>5. Cardinality(StreakIn(lg, k, n)) \in Nat
      BY <1>4, StreakType
<1>6. CountIn(counts, id) = Least(Cardinality(StreakIn(lg, k, n)), rl[id].breaches)
      BY <1>3 DEF RuleOK
<1>7. rl[id].breaches \in Nat \ {0}
      BY <1>3, ObservabilityAssumption
<1> QED BY <1>2, <1>3, <1>5, <1>6, <1>7

\* The streaks the next entry completes, by the state of the rules.
Firing(d, rule, count) ==
    IsSample(d, rule) /\ d.value >= rule.threshold /\ count + 1 = rule.breaches

\* The last entry completes the streaks of the rules that fire.
LEMMA CompletesNow ==
    ASSUME NEW n \in Nat, NEW lg, NEW lg2, NEW d, Grown(lg2, lg, n, d), LogRules(lg, n),
           NEW rl, NEW counts, RulesOK(lg, n, rl, counts), NEW m, m = n + 1, NEW id
    PROVE  CompletesAt(lg2, id, m) <=> id \in DOMAIN rl /\ Firing(d, rl[id], CountIn(counts, id))
<1>1. m \in 1 .. n + 1 /\ m \in Nat /\ m - 1 = n
      OBVIOUS
<1>2. \A k : IsLastRule(lg2, id, m, k) <=> IsLastRule(lg, id, m, k)
      BY <1>1, CompletesPrefix
<1>3. ASSUME CompletesAt(lg2, id, m) PROVE id \in DOMAIN rl
  <2>1. PICK k : IsLastRule(lg, id, m, k)
        BY <1>2, <1>3 DEF CompletesAt
  <2>2. RulePlaces(lg, id, m) # {}
        BY <2>1 DEF IsLastRule
  <2> QED BY <2>2 DEF RulesOK
<1>4. ASSUME id \in DOMAIN rl
      PROVE  CompletesAt(lg2, id, m) <=> Firing(d, rl[id], CountIn(counts, id))
  <2>1. PICK k \in 1 .. n : RuleOK(lg, n, id, rl, counts, k)
        BY <1>4 DEF RulesOK
  <2>2. PICK rule : rule = lg[k].rule
        OBVIOUS
  <2>3. rl[id] = rule /\ IsLastRule(lg, id, m, k)
        BY <2>1, <2>2 DEF RuleOK
  <2>4. PICK b \in Nat \ {0} : b = rule.breaches
        BY <2>1, <2>3, RuleFacts
  <2>5. PICK c \in Nat : c = Cardinality(StreakIn(lg, k, n)) /\ CountIn(counts, id) = Least(c, b)
        BY <2>1, <2>3, <2>4, RuleFacts
  <2>6. PICK e : e = Cardinality(StreakIn(lg2, k, m))
        OBVIOUS
  <2>7. /\ m \in SamplesIn(lg2, k, m) <=> IsSample(d, rule)
        /\ IsSample(d, rule) /\ d.value >= rule.threshold => e = c + 1
        /\ IsSample(d, rule) /\ ~(d.value >= rule.threshold) => e = 0
        BY <2>2, <2>5, <2>6, StreakGrows
  <2>8. \A l : IsLastRule(lg2, id, m, l) => l = k
        BY <1>1, <1>2, <2>3, LastRuleUnique
  <2>9. lg2[k].rule.breaches = b
        BY <2>2, <2>4 DEF Grown
  <2>10. CompletesAt(lg2, id, m) <=> IsSample(d, rule) /\ e = b
        BY <1>1, <1>2, <2>3, <2>6, <2>7, <2>8, <2>9 DEF CompletesAt
  <2>11. CountIn(counts, id) + 1 = b <=> c + 1 = b
        BY <2>5 DEF Least
  <2>12. b # 0
        OBVIOUS
  <2> QED BY <2>3, <2>4, <2>7, <2>10, <2>11, <2>12 DEF Firing
<1> QED BY <1>3, <1>4

\* An entry that is a sample of no rule in force leaves their counts.
LEMMA UntouchedRule ==
    ASSUME NEW n \in Nat, NEW lg, NEW lg2, NEW d, Grown(lg2, lg, n, d), NEW m, m = n + 1,
           NEW rl, NEW counts, NEW id, NEW k \in 1 .. n, RuleOK(lg, n, id, rl, counts, k),
           ~(d.kind = "rule" /\ d.rule.id = id), ~IsSample(d, rl[id]),
           NEW rl2, rl2[id] = rl[id], NEW counts2, CountIn(counts2, id) = CountIn(counts, id)
    PROVE  RuleOK(lg2, m, id, rl2, counts2, k)
<1>1. PICK rule : rule = lg[k].rule
      OBVIOUS
<1>2. /\ IsLastRule(lg, id, m, k) /\ rl[id] = rule
      /\ CountIn(counts, id) = Least(Cardinality(StreakIn(lg, k, n)), rule.breaches)
      BY <1>1 DEF RuleOK
<1>3. IsLastRule(lg2, id, m + 1, k)
      BY <1>2, RulesGrow
<1>4. Cardinality(StreakIn(lg2, k, m)) = Cardinality(StreakIn(lg, k, n))
      BY <1>1, <1>2, StreakGrows
<1>5. lg2[k].rule = rule
      BY <1>1 DEF Grown
<1> QED BY <1>2, <1>3, <1>4, <1>5 DEF RuleOK

\* register_rule.
LEMMA RegisterKeepsRules ==
    ASSUME NEW n \in Nat, NEW lg, NEW lg2, NEW d, Grown(lg2, lg, n, d), NEW m, m = n + 1,
           NEW rl, NEW counts, LogRules(lg, n), RulesOK(lg, n, rl, counts),
           NEW rule \in AlertRules, d = [kind |-> "rule", rule |-> rule]
    PROVE  /\ LogRules(lg2, m)
           /\ RulesOK(lg2, m, With(rl, rule.id, rule), Without(counts, rule.id))
<1>1. d.kind = "rule" /\ d.rule = rule
      OBVIOUS
<1>2. \A k \in 1 .. m : k \in 1 .. n \/ k = m
      OBVIOUS
<1>3. m \in 1 .. m /\ m \in Nat /\ \A k \in 1 .. n : k \in 1 .. m
      OBVIOUS
<1>4. lg2[m] = d
      BY DEF Grown
<1>5. LogRules(lg2, m)
      BY <1>1, <1>2, <1>4 DEF LogRules, Grown
<1>6. PICK rl2 : rl2 = With(rl, rule.id, rule)
      OBVIOUS
<1>7. PICK counts2 : counts2 = Without(counts, rule.id)
      OBVIOUS
<1>8. /\ DOMAIN rl2 = DOMAIN rl \cup {rule.id} /\ rl2[rule.id] = rule
      /\ \A id \in DOMAIN rl : id # rule.id => rl2[id] = rl[id]
      BY <1>6 DEF With
<1>9. CountIn(counts2, rule.id) = 0 /\ \A id : id # rule.id => CountIn(counts2, id) = CountIn(counts, id)
      BY <1>7 DEF Without, CountIn
<1>10. IsFiniteSet(DOMAIN rl2)
      BY <1>8, FS_AddElement DEF RulesOK
<1>11. RuleOK(lg2, m, rule.id, rl2, counts2, m)
  <2>1. IsLastRule(lg2, rule.id, m + 1, m)
        BY <1>1, RulesGrow
  <2>2. SamplesIn(lg2, m, m) = {}
        BY <1>3 DEF SamplesIn
  <2>3. StreakIn(lg2, m, m) = {}
        BY <2>2 DEF StreakIn
  <2>4. Cardinality(StreakIn(lg2, m, m)) = 0
        BY <2>3, FS_EmptySet
  <2>5. rule.breaches \in Nat
        BY ObservabilityAssumption
  <2>6. Least(0, rule.breaches) = 0
        BY <2>5 DEF Least
  <2> QED BY <1>1, <1>4, <1>8, <1>9, <2>1, <2>4, <2>6 DEF RuleOK
<1>12. ASSUME NEW id \in DOMAIN rl2 PROVE \E k \in 1 .. m : RuleOK(lg2, m, id, rl2, counts2, k)
  <2>1. CASE id = rule.id
        BY <1>3, <1>11, <2>1
  <2>2. CASE id # rule.id
    <3>1. id \in DOMAIN rl
          BY <1>8, <2>2
    <3>2. PICK k \in 1 .. n : RuleOK(lg, n, id, rl, counts, k)
          BY <3>1 DEF RulesOK
    <3>3. ~(d.kind = "rule" /\ d.rule.id = id) /\ ~IsSample(d, rl[id])
          BY <1>1, <2>2 DEF IsSample
    <3>4. rl2[id] = rl[id] /\ CountIn(counts2, id) = CountIn(counts, id)
          BY <1>8, <1>9, <2>2, <3>1
    <3>5. RuleOK(lg2, m, id, rl2, counts2, k)
          BY <3>2, <3>3, <3>4, UntouchedRule
    <3> QED BY <1>3, <3>5
  <2> QED BY <2>1, <2>2
<1>13. ASSUME NEW id, id \notin DOMAIN rl2 PROVE RulePlaces(lg2, id, m + 1) = {}
  <2>1. id \notin DOMAIN rl /\ id # rule.id
        BY <1>8, <1>13
  <2>2. ~(d.kind = "rule" /\ d.rule.id = id)
        BY <1>1, <2>1
  <2>3. RulePlaces(lg2, id, m + 1) = RulePlaces(lg, id, m)
        BY <2>2, RulesGrow
  <2> QED BY <2>1, <2>3 DEF RulesOK
<1> QED BY <1>5, <1>6, <1>7, <1>10, <1>12, <1>13 DEF RulesOK

\* process_metric and process_span: what they make of the counts.
LEMMA ProcessKeepsRules ==
    ASSUME NEW n \in Nat, NEW lg, NEW lg2, NEW d, Grown(lg2, lg, n, d), NEW m, m = n + 1,
           NEW rl, NEW counts, LogRules(lg, n), RulesOK(lg, n, rl, counts), d.kind # "rule",
           NEW counts2,
           \A id \in DOMAIN rl : CountIn(counts2, id) =
               IF ~IsSample(d, rl[id]) THEN CountIn(counts, id)
               ELSE IF d.value >= rl[id].threshold
                 THEN Least(CountIn(counts, id) + 1, rl[id].breaches)
               ELSE 0
    PROVE  LogRules(lg2, m) /\ RulesOK(lg2, m, rl, counts2)
<1>1. \A k \in 1 .. m : k \in 1 .. n \/ k = m
      OBVIOUS
<1>2. m \in Nat /\ \A k \in 1 .. n : k \in 1 .. m
      OBVIOUS
<1>3. lg2[m] = d
      BY DEF Grown
<1>4. LogRules(lg2, m)
      BY <1>1, <1>3 DEF LogRules, Grown
<1>5. ASSUME NEW id \in DOMAIN rl PROVE \E k \in 1 .. m : RuleOK(lg2, m, id, rl, counts2, k)
  <2>1. PICK k \in 1 .. n : RuleOK(lg, n, id, rl, counts, k)
        BY DEF RulesOK
  <2>2. ~(d.kind = "rule" /\ d.rule.id = id)
        OBVIOUS
  <2>3. PICK rule : rule = lg[k].rule
        OBVIOUS
  <2>4. rl[id] = rule /\ IsLastRule(lg, id, m, k) /\ lg2[k].rule = rule
        BY <2>1, <2>3 DEF RuleOK, Grown
  <2>5. CASE ~IsSample(d, rule)
    <3>1. ~IsSample(d, rl[id]) /\ CountIn(counts2, id) = CountIn(counts, id)
          BY <2>4, <2>5
    <3>2. RuleOK(lg2, m, id, rl, counts2, k)
          BY <2>1, <2>2, <3>1, UntouchedRule
    <3> QED BY <1>2, <3>2
  <2>6. CASE IsSample(d, rule)
    <3>1. PICK b \in Nat \ {0} : b = rule.breaches
          BY <2>1, <2>4, RuleFacts
    <3>2. PICK c \in Nat : c = Cardinality(StreakIn(lg, k, n)) /\ CountIn(counts, id) = Least(c, b)
          BY <2>1, <2>4, <3>1, RuleFacts
    <3>3. PICK e : e = Cardinality(StreakIn(lg2, k, m))
          OBVIOUS
    <3>4. e = IF d.value >= rule.threshold THEN c + 1 ELSE 0
          BY <2>3, <2>6, <3>2, <3>3, StreakGrows
    <3>5. CountIn(counts2, id) = IF d.value >= rule.threshold THEN Least(Least(c, b) + 1, b) ELSE 0
          BY <2>4, <2>6, <3>1, <3>2
    <3>6. Least(Least(c, b) + 1, b) = Least(c + 1, b) /\ Least(0, b) = 0
          BY DEF Least
    <3>7. CountIn(counts2, id) = Least(e, b)
          BY <3>4, <3>5, <3>6
    <3>8. IsLastRule(lg2, id, m + 1, k)
          BY <2>2, <2>4, RulesGrow
    <3>9. RuleOK(lg2, m, id, rl, counts2, k)
          BY <2>4, <3>1, <3>3, <3>7, <3>8 DEF RuleOK
    <3> QED BY <1>2, <3>9
  <2> QED BY <2>5, <2>6
<1>6. ASSUME NEW id, id \notin DOMAIN rl PROVE RulePlaces(lg2, id, m + 1) = {}
  <2>1. ~(d.kind = "rule" /\ d.rule.id = id)
        OBVIOUS
  <2>2. RulePlaces(lg2, id, m + 1) = RulePlaces(lg, id, m)
        BY <2>1, RulesGrow
  <2> QED BY <1>6, <2>2 DEF RulesOK
<1> QED BY <1>4, <1>5, <1>6 DEF RulesOK

\* Min and Max of two numbers.
LEMMA LeastOfTwo ==
    ASSUME NEW a \in Int, NEW b \in Int
    PROVE  Min({a, b}) = Least(a, b)
<1>1. PICK x : x = Least(a, b)
      OBVIOUS
<1>2. x \in {a, b} /\ \A y \in {a, b} : x <= y
      BY <1>1 DEF Least
<1>3. PICK z : z = Min({a, b})
      OBVIOUS
<1>4. z \in {a, b} /\ \A y \in {a, b} : z <= y
      BY <1>2, <1>3 DEF Min
<1>5. z <= x /\ x <= z /\ x \in Int /\ z \in Int
      BY <1>2, <1>4
<1> QED BY <1>1, <1>3, <1>5

AlertsInv ==
    /\ LogRules(log, Len(log))
    /\ RulesOK(log, Len(log), rules, breachCounts)
    /\ AlertsOK(alerts, log, Len(log))

\* A log with one more entry.
LEMMA LogGrows ==
    ASSUME NEW lg, IsSequence(lg), NEW d, NEW lg2, lg2 = Append(lg, d)
    PROVE  Grown(lg2, lg, Len(lg), d) /\ Len(lg) \in Nat /\ Len(lg2) = Len(lg) + 1
  BY AppendFacts, SequenceFacts DEF Grown

\* register_rule sets off no alert.
LEMMA RegisterKeepsAlerts ==
    ASSUME EnvelopesInv, AlertsInv, NEW rule \in AlertRules, RegisterRule(rule)
    PROVE  AlertsInv'
<1>1. PICK d : d = [kind |-> "rule", rule |-> rule]
      OBVIOUS
<1>2. /\ log' = Append(log, d) /\ alerts' = alerts
      /\ rules' = With(rules, rule.id, rule) /\ breachCounts' = Without(breachCounts, rule.id)
      BY <1>1 DEF RegisterRule
<1>3. IsSequence(log)
      BY DEF EnvelopesInv
<1>4. PICK n \in Nat : n = Len(log)
      BY <1>3, SequenceFacts
<1>5. PICK lg2 : lg2 = log'
      OBVIOUS
<1>6. PICK m : m = n + 1
      OBVIOUS
<1>7. Grown(lg2, log, n, d) /\ Len(lg2) = m
      BY <1>2, <1>3, <1>4, <1>5, <1>6, LogGrows
<1>8. /\ LogRules(log, n) /\ RulesOK(log, n, rules, breachCounts) /\ AlertsOK(alerts, log, n)
      BY <1>4 DEF AlertsInv
<1>9. /\ LogRules(lg2, m)
      /\ RulesOK(lg2, m, With(rules, rule.id, rule), Without(breachCounts, rule.id))
      BY <1>1, <1>6, <1>7, <1>8, RegisterKeepsRules
<1>10. d.kind # "metric"
      BY <1>1
<1>11. \A id : ~CompletesAt(lg2, id, m)
  <2>1. ASSUME NEW id PROVE ~CompletesAt(lg2, id, m)
    <3>1. ~Firing(d, rules[id], CountIn(breachCounts, id))
          BY <1>10 DEF Firing, IsSample
    <3> QED BY <1>6, <1>7, <1>8, <3>1, CompletesNow
  <2> QED BY <2>1
<1>12. AlertsOK(alerts, lg2, m)
      BY <1>6, <1>7, <1>8, <1>11, AlertsSame
<1> QED BY <1>2, <1>5, <1>7, <1>9, <1>12 DEF AlertsInv

\* A sequence of all elements of a finite set, each once.
LEMMA AllElements ==
    ASSUME NEW S, IsFiniteSet(S), NEW f \in SetToSeqs(S)
    PROVE  /\ IsSequence(f) /\ Len(f) = Cardinality(S) /\ Len(f) \in Nat
           /\ \A k \in 1 .. Len(f) : f[k] \in S
           /\ \A k, l \in 1 .. Len(f) : f[k] = f[l] => k = l
           /\ \A x \in S : \E k \in 1 .. Len(f) : f[k] = x
<1>1. PICK n \in Nat : n = Cardinality(S)
      BY FS_CardinalityType
<1>2. f \in [1 .. n -> S] /\ \A k, l \in 1 .. n : k # l => f[k] # f[l]
      BY <1>1 DEF SetToSeqs
<1>3. f = [k \in 1 .. n |-> f[k]]
      BY <1>2
<1>4. IsSequence(f) /\ Len(f) = n
      BY <1>3, FunctionSequence
<1>5. \A k, l \in 1 .. n : f[k] = f[l] => k = l
      BY <1>2
<1>6. f \in Injection(1 .. n, S)
      BY <1>2, <1>5 DEF Injection, IsInjective
<1>7. Cardinality(1 .. n) = n
  <2>1. 1 \in Int /\ n \in Int
        OBVIOUS
  <2>2. Cardinality(1 .. n) = IF 1 > n THEN 0 ELSE n - 1 + 1
        BY <2>1, FS_Interval
  <2> QED BY <2>2
<1>8. f \in Surjection(1 .. n, S)
  <2>1. Cardinality(1 .. n) = Cardinality(S)
        BY <1>1, <1>7
  <2>2. Cardinality(1 .. n) = Cardinality(S) <=> f \in Surjection(1 .. n, S)
        BY <1>6, FS_Injection
  <2> QED BY <2>1, <2>2
<1>9. \A x \in S : \E k \in 1 .. n : f[k] = x
      BY <1>8 DEF Surjection
<1> QED BY <1>1, <1>2, <1>4, <1>5, <1>9

\* process_metric: what it makes of the counts, and the alerts of a sample.
LEMMA MetricFacts ==
    ASSUME NEW n \in Nat, LogRules(log, n), RulesOK(log, n, rules, breachCounts),
           NEW c, c.kind = "metric", ProcessMetric(c)
    PROVE  /\ \A id \in DOMAIN rules : CountIn(breachCounts', id) =
                  IF ~IsSample(c, rules[id]) THEN CountIn(breachCounts, id)
                  ELSE IF c.value >= rules[id].threshold
                    THEN Least(CountIn(breachCounts, id) + 1, rules[id].breaches)
                  ELSE 0
           /\ \E firing \in SetToSeqs({id \in DOMAIN rules :
                                         Firing(c, rules[id], CountIn(breachCounts, id))}) :
                 alerts' = alerts \o [k \in DOMAIN firing |-> Alert(firing[k], c.value)]
<1>1. PICK ids : ids = {id \in DOMAIN rules : rules[id].metric = c.name}
      OBVIOUS
<1>2. PICK verdict : verdict = [id \in ids |-> Breaches(rules[id], c.value)]
      OBVIOUS
<1>3. /\ breachCounts' = [id \in DOMAIN breachCounts \cup ids |->
                             IF id \in ids THEN verdict[id].count ELSE breachCounts[id]]
      /\ \E firing \in SetToSeqs({id \in ids : verdict[id].alert}) :
            alerts' = alerts \o [k \in DOMAIN firing |-> Alert(firing[k], c.value)]
      BY <1>1, <1>2 DEF ProcessMetric
<1>4. \A id \in DOMAIN rules : id \in ids <=> IsSample(c, rules[id])
      BY <1>1 DEF IsSample
<1>5. ASSUME NEW id \in ids
      PROVE  /\ verdict[id].count = IF c.value >= rules[id].threshold
                                      THEN Least(CountIn(breachCounts, id) + 1, rules[id].breaches)
                                      ELSE 0
             /\ verdict[id].alert <=> Firing(c, rules[id], CountIn(breachCounts, id))
  <2>1. id \in DOMAIN rules
        BY <1>1
  <2>2. PICK k \in 1 .. n : RuleOK(log, n, id, rules, breachCounts, k)
        BY <2>1 DEF RulesOK
  <2>3. PICK rule : rule = rules[id]
        OBVIOUS
  <2>4. rule.id = id
        BY <2>2, <2>3, RuleFacts
  <2>5. PICK b \in Nat : b = rule.breaches
        BY <2>2, <2>3, RuleFacts
  <2>6. PICK q \in Nat : q = CountIn(breachCounts, id)
    <3>1. PICK e \in Nat : CountIn(breachCounts, id) = Least(e, rules[id].breaches)
          BY <2>2, RuleFacts
    <3>2. Least(e, b) \in Nat
          BY DEF Least
    <3> QED BY <2>3, <2>5, <3>1, <3>2
  <2>7. CountOf(rule.id) = q
        BY <2>4, <2>6 DEF CountOf, CountIn
  <2>8. verdict[id] = Breaches(rule, c.value)
        BY <1>2, <2>3
  <2>9. Min({q + 1, b}) = Least(q + 1, b)
    <3>1. q + 1 \in Int /\ b \in Int
          OBVIOUS
    <3> QED BY <3>1, LeastOfTwo
  <2>10. CASE c.value >= rule.threshold
    <3>1. verdict[id] = [count |-> Min({q + 1, b}), alert |-> q + 1 = b]
          BY <2>5, <2>7, <2>8, <2>10 DEF Breaches
    <3>2. verdict[id].count = Least(q + 1, b)
          BY <2>9, <3>1
    <3>3. verdict[id].alert <=> q + 1 = b
      <4>1. PICK yes \in BOOLEAN : yes = (q + 1 = b)
            OBVIOUS
      <4>2. verdict[id] = [count |-> Min({q + 1, b}), alert |-> yes]
            BY <3>1, <4>1
      <4>3. verdict[id].alert = yes
            BY <4>2
      <4> QED BY <4>1, <4>3
    <3>4. IsSample(c, rule)
          BY <1>4, <2>1, <2>3
    <3>5. verdict[id].alert <=> Firing(c, rule, q)
          BY <2>5, <2>10, <3>3, <3>4 DEF Firing
    <3> QED BY <2>3, <2>5, <2>6, <2>10, <3>2, <3>5
  <2>11. CASE ~(c.value >= rule.threshold)
    <3>1. verdict[id] = [count |-> 0, alert |-> FALSE]
          BY <2>8, <2>11 DEF Breaches
    <3>2. verdict[id].count = 0
          BY <3>1
    <3>3. ~verdict[id].alert
          BY <3>1
    <3>4. ~Firing(c, rule, q)
          BY <2>11 DEF Firing
    <3> QED BY <2>3, <2>6, <2>11, <3>2, <3>3, <3>4
  <2> QED BY <2>10, <2>11
<1>6. ASSUME NEW id \in DOMAIN rules
      PROVE  CountIn(breachCounts', id) =
                  IF ~IsSample(c, rules[id]) THEN CountIn(breachCounts, id)
                  ELSE IF c.value >= rules[id].threshold
                    THEN Least(CountIn(breachCounts, id) + 1, rules[id].breaches)
                  ELSE 0
  <2>1. CASE id \in ids
    <3>1. CountIn(breachCounts', id) = verdict[id].count
          BY <1>3, <2>1 DEF CountIn
    <3> QED BY <1>4, <1>5, <2>1, <3>1
  <2>2. CASE id \notin ids
    <3>1. CountIn(breachCounts', id) = CountIn(breachCounts, id)
          BY <1>3, <2>2 DEF CountIn
    <3> QED BY <1>4, <2>2, <3>1
  <2> QED BY <2>1, <2>2
<1>7. {id \in ids : verdict[id].alert} =
      {id \in DOMAIN rules : Firing(c, rules[id], CountIn(breachCounts, id))}
  <2>1. ASSUME NEW id \in DOMAIN rules, Firing(c, rules[id], CountIn(breachCounts, id)) PROVE id \in ids
        BY <1>4, <2>1 DEF Firing
  <2>2. ids \subseteq DOMAIN rules
        BY <1>1
  <2> QED BY <1>5, <2>1, <2>2
<1> QED BY <1>3, <1>6, <1>7

\* flush sets off the alerts of what it processes.
LEMMA FlushKeepsAlerts ==
    ASSUME EnvelopesInv, AlertsInv, FlushProcess
    PROVE  AlertsInv'
<1>1. PICK c : c = pool[flushed]
      OBVIOUS
<1>2. /\ c.kind # "rule" /\ (c.kind # "metric" => c.kind = "span")
  <2>1. flushed \in DOMAIN pool
        BY OwnedParts DEF FlushProcess
  <2>2. c \in Telemetry
        BY <1>1, <2>1 DEF EnvelopesInv
  <2> QED BY <2>2, ObservabilityAssumption
<1>3. /\ log' = Append(log, c) /\ rules' = rules
      /\ IF c.kind = "metric" THEN ProcessMetric(c) ELSE ProcessSpan(c)
      BY <1>1 DEF FlushProcess
<1>4. IsSequence(log)
      BY DEF EnvelopesInv
<1>5. PICK n \in Nat : n = Len(log)
      BY <1>4, SequenceFacts
<1>6. PICK lg2 : lg2 = log'
      OBVIOUS
<1>7. PICK m : m = n + 1
      OBVIOUS
<1>8. Grown(lg2, log, n, c) /\ Len(lg2) = m
      BY <1>3, <1>4, <1>5, <1>6, <1>7, LogGrows
<1>9. /\ LogRules(log, n) /\ RulesOK(log, n, rules, breachCounts) /\ AlertsOK(alerts, log, n)
      BY <1>5 DEF AlertsInv
<1>10. \A id : CompletesAt(lg2, id, m) <=>
                  id \in DOMAIN rules /\ Firing(c, rules[id], CountIn(breachCounts, id))
      BY <1>7, <1>8, <1>9, CompletesNow
<1>11. CASE c.kind # "metric"
  <2>1. breachCounts' = breachCounts /\ alerts' = alerts
        BY <1>3, <1>11 DEF ProcessSpan
  <2>2. \A r : ~IsSample(c, r)
        BY <1>11 DEF IsSample
  <2>3. LogRules(lg2, m) /\ RulesOK(lg2, m, rules, breachCounts)
        BY <1>2, <1>7, <1>8, <1>9, <2>2, ProcessKeepsRules
  <2>4. \A id : ~CompletesAt(lg2, id, m)
        BY <1>10, <2>2 DEF Firing
  <2>5. AlertsOK(alerts, lg2, m)
        BY <1>7, <1>8, <1>9, <2>4, AlertsSame
  <2> QED BY <1>3, <1>6, <1>8, <2>1, <2>3, <2>5 DEF AlertsInv
<1>12. CASE c.kind = "metric"
  <2>1. ProcessMetric(c)
        BY <1>3, <1>12
  <2>2. \A id \in DOMAIN rules : CountIn(breachCounts', id) =
               IF ~IsSample(c, rules[id]) THEN CountIn(breachCounts, id)
               ELSE IF c.value >= rules[id].threshold
                 THEN Least(CountIn(breachCounts, id) + 1, rules[id].breaches)
               ELSE 0
        BY <1>9, <1>12, <2>1, MetricFacts
  <2>3. PICK counts2 : counts2 = breachCounts'
        OBVIOUS
  <2>4. LogRules(lg2, m) /\ RulesOK(lg2, m, rules, counts2)
        BY <1>2, <1>7, <1>8, <1>9, <2>2, <2>3, ProcessKeepsRules
  <2>5. PICK S : S = {id \in DOMAIN rules : Firing(c, rules[id], CountIn(breachCounts, id))}
        OBVIOUS
  <2>6. PICK firing \in SetToSeqs(S) :
            alerts' = alerts \o [k \in DOMAIN firing |-> Alert(firing[k], c.value)]
        BY <1>9, <1>12, <2>1, <2>5, MetricFacts
  <2>7. IsFiniteSet(S)
    <3>1. IsFiniteSet(DOMAIN rules) /\ S \in SUBSET DOMAIN rules
          BY <1>9, <2>5 DEF RulesOK
    <3> QED BY <3>1, FS_Subset
  <2>8. PICK r \in Nat : r = Len(firing)
        BY <2>7, AllElements
  <2>9. /\ IsSequence(firing)
        /\ \A k \in 1 .. r : firing[k] \in S
        /\ \A k, l \in 1 .. r : firing[k] = firing[l] => k = l
        /\ \A x \in S : \E k \in 1 .. r : firing[k] = x
        BY <2>7, <2>8, AllElements
  <2>10. PICK t : t = [k \in 1 .. r |-> Alert(firing[k], c.value)]
        OBVIOUS
  <2>11. alerts' = alerts \o t
    <3>1. DOMAIN firing = 1 .. r
          BY <2>8, <2>9, SequenceFacts
    <3> QED BY <2>6, <2>10, <3>1
  <2>12. \A k \in 1 .. r : t[k].rule = firing[k] /\ t[k].at = m
        BY <1>5, <1>7, <2>10 DEF Alert
  <2>13. Fired(t, r, m)
    <3>1. t = [k \in 1 .. r |-> t[k]]
          BY <2>10
    <3>2. IsSequence(t) /\ Len(t) = r
          BY <3>1, FunctionSequence
    <3> QED BY <2>12, <3>2 DEF Fired
  <2>14. \A id : CompletesAt(lg2, id, m) <=> id \in S
        BY <1>10, <2>5
  <2>15. /\ \A a, b \in 1 .. r : t[a].rule = t[b].rule => a = b
         /\ \A a \in 1 .. r : CompletesAt(lg2, t[a].rule, m)
         /\ \A id : CompletesAt(lg2, id, m) => \E a \in 1 .. r : t[a].rule = id
        BY <2>9, <2>12, <2>14
  <2>16. AlertsOK(alerts \o t, lg2, m)
        BY <1>7, <1>8, <1>9, <2>13, <2>15, AlertsMore
  <2> QED BY <1>3, <1>6, <1>8, <2>3, <2>4, <2>11, <2>16 DEF AlertsInv
<1> QED BY <1>11, <1>12

\* No other step touches the log, the rules or the alerts.
LEMMA StepKeepsAlerts == EnvelopesInv /\ AlertsInv /\ [Next]_vars => AlertsInv'
<1> SUFFICES ASSUME EnvelopesInv, AlertsInv, [Next]_vars PROVE AlertsInv'
    OBVIOUS
<1>1. CASE UNCHANGED <<log, rules, breachCounts, alerts>>
      BY <1>1 DEF AlertsInv
<1>2. ASSUME NEW content \in Telemetry, MakeEnvelope(content)
      PROVE  UNCHANGED <<log, rules, breachCounts, alerts>>
      BY <1>2 DEF MakeEnvelope, viewVars
<1>3. PushEnvelope \/ DropEnvelope => UNCHANGED <<log, rules, breachCounts, alerts>>
      BY DEF PushEnvelope, DropEnvelope, viewVars
<1>4. FlushCall \/ FlushPop \/ FlushDestroy \/ FlushReturn \/ Destruct \/ DrainAndDispose =>
          UNCHANGED <<log, rules, breachCounts, alerts>>
      BY DEF FlushCall, FlushPop, FlushDestroy, FlushReturn, Destruct, DrainAndDispose, viewVars
<1>5. UNCHANGED vars => UNCHANGED <<log, rules, breachCounts, alerts>>
      BY DEF vars, viewVars
<1> QED BY <1>1, <1>2, <1>3, <1>4, <1>5, RegisterKeepsAlerts, FlushKeepsAlerts DEF Next

\* At first there are no rules and no alerts.
LEMMA InitHasAlerts == Init => AlertsInv
<1> SUFFICES ASSUME Init PROVE AlertsInv
    OBVIOUS
<1>1. log = << >> /\ alerts = << >> /\ rules = EmptyMap /\ breachCounts = EmptyMap
      BY DEF Init
<1>2. IsSequence(<< >>) /\ Len(<< >>) = 0
      BY EmptySequence
<1>3. DOMAIN rules = {} /\ Len(log) = 0 /\ Len(alerts) = 0
      BY <1>1, <1>2 DEF EmptyMap
<1>4. RulesOK(log, Len(log), rules, breachCounts)
  <2>1. IsFiniteSet({})
        BY FS_EmptySet
  <2>2. \A id : RulePlaces(log, id, Len(log) + 1) = {}
        BY <1>3 DEF RulePlaces
  <2> QED BY <1>3, <2>1, <2>2 DEF RulesOK
<1>5. AlertsOK(alerts, log, Len(log))
      BY <1>1, <1>2, <1>3 DEF AlertsOK
<1>6. LogRules(log, Len(log))
      BY <1>3 DEF LogRules
<1> QED BY <1>4, <1>5, <1>6 DEF AlertsInv

\* There is one alert for every run of breaches that reaches its rule's number,
\* and none besides, in the order of the samples: for any rules and telemetry,
\* through every registration of a rule again.  register_rule, evaluate_rules,
\* emit_alert.
THEOREM AlertsAreTheStreaks == Spec => []AlertsMatchStreaks
<1>1. Spec => []EnvelopesInv
      BY InitHasEnvelopes, StepKeepsEnvelopes, PTL DEF Spec
<1>2. Spec => []AlertsInv
      BY <1>1, InitHasAlerts, StepKeepsAlerts, PTL DEF Spec
<1>3. EnvelopesInv /\ AlertsInv => AlertsMatchStreaks
      BY AlertsGiveProperty DEF EnvelopesInv, AlertsInv
<1> QED BY <1>1, <1>2, <1>3, PTL

-----------------------------------------------------------------------------
(* The snapshots.                                                            *)

\* Of one metric: its samples in the log, and their values.
MetricPlaces(lg, name) == {k \in DOMAIN lg : lg[k].kind = "metric" /\ lg[k].name = name}
MetricIn(lg, name) == Picked(lg, MetricPlaces(lg, name))
ValuesOf(samples) == [k \in DOMAIN samples |-> samples[k].value]

IsLeast(x, S) == x \in S /\ \A y \in S : x <= y
IsGreatest(x, S) == x \in S /\ \A y \in S : y <= x

\* The accumulator of these samples.
AccumulatorOK(acc, samples, values) ==
    /\ \A k \in 1 .. Len(samples) : values[k] \in Int
    /\ \E least, greatest :
          /\ IsLeast(least, ToSet(values)) /\ IsGreatest(greatest, ToSet(values))
          /\ acc = [type |-> Head(samples).type, samples |-> Len(samples), sum |-> SumFunction(values),
                    last |-> values[Len(samples)], min |-> least, max |-> greatest]

SnapshotOK(ms, name, samples) ==
    /\ IsSequence(samples)
    /\ samples = << >> => name \notin DOMAIN ms
    /\ samples # << >> => name \in DOMAIN ms /\ AccumulatorOK(ms[name], samples, ValuesOf(samples))

MetricsOK(lg, ms) == \A name : SnapshotOK(ms, name, MetricIn(lg, name))

\* The values of the samples.
LEMMA ValuesFacts ==
    ASSUME NEW s, IsSequence(s)
    PROVE  /\ IsSequence(ValuesOf(s)) /\ Len(ValuesOf(s)) = Len(s)
           /\ \A k \in 1 .. Len(s) : ValuesOf(s)[k] = s[k].value
<1>1. PICK n \in Nat : n = Len(s) /\ DOMAIN s = 1 .. n
      BY SequenceFacts
<1>2. PICK v : v = ValuesOf(s)
      OBVIOUS
<1>3. v = [k \in 1 .. n |-> s[k].value]
      BY <1>1, <1>2 DEF ValuesOf
<1>4. v = [k \in 1 .. n |-> v[k]]
      BY <1>3
<1>5. IsSequence(v) /\ Len(v) = n
      BY <1>4, FunctionSequence
<1> QED BY <1>1, <1>2, <1>3, <1>5

\* The samples of a metric when the log grows.
LEMMA MetricGrows ==
    ASSUME NEW lg, IsSequence(lg), NEW d, NEW name
    PROVE  LET is == d.kind = "metric" /\ d.name = name
           IN  /\ IsSequence(MetricIn(lg, name))
               /\ ~is => MetricIn(Append(lg, d), name) = MetricIn(lg, name)
               /\ is => MetricIn(Append(lg, d), name) = Append(MetricIn(lg, name), d)
<1>1. PICK n \in Nat : n = Len(lg) /\ DOMAIN lg = 1 .. n
      BY SequenceFacts
<1>2. PICK t : t = Append(lg, d)
      OBVIOUS
<1>3. /\ IsSequence(t) /\ Len(t) = n + 1 /\ t[n + 1] = d
      /\ \A k \in 1 .. n : t[k] = lg[k]
      BY <1>1, <1>2, AppendFacts
<1>4. DOMAIN t = 1 .. n + 1
      BY <1>3, SequenceFacts
<1>5. PICK P : P = MetricPlaces(lg, name)
      OBVIOUS
<1>6. P \in SUBSET (1 .. n)
      BY <1>1, <1>5 DEF MetricPlaces
<1>7. \A k \in 1 .. n + 1 : k \in 1 .. n \/ k = n + 1
      OBVIOUS
<1>8. n + 1 \in 1 .. n + 1 /\ n + 1 \notin 1 .. n /\ \A k \in 1 .. n : k \in 1 .. n + 1
      OBVIOUS
<1>9. \A k \in 1 .. n : k \in MetricPlaces(t, name) <=> k \in P
      BY <1>1, <1>3, <1>4, <1>5, <1>8 DEF MetricPlaces
<1>10. n + 1 \in MetricPlaces(t, name) <=> (d.kind = "metric" /\ d.name = name)
      BY <1>3, <1>4, <1>8 DEF MetricPlaces
<1>11. MetricPlaces(t, name) \subseteq 1 .. n + 1
      BY <1>4 DEF MetricPlaces
<1>12. /\ IsSequence(Picked(lg, P))
       /\ Picked(t, P) = Picked(lg, P)
       /\ IsAppended(Picked(t, P \cup {n + 1}), Picked(lg, P), d)
  <2>1. P \in SUBSET (1 .. Len(lg))
        BY <1>1, <1>6
  <2>2. /\ IsSequence(Picked(lg, P))
        /\ Picked(t, P) = Picked(lg, P)
        /\ IsAppended(Picked(t, P \cup {Len(lg) + 1}), Picked(lg, P), d)
        BY <1>2, <2>1, PickedAppend
  <2> QED BY <1>1, <2>2
<1>13. ASSUME ~(d.kind = "metric" /\ d.name = name) PROVE MetricIn(t, name) = MetricIn(lg, name)
  <2>1. MetricPlaces(t, name) = P
        BY <1>6, <1>7, <1>9, <1>10, <1>11, <1>13
  <2> QED BY <1>5, <1>12, <2>1 DEF MetricIn
<1>14. ASSUME d.kind = "metric" /\ d.name = name PROVE MetricIn(t, name) = Append(MetricIn(lg, name), d)
  <2>1. MetricPlaces(t, name) = P \cup {n + 1}
        BY <1>6, <1>7, <1>8, <1>9, <1>10, <1>11, <1>14
  <2>2. IsAppended(MetricIn(t, name), MetricIn(lg, name), d)
        BY <1>5, <1>12, <2>1 DEF MetricIn
  <2> QED BY <2>2 DEF IsAppended
<1>15. IsSequence(MetricIn(lg, name))
      BY <1>5, <1>12 DEF MetricIn
<1> QED BY <1>2, <1>13, <1>14, <1>15

\* The sum, the least and the greatest when one value is added.
LEMMA ValuesGrow ==
    ASSUME NEW n \in Nat, NEW u, IsSequence(u), Len(u) = n, NEW x \in Int, NEW v, IsSequence(v),
           Len(v) = n + 1, v[n + 1] = x, \A k \in 1 .. n : v[k] = u[k] /\ u[k] \in Int
    PROVE  /\ SumFunction(v) = SumFunction(u) + x
           /\ ToSet(v) = ToSet(u) \cup {x}
           /\ \A y \in ToSet(u) : y \in Int
<1>1. DOMAIN u = 1 .. n /\ DOMAIN v = 1 .. n + 1
      BY SequenceFacts
<1>2. PICK S : S = 1 .. n
      OBVIOUS
<1>3. PICK T : T = 1 .. n + 1
      OBVIOUS
<1>4. PICK m : m = n + 1
      OBVIOUS
<1>5. IsFiniteSet(S) /\ IsFiniteSet(T)
  <2>1. 1 \in Int /\ n \in Int /\ n + 1 \in Int
        OBVIOUS
  <2> QED BY <1>2, <1>3, <2>1, FS_Interval
<1>6. /\ \A y \in T : y \in S \/ y = m
      /\ \A y \in S : y \in T /\ y # m
      /\ m \in T /\ m \notin S
      BY <1>2, <1>3, <1>4
<1>7. \A y \in S : u[y] \in Int
      BY <1>2
<1>8. \A y \in T : v[y] \in Int
      BY <1>2, <1>4, <1>6
<1>9. S \ {m} = T \ {m}
      BY <1>6
<1>10. SumFunctionOnSet(v, T) = SumFunctionOnSet(u, S) + (IF m \in T THEN v[m] ELSE 0)
                                                      - (IF m \in S THEN u[m] ELSE 0)
  <2>1. \A y \in S \ {m} : v[y] = u[y]
        BY <1>2
  <2>2. IsFiniteSet(S) /\ IsFiniteSet(T)
        BY <1>5
  <2> QED BY <1>7, <1>8, <1>9, <2>1, <2>2, SumChange
<1>11. SumFunctionOnSet(u, S) \in Int
      BY <1>5, <1>7, SumSplits
<1>12. SumFunctionOnSet(v, T) = SumFunctionOnSet(u, S) + x
      BY <1>4, <1>6, <1>10, <1>11
<1>13. SumFunction(v) = SumFunction(u) + x
      BY <1>1, <1>2, <1>3, <1>12 DEF SumFunction
<1>14. ToSet(v) = ToSet(u) \cup {x}
  <2>1. ToSet(u) = {u[k] : k \in S} /\ ToSet(v) = {v[k] : k \in T}
        BY <1>1, <1>2, <1>3 DEF ToSet
  <2>2. \A k \in S : v[k] = u[k]
        BY <1>2
  <2> QED BY <1>4, <1>6, <2>1, <2>2
<1>15. \A y \in ToSet(u) : y \in Int
      BY <1>1 DEF ToSet
<1> QED BY <1>13, <1>14, <1>15

\* Accumulate, of these accumulators.
AccumulateIn(ms, name, value, type) ==
    IF name \notin DOMAIN ms
      THEN [type |-> type, samples |-> 1, sum |-> value, last |-> value, min |-> value, max |-> value]
      ELSE [ms[name] EXCEPT !.samples = @ + 1, !.sum = @ + value, !.last = value,
                            !.min = Min({@, value}), !.max = Max({@, value})]

\* The greater of two numbers.
LEMMA GreatestOfTwo ==
    ASSUME NEW a \in Int, NEW b \in Int
    PROVE  Max({a, b}) = IF a >= b THEN a ELSE b
<1>1. PICK x : x = IF a >= b THEN a ELSE b
      OBVIOUS
<1>2. {a, b} \in SUBSET Int /\ x \in {a, b} /\ \A y \in {a, b} : y <= x
      BY <1>1
<1>3. Max({a, b}) = x
      BY <1>2, MaxIsGreatest
<1> QED BY <1>1, <1>3

\* The accumulator of the first sample.
LEMMA FirstSample ==
    ASSUME NEW c, c.value \in Int, NEW t, t = Append(<< >>, c)
    PROVE  AccumulatorOK([type |-> c.type, samples |-> 1, sum |-> c.value, last |-> c.value,
                          min |-> c.value, max |-> c.value], t, ValuesOf(t))
<1>1. PICK s : s = << >>
      OBVIOUS
<1>2. IsSequence(s) /\ Len(s) = 0 /\ DOMAIN s = {}
      BY <1>1, EmptySequence
<1>3. IsSequence(t) /\ Len(t) = 1 /\ t[1] = c
  <2>1. t = Append(s, c)
        BY <1>1
  <2>2. /\ IsSequence(Append(s, c)) /\ Len(Append(s, c)) = Len(s) + 1
        /\ Append(s, c)[Len(s) + 1] = c
        BY <1>2, AppendFacts
  <2> QED BY <1>2, <2>1, <2>2
<1>4. PICK v : v = ValuesOf(t)
      OBVIOUS
<1>5. IsSequence(v) /\ Len(v) = 1 /\ v[1] = c.value
      BY <1>3, <1>4, ValuesFacts
<1>6. PICK x \in Int : x = c.value
      OBVIOUS
<1>7. SumFunction(v) = SumFunction(s) + x /\ ToSet(v) = ToSet(s) \cup {x}
  <2>1. PICK n \in Nat : n = 0
        OBVIOUS
  <2>2. Len(s) = n /\ Len(v) = n + 1 /\ v[n + 1] = x
        BY <1>2, <1>5, <1>6, <2>1
  <2>3. \A k \in 1 .. n : v[k] = s[k] /\ s[k] \in Int
        BY <2>1
  <2> QED BY <1>2, <1>5, <2>2, <2>3, ValuesGrow
<1>8. SumFunction(s) = 0
  <2>1. IsFiniteSet({}) /\ \A y \in {} : s[y] \in Int
        BY FS_EmptySet
  <2>2. SumFunctionOnSet(s, {}) = 0
        BY <2>1, SumSplits
  <2> QED BY <1>2, <2>2 DEF SumFunction
<1>9. ToSet(v) = {x}
  <2>1. ToSet(s) = {}
        BY <1>2 DEF ToSet
  <2> QED BY <1>7, <2>1
<1>10. IsLeast(x, ToSet(v)) /\ IsGreatest(x, ToSet(v))
      BY <1>9 DEF IsLeast, IsGreatest
<1>11. t # << >>
      BY <1>2, <1>1, <1>3
<1>12. Head(t).type = c.type
      BY <1>3, <1>11, TailFacts
<1>13. SumFunction(v) = x
      BY <1>7, <1>8
<1>14. \A k \in 1 .. Len(t) : v[k] \in Int
      BY <1>3, <1>5
<1>15. [type |-> c.type, samples |-> 1, sum |-> c.value, last |-> c.value, min |-> c.value, max |-> c.value]
         = [type |-> Head(t).type, samples |-> Len(t), sum |-> SumFunction(v),
            last |-> v[Len(t)], min |-> x, max |-> x]
      BY <1>3, <1>5, <1>6, <1>12, <1>13
<1> QED BY <1>4, <1>10, <1>14, <1>15 DEF AccumulatorOK

\* The accumulator of one more sample.
LEMMA NextSample ==
    ASSUME NEW s, IsSequence(s), s # << >>, NEW c, c.value \in Int, NEW t, t = Append(s, c),
           NEW acc, AccumulatorOK(acc, s, ValuesOf(s))
    PROVE  AccumulatorOK([acc EXCEPT !.samples = @ + 1, !.sum = @ + c.value, !.last = c.value,
                                     !.min = Min({@, c.value}), !.max = Max({@, c.value})],
                         t, ValuesOf(t))
<1>1. PICK n \in Nat : n = Len(s)
      BY SequenceFacts
<1>2. IsSequence(t) /\ Len(t) = n + 1 /\ t[n + 1] = c /\ \A k \in 1 .. n : t[k] = s[k]
      BY <1>1, AppendFacts
<1>3. PICK u : u = ValuesOf(s)
      OBVIOUS
<1>4. PICK v : v = ValuesOf(t)
      OBVIOUS
<1>5. PICK x \in Int : x = c.value
      OBVIOUS
<1>6. IsSequence(u) /\ Len(u) = n /\ \A k \in 1 .. n : u[k] = s[k].value
      BY <1>1, <1>3, ValuesFacts
<1>7. IsSequence(v) /\ Len(v) = n + 1 /\ \A k \in 1 .. n + 1 : v[k] = t[k].value
      BY <1>2, <1>4, ValuesFacts
<1>8. n + 1 \in 1 .. n + 1 /\ \A k \in 1 .. n : k \in 1 .. n + 1
      OBVIOUS
<1>9. /\ \A k \in 1 .. n : u[k] \in Int
      /\ \E least, greatest :
          /\ IsLeast(least, ToSet(u)) /\ IsGreatest(greatest, ToSet(u))
          /\ acc = [type |-> Head(s).type, samples |-> n, sum |-> SumFunction(u),
                    last |-> u[n], min |-> least, max |-> greatest]
      BY <1>1, <1>3 DEF AccumulatorOK
<1>10. PICK least, greatest :
          /\ IsLeast(least, ToSet(u)) /\ IsGreatest(greatest, ToSet(u))
          /\ acc = [type |-> Head(s).type, samples |-> n, sum |-> SumFunction(u),
                    last |-> u[n], min |-> least, max |-> greatest]
      BY <1>9
<1>11. v[n + 1] = x /\ \A k \in 1 .. n : v[k] = u[k] /\ u[k] \in Int
      BY <1>2, <1>5, <1>6, <1>7, <1>8, <1>9
<1>12. /\ SumFunction(v) = SumFunction(u) + x
       /\ ToSet(v) = ToSet(u) \cup {x}
       /\ \A y \in ToSet(u) : y \in Int
      BY <1>6, <1>7, <1>11, ValuesGrow
<1>13. least \in Int /\ greatest \in Int
      BY <1>10, <1>12 DEF IsLeast, IsGreatest
<1>14. PICK low \in Int : low = Least(least, x)
      BY <1>13 DEF Least
<1>15. PICK high \in Int : high = IF greatest >= x THEN greatest ELSE x
      BY <1>13
<1>16. Min({least, x}) = low /\ Max({greatest, x}) = high
      BY <1>13, <1>14, <1>15, LeastOfTwo, GreatestOfTwo
<1>17. IsLeast(low, ToSet(v))
      BY <1>10, <1>12, <1>13, <1>14 DEF IsLeast, Least
<1>18. IsGreatest(high, ToSet(v))
      BY <1>10, <1>12, <1>13, <1>15 DEF IsGreatest
<1>19. Head(t) = Head(s)
  <2>1. t # << >>
        BY <1>2, EmptySequence
  <2>2. Head(t) = t[1] /\ Head(s) = s[1] /\ n >= 1
        BY <1>1, <1>2, <2>1, TailFacts
  <2> QED BY <1>2, <2>2
<1>20. [acc EXCEPT !.samples = @ + 1, !.sum = @ + c.value, !.last = c.value,
                   !.min = Min({@, c.value}), !.max = Max({@, c.value})]
         = [type |-> Head(s).type, samples |-> n + 1, sum |-> SumFunction(u) + x,
            last |-> x, min |-> Min({least, x}), max |-> Max({greatest, x})]
  <2>1. PICK type, sum, last : type = Head(s).type /\ sum = SumFunction(u) /\ last = u[n]
        OBVIOUS
  <2>2. acc = [type |-> type, samples |-> n, sum |-> sum, last |-> last, min |-> least, max |-> greatest]
        BY <1>10, <2>1
  <2>3. PICK lo, hi : lo = Min({least, x}) /\ hi = Max({greatest, x})
        OBVIOUS
  <2>4. [acc EXCEPT !.samples = n + 1, !.sum = sum + x, !.last = x, !.min = lo, !.max = hi]
          = [type |-> type, samples |-> n + 1, sum |-> sum + x, last |-> x, min |-> lo, max |-> hi]
    <3>1. PICK count, total : count = n + 1 /\ total = sum + x
          OBVIOUS
    <3>2. PICK a1 : a1 = [acc EXCEPT !.samples = count]
          OBVIOUS
    <3>3. a1 = [type |-> type, samples |-> count, sum |-> sum, last |-> last, min |-> least, max |-> greatest]
          BY <2>2, <3>2
    <3>4. PICK a2 : a2 = [a1 EXCEPT !.sum = total]
          OBVIOUS
    <3>5. a2 = [type |-> type, samples |-> count, sum |-> total, last |-> last, min |-> least, max |-> greatest]
          BY <3>3, <3>4
    <3>6. PICK a3 : a3 = [a2 EXCEPT !.last = x]
          OBVIOUS
    <3>7. a3 = [type |-> type, samples |-> count, sum |-> total, last |-> x, min |-> least, max |-> greatest]
          BY <3>5, <3>6
    <3>8. PICK a4 : a4 = [a3 EXCEPT !.min = lo]
          OBVIOUS
    <3>9. a4 = [type |-> type, samples |-> count, sum |-> total, last |-> x, min |-> lo, max |-> greatest]
          BY <3>7, <3>8
    <3>10. [a4 EXCEPT !.max = hi] =
              [type |-> type, samples |-> count, sum |-> total, last |-> x, min |-> lo, max |-> hi]
          BY <3>9
    <3>11. [acc EXCEPT !.samples = count, !.sum = total, !.last = x, !.min = lo, !.max = hi] =
              [a4 EXCEPT !.max = hi]
          BY <3>2, <3>4, <3>6, <3>8
    <3> QED BY <3>1, <3>10, <3>11
  <2>5. acc.samples = n /\ acc.sum = sum /\ acc.min = least /\ acc.max = greatest
        BY <2>2
  <2>6. Min({acc.min, c.value}) = lo /\ Max({acc.max, c.value}) = hi
        BY <1>5, <2>3, <2>5
  <2>7. acc.samples + 1 = n + 1 /\ acc.sum + c.value = sum + x
        BY <1>5, <2>5
  <2>8. [acc EXCEPT !.samples = @ + 1, !.sum = @ + c.value, !.last = c.value,
                    !.min = Min({@, c.value}), !.max = Max({@, c.value})]
          = [acc EXCEPT !.samples = n + 1, !.sum = sum + x, !.last = x, !.min = lo, !.max = hi]
        BY <1>5, <2>6, <2>7
  <2> QED BY <2>1, <2>3, <2>4, <2>8
<1>21. [type |-> Head(s).type, samples |-> n + 1, sum |-> SumFunction(u) + x,
            last |-> x, min |-> Min({least, x}), max |-> Max({greatest, x})]
         = [type |-> Head(t).type, samples |-> Len(t), sum |-> SumFunction(v),
            last |-> v[Len(t)], min |-> low, max |-> high]
      BY <1>2, <1>11, <1>12, <1>16, <1>19
<1>22. \A k \in 1 .. Len(t) : v[k] \in Int
      BY <1>2, <1>11
<1> QED BY <1>4, <1>17, <1>18, <1>20, <1>21, <1>22 DEF AccumulatorOK

\* An entry that is no sample leaves the accumulators as they are.
LEMMA MetricsSame ==
    ASSUME NEW lg, IsSequence(lg), NEW ms, MetricsOK(lg, ms), NEW c, c.kind # "metric"
    PROVE  MetricsOK(Append(lg, c), ms)
<1>1. ASSUME NEW name PROVE SnapshotOK(ms, name, MetricIn(Append(lg, c), name))
  <2>1. MetricIn(Append(lg, c), name) = MetricIn(lg, name)
        BY MetricGrows
  <2> QED BY <2>1 DEF MetricsOK
<1> QED BY <1>1 DEF MetricsOK

\* A sample goes to the accumulator of its metric.
LEMMA MetricsMore ==
    ASSUME NEW lg, IsSequence(lg), NEW ms, MetricsOK(lg, ms), NEW c, c.kind = "metric", c.value \in Int,
           NEW ms2, ms2 = With(ms, c.name, AccumulateIn(ms, c.name, c.value, c.type))
    PROVE  MetricsOK(Append(lg, c), ms2)
<1>1. PICK acc : acc = AccumulateIn(ms, c.name, c.value, c.type)
      OBVIOUS
<1>2. /\ DOMAIN ms2 = DOMAIN ms \cup {c.name} /\ ms2[c.name] = acc
      /\ \A x \in DOMAIN ms : x # c.name => ms2[x] = ms[x]
      BY <1>1 DEF With
<1>3. ASSUME NEW name PROVE SnapshotOK(ms2, name, MetricIn(Append(lg, c), name))
  <2>1. PICK s : s = MetricIn(lg, name)
        OBVIOUS
  <2>2. SnapshotOK(ms, name, s) /\ IsSequence(s)
        BY <2>1 DEF MetricsOK, SnapshotOK
  <2>3. PICK t : t = MetricIn(Append(lg, c), name)
        OBVIOUS
  <2>4. CASE name # c.name
    <3>1. t = s
          BY <2>1, <2>3, <2>4, MetricGrows
    <3>2. name \in DOMAIN ms2 <=> name \in DOMAIN ms
          BY <1>2, <2>4
    <3>3. name \in DOMAIN ms => ms2[name] = ms[name]
          BY <1>2, <2>4
    <3>4. SnapshotOK(ms2, name, s)
          BY <2>2, <3>2, <3>3 DEF SnapshotOK
    <3> QED BY <2>3, <3>1, <3>4
  <2>5. CASE name = c.name
    <3>1. t = Append(s, c)
          BY <2>1, <2>3, <2>5, MetricGrows
    <3>2. IsSequence(t) /\ Len(t) = Len(s) + 1 /\ Len(s) \in Nat
          BY <2>2, <3>1, AppendFacts, SequenceFacts
    <3>3. t # << >>
          BY <3>2, EmptySequence
    <3>4. AccumulatorOK(acc, t, ValuesOf(t))
      <4>1. CASE s = << >>
        <5>1. acc = [type |-> c.type, samples |-> 1, sum |-> c.value, last |-> c.value,
                     min |-> c.value, max |-> c.value]
              BY <1>1, <2>2, <2>5, <4>1 DEF SnapshotOK, AccumulateIn
        <5>2. t = Append(<< >>, c)
              BY <3>1, <4>1
        <5> QED BY <5>1, <5>2, FirstSample
      <4>2. CASE s # << >>
        <5>1. PICK old : old = ms[name]
              OBVIOUS
        <5>2. name \in DOMAIN ms /\ AccumulatorOK(old, s, ValuesOf(s))
              BY <2>2, <4>2, <5>1 DEF SnapshotOK
        <5>3. acc = [old EXCEPT !.samples = @ + 1, !.sum = @ + c.value, !.last = c.value,
                                !.min = Min({@, c.value}), !.max = Max({@, c.value})]
              BY <1>1, <2>5, <5>1, <5>2 DEF AccumulateIn
        <5> QED BY <2>2, <3>1, <4>2, <5>2, <5>3, NextSample
      <4> QED BY <4>1, <4>2
    <3> QED BY <1>2, <2>3, <2>5, <3>2, <3>3, <3>4 DEF SnapshotOK
  <2> QED BY <2>4, <2>5
<1> QED BY <1>3 DEF MetricsOK

\* metric_snapshot returns what these samples come to.
SnapshotOf(name, samples) ==
    LET values == [k \in DOMAIN samples |-> samples[k].value]
    IN  MetricSnapshot(name) =
           IF samples = << >> THEN NoSnapshot
           ELSE [type |-> Head(samples).type, samples |-> Len(samples),
                 sum |-> SumFunction(values), last |-> Last(values),
                 min |-> Min(ToSet(values)), max |-> Max(ToSet(values))]

\* What metric_snapshot returns, from the accumulators.
LEMMA SnapshotsGive ==
    ASSUME MetricsOK(log, metrics), NEW name
    PROVE  SnapshotOf(name, MetricIn(log, name))
<1>1. PICK samples : samples = MetricIn(log, name)
      OBVIOUS
<1>3. PICK values : values = [k \in DOMAIN samples |-> samples[k].value]
      OBVIOUS
<1>4. values = ValuesOf(samples)
      BY <1>3 DEF ValuesOf
<1>5. SnapshotOK(metrics, name, samples)
      BY <1>1 DEF MetricsOK
<1>6. CASE samples = << >>
      BY <1>1, <1>5, <1>6 DEF SnapshotOK, SnapshotOf, MetricSnapshot
<1>7. CASE samples # << >>
  <2>1. name \in DOMAIN metrics /\ AccumulatorOK(metrics[name], samples, values) /\ IsSequence(samples)
        BY <1>4, <1>5, <1>7 DEF SnapshotOK
  <2>2. PICK least, greatest :
          /\ IsLeast(least, ToSet(values)) /\ IsGreatest(greatest, ToSet(values))
          /\ metrics[name] = [type |-> Head(samples).type, samples |-> Len(samples), sum |-> SumFunction(values),
                    last |-> values[Len(samples)], min |-> least, max |-> greatest]
        BY <2>1 DEF AccumulatorOK
  <2>3. IsSequence(values) /\ Len(values) = Len(samples)
        BY <1>4, <2>1, ValuesFacts
  <2>4. \A k \in 1 .. Len(samples) : values[k] \in Int
        BY <2>1 DEF AccumulatorOK
  <2>5. DOMAIN values = 1 .. Len(samples)
        BY <2>3, SequenceFacts
  <2>6. PICK S : S = ToSet(values)
        OBVIOUS
  <2>7. S \in SUBSET Int
        BY <2>4, <2>5, <2>6 DEF ToSet
  <2>8. greatest \in S /\ (\A y \in S : y <= greatest) /\ least \in S /\ \A y \in S : least <= y
        BY <2>2, <2>6 DEF IsLeast, IsGreatest
  <2>9. Max(S) = greatest
        BY <2>7, <2>8, MaxIsGreatest
  <2>10. Min(S) = least
    <3>1. PICK z : z = Min(S)
          OBVIOUS
    <3>2. z \in S /\ \A y \in S : z <= y
          BY <2>8, <3>1 DEF Min
    <3>3. z <= least /\ least <= z /\ z \in Int /\ least \in Int
          BY <2>7, <2>8, <3>2
    <3> QED BY <3>1, <3>3
  <2>11. MetricSnapshot(name) = metrics[name]
        BY <2>1 DEF MetricSnapshot
  <2>12. Last(values) = values[Len(samples)]
        BY <2>3 DEF Last
  <2>13. MetricSnapshot(name) = [type |-> Head(samples).type, samples |-> Len(samples),
                        sum |-> SumFunction(values), last |-> Last(values),
                        min |-> Min(ToSet(values)), max |-> Max(ToSet(values))]
        BY <2>2, <2>6, <2>9, <2>10, <2>11, <2>12
  <2> QED BY <1>1, <1>3, <1>7, <2>13 DEF SnapshotOf
<1> QED BY <1>6, <1>7

-----------------------------------------------------------------------------
(* Flattening.                                                               *)

\* f joins the first i of these sequences, for each i.
Flattens(f, ss, n) ==
    f = [i \in 1 .. n |-> IF i = 1 THEN ss[i] ELSE f[i - 1] \o ss[i]]

\* There is such a function.
LEMMA FlattenerExists ==
    ASSUME NEW ss, NEW n \in Nat
    PROVE  \E f : Flattens(f, ss, n)
<1> DEFINE N == {m \in Nat : ~(\E f : Flattens(f, ss, m))}
<1>1. SUFFICES ASSUME N # {} PROVE FALSE
      OBVIOUS
<1>2. PICK m \in N : \A y \in N : m <= y
      BY <1>1, LeastNumber
<1>3. m \in Nat /\ ~(\E f : Flattens(f, ss, m))
      OBVIOUS
<1>4. CASE m = 0
  <2>1. PICK f : f = [i \in 1 .. 0 |-> ss]
        OBVIOUS
  <2>2. Flattens(f, ss, 0)
        BY <2>1 DEF Flattens
  <2> QED BY <1>3, <1>4, <2>2
<1>5. CASE m # 0
  <2>1. PICK l \in Nat : l = m - 1
        BY <1>3, <1>5
  <2>2. PICK f : Flattens(f, ss, l)
    <3>1. l \notin N
          BY <1>2, <1>3, <2>1
    <3> QED BY <3>1
  <2>3. PICK g : g = [i \in 1 .. m |-> IF i = 1 THEN ss[i]
                                       ELSE IF i = m THEN f[l] \o ss[m] ELSE f[i]]
        OBVIOUS
  <2>4. ASSUME NEW i \in 1 .. m PROVE g[i] = IF i = 1 THEN ss[i] ELSE g[i - 1] \o ss[i]
    <3>1. CASE i = 1
          BY <2>3, <3>1
    <3>2. CASE i # 1
      <4>1. i - 1 \in 1 .. l /\ i - 1 \in 1 .. m /\ i - 1 # m /\ i \in Nat
            BY <1>3, <2>1, <3>2
      <4>2. f[i - 1] = g[i - 1]
        <5>1. CASE i - 1 = 1
              BY <2>2, <2>3, <4>1, <5>1 DEF Flattens
        <5>2. CASE i - 1 # 1
              BY <2>3, <4>1, <5>2
        <5> QED BY <5>1, <5>2
      <4>3. CASE i = m
        <5>1. i - 1 = l
              BY <2>1, <4>3
        <5> QED BY <2>3, <3>2, <4>2, <4>3, <5>1
      <4>4. CASE i # m
        <5>1. i \in 1 .. l
              BY <1>3, <2>1, <4>1, <4>4
        <5>2. f[i] = f[i - 1] \o ss[i]
              BY <2>2, <3>2, <5>1 DEF Flattens
        <5>3. g[i] = f[i]
              BY <2>3, <3>2, <4>4
        <5> QED BY <3>2, <4>2, <5>2, <5>3
      <4> QED BY <4>3, <4>4
    <3> QED BY <3>1, <3>2
  <2>5. g = [i \in 1 .. m |-> IF i = 1 THEN ss[i] ELSE g[i - 1] \o ss[i]]
        BY <2>3, <2>4
  <2> QED BY <1>3, <2>5 DEF Flattens
<1> QED BY <1>4, <1>5

\* FlattenSeq takes the last value of such a function.
LEMMA FlattenIsLast ==
    ASSUME NEW ss, IsSequence(ss), NEW n \in Nat, n = Len(ss), n # 0
    PROVE  \E f : Flattens(f, ss, n) /\ FlattenSeq(ss) = f[n]
<1>1. PICK g : Flattens(g, ss, n)
      BY FlattenerExists
<1>2. PICK k : k = CHOOSE f : Flattens(f, ss, n)
      OBVIOUS
<1>3. Flattens(k, ss, n)
      BY <1>1, <1>2, Zenon
<1>4. FlattenSeq(ss) = k[n]
      BY <1>2 DEF FlattenSeq, Flattens
<1> QED BY <1>3, <1>4

\* What it has joined so far depends on the sequences so far.
LEMMA FlattenPrefix ==
    ASSUME NEW ss, NEW n \in Nat, NEW f, Flattens(f, ss, n), \A k \in 1 .. n : IsSequence(ss[k]),
           NEW tt, NEW m \in Nat, NEW g, Flattens(g, tt, m), n <= m, \A k \in 1 .. n : tt[k] = ss[k]
    PROVE  \A k \in 1 .. n : f[k] = g[k] /\ IsSequence(f[k])
<1> DEFINE N == {k \in Nat : k \in 1 .. n /\ ~(f[k] = g[k] /\ IsSequence(f[k]))}
<1>1. SUFFICES ASSUME N # {} PROVE FALSE
  <2>1. ASSUME NEW k \in 1 .. n, ~(f[k] = g[k] /\ IsSequence(f[k])) PROVE k \in N
        BY <2>1
  <2> QED BY <2>1
<1>2. PICK k \in N : \A y \in N : k <= y
      BY <1>1, LeastNumber
<1>3. k \in Nat /\ k \in 1 .. n /\ k \in 1 .. m
      OBVIOUS
<1>4. f[k] = IF k = 1 THEN ss[k] ELSE f[k - 1] \o ss[k]
      BY <1>3 DEF Flattens
<1>5. g[k] = IF k = 1 THEN tt[k] ELSE g[k - 1] \o tt[k]
      BY <1>3 DEF Flattens
<1>6. tt[k] = ss[k] /\ IsSequence(ss[k])
      BY <1>3
<1>7. k # 1
      BY <1>2, <1>4, <1>5, <1>6
<1>8. k - 1 \in Nat /\ k - 1 \in 1 .. n /\ k - 1 \notin N
      BY <1>2, <1>3, <1>7
<1>9. f[k - 1] = g[k - 1] /\ IsSequence(f[k - 1])
      BY <1>8
<1>10. f[k] = g[k]
      BY <1>4, <1>5, <1>6, <1>7, <1>9
<1>11. IsSequence(f[k - 1] \o ss[k])
      BY <1>6, <1>9, ConcatFacts
<1> QED BY <1>2, <1>4, <1>7, <1>10, <1>11

\* Nothing flattened is nothing.
LEMMA FlattenNone == FlattenSeq(<< >>) = << >>
  BY EmptySequence DEF FlattenSeq

\* One more sequence goes to the end.
LEMMA FlattenMore ==
    ASSUME NEW ss, IsSequence(ss), \A k \in 1 .. Len(ss) : IsSequence(ss[k]),
           NEW t, IsSequence(t), NEW tt, tt = Append(ss, t)
    PROVE  /\ FlattenSeq(tt) = FlattenSeq(ss) \o t
           /\ IsSequence(FlattenSeq(ss))
<1>1. PICK n \in Nat : n = Len(ss)
      BY SequenceFacts
<1>2. PICK m \in Nat : m = n + 1
      OBVIOUS
<1>3. IsSequence(tt) /\ Len(tt) = m /\ tt[m] = t /\ \A k \in 1 .. n : tt[k] = ss[k]
      BY <1>1, <1>2, AppendFacts
<1>4. m # 0 /\ m = Len(tt) /\ n <= m /\ m \in 1 .. m
      BY <1>2, <1>3
<1>5. PICK g : Flattens(g, tt, m) /\ FlattenSeq(tt) = g[m]
      BY <1>3, <1>4, FlattenIsLast
<1>6. g[m] = IF m = 1 THEN tt[m] ELSE g[m - 1] \o tt[m]
      BY <1>4, <1>5 DEF Flattens
<1>7. CASE n = 0
  <2>1. ss = << >>
    <3>1. PICK none : none = << >>
          OBVIOUS
    <3>2. IsSequence(none) /\ Len(ss) = Len(none) /\ \A k \in 1 .. Len(ss) : ss[k] = none[k]
          BY <1>1, <1>7, <3>1, EmptySequence
    <3>3. ss = none
          BY <3>2, SequencesEqual
    <3> QED BY <3>1, <3>3
  <2>2. FlattenSeq(tt) = t
        BY <1>2, <1>3, <1>5, <1>6, <1>7
  <2>3. FlattenSeq(ss) = << >>
        BY <2>1, FlattenNone
  <2> QED BY <2>2, <2>3, ConcatEmpty, EmptySequence
<1>8. CASE n # 0
  <2>1. PICK f : Flattens(f, ss, n) /\ FlattenSeq(ss) = f[n]
        BY <1>1, <1>8, FlattenIsLast
  <2>2. \A k \in 1 .. n : IsSequence(ss[k])
        BY <1>1
  <2>3. \A k \in 1 .. n : f[k] = g[k] /\ IsSequence(f[k])
        BY <1>3, <1>4, <1>5, <2>1, <2>2, FlattenPrefix
  <2>4. n \in 1 .. n /\ m - 1 = n /\ m # 1
        BY <1>2, <1>8
  <2> QED BY <1>3, <1>5, <1>6, <2>1, <2>3, <2>4
<1> QED BY <1>7, <1>8

-----------------------------------------------------------------------------
(* The history.                                                              *)

\* h is the end of r, complete up to the limit.
IsEnd(h, r, limit) ==
    /\ IsSequence(h) /\ IsSequence(r)
    /\ Len(h) <= limit /\ Len(h) <= Len(r)
    /\ Len(h) = limit \/ Len(h) = Len(r)
    /\ \A k \in 1 .. Len(h) : h[k] = r[(Len(r) - Len(h)) + k]

\* The end of a sequence from a place on.
LEMMA SubSeqFacts ==
    ASSUME NEW s, IsSequence(s), NEW a \in Nat, a >= 1, a <= Len(s) + 1
    PROVE  /\ IsSequence(SubSeq(s, a, Len(s)))
           /\ Len(SubSeq(s, a, Len(s))) = (Len(s) - a) + 1
           /\ \A k \in 1 .. ((Len(s) - a) + 1) : SubSeq(s, a, Len(s))[k] = s[(a + k) - 1]
<1>1. PICK n \in Nat : n = Len(s)
      BY SequenceFacts
<1>2. PICK T : s \in Seq(T)
      BY DEF IsSequence
<1>3. a \in Int /\ n \in Int /\ \A i \in a .. n : s[i] \in T
      BY <1>1, <1>2
<1>4. PICK t : t = SubSeq(s, a, n)
      OBVIOUS
<1>5. /\ t \in Seq(T) /\ Len(t) = (IF a <= n THEN n - a + 1 ELSE 0)
      /\ \A i \in 1 .. n - a + 1 : t[i] = s[a + i - 1]
      BY <1>3, <1>4, SubSeqProperties
<1>6. IsSequence(t)
      BY <1>5 DEF IsSequence
<1>7. Len(t) = (n - a) + 1
      BY <1>1, <1>5
<1>8. \A k \in 1 .. ((n - a) + 1) : t[k] = s[(a + k) - 1]
  <2>1. ASSUME NEW k \in 1 .. ((n - a) + 1) PROVE k \in 1 .. n - a + 1 /\ a + k - 1 = (a + k) - 1
        OBVIOUS
  <2> QED BY <1>5, <2>1
<1> QED BY <1>1, <1>4, <1>6, <1>7, <1>8

\* Recording keeps the history the end of what was recorded.
LEMMA RecordKeepsEnd ==
    ASSUME NEW limit \in Nat \ {0}, NEW h, NEW r, IsEnd(h, r, limit), NEW e, IsSequence(e),
           NEW all, all = h \o e, NEW h2, h2 = SubSeq(all, Max({1, Len(all) - limit + 1}), Len(all))
    PROVE  IsEnd(h2, r \o e, limit)
<1>1. IsSequence(h) /\ IsSequence(r)
      BY DEF IsEnd
<1>2. PICK a \in Nat : a = Len(h)
      BY <1>1, SequenceFacts
<1>3. PICK b \in Nat : b = Len(e)
      BY SequenceFacts
<1>4. PICK d \in Nat : d = Len(r)
      BY <1>1, SequenceFacts
<1>5. a <= limit /\ a <= d /\ (a = limit \/ a = d) /\ \A k \in 1 .. a : h[k] = r[(d - a) + k]
      BY <1>2, <1>4 DEF IsEnd
<1>6. IsSequence(all) /\ Len(all) = a + b
      BY <1>1, <1>2, <1>3, ConcatFacts
<1>7. PICK r2 : r2 = r \o e
      OBVIOUS
<1>8. IsSequence(r2) /\ Len(r2) = d + b
      BY <1>1, <1>3, <1>4, <1>7, ConcatFacts
<1>9. \A i \in 1 .. (a + b) : all[i] = r2[(d - a) + i]
  <2>1. \A k \in 1 .. a : all[k] = h[k]
        BY <1>1, <1>2, ConcatFacts
  <2>2. \A k \in 1 .. b : all[a + k] = e[k]
        BY <1>1, <1>2, <1>3, ConcatFacts
  <2>3. \A k \in 1 .. d : r2[k] = r[k]
        BY <1>1, <1>4, <1>7, ConcatFacts
  <2>4. \A k \in 1 .. b : r2[d + k] = e[k]
        BY <1>1, <1>3, <1>4, <1>7, ConcatFacts
  <2>5. ASSUME NEW i \in 1 .. (a + b) PROVE all[i] = r2[(d - a) + i]
    <3>1. CASE i <= a
      <4>1. i \in 1 .. a /\ (d - a) + i \in 1 .. d
            BY <1>5, <3>1
      <4> QED BY <1>5, <2>1, <2>3, <4>1
    <3>2. CASE ~(i <= a)
      <4>1. PICK k \in 1 .. b : i = a + k
        <5>1. i - a \in 1 .. b /\ i = a + (i - a)
              BY <3>2
        <5> QED BY <5>1
      <4>2. (d - a) + i = d + k
            BY <4>1
      <4> QED BY <2>2, <2>4, <4>1, <4>2
    <3> QED BY <3>1, <3>2
  <2> QED BY <2>5
<1>10. PICK n \in Nat : n = a + b
      OBVIOUS
<1>11. PICK from \in Nat : /\ from = Max({1, n - limit + 1})
                           /\ from = IF 1 >= n - limit + 1 THEN 1 ELSE n - limit + 1
  <2>1. PICK x \in Int : x = n - limit + 1
        OBVIOUS
  <2>2. Max({1, x}) = IF 1 >= x THEN 1 ELSE x
        BY GreatestOfTwo
  <2>3. (IF 1 >= x THEN 1 ELSE x) \in Nat
        OBVIOUS
  <2> QED BY <2>1, <2>2, <2>3
<1>12. from >= 1 /\ from <= n + 1
      BY <1>11
<1>13. PICK c \in Nat : c = (n - from) + 1
      BY <1>12
<1>14. h2 = SubSeq(all, from, n)
      BY <1>6, <1>10, <1>11
<1>15. IsSequence(h2) /\ Len(h2) = c /\ \A k \in 1 .. c : h2[k] = all[(from + k) - 1]
  <2>1. Len(all) = n
        BY <1>6, <1>10
  <2>2. from <= Len(all) + 1
        BY <1>12, <2>1
  <2>3. /\ IsSequence(SubSeq(all, from, Len(all)))
        /\ Len(SubSeq(all, from, Len(all))) = (Len(all) - from) + 1
        /\ \A k \in 1 .. ((Len(all) - from) + 1) : SubSeq(all, from, Len(all))[k] = all[(from + k) - 1]
        BY <1>6, <1>12, <2>2, SubSeqFacts
  <2> QED BY <1>13, <1>14, <2>1, <2>3
<1>16. c <= limit /\ c <= d + b /\ (c = limit \/ c = d + b)
  <2>1. a <= limit /\ a <= d /\ (a = limit \/ a = d)
        BY <1>5
  <2>2. CASE 1 >= n - limit + 1
    <3>1. from = 1
          BY <1>11, <2>2
    <3>2. c = n /\ n <= limit
          BY <1>13, <2>2, <3>1
    <3> QED BY <1>10, <2>1, <3>2
  <2>3. CASE ~(1 >= n - limit + 1)
    <3>1. from = n - limit + 1
          BY <1>11, <2>3
    <3>2. c = limit /\ limit <= n
          BY <1>13, <2>3, <3>1
    <3> QED BY <1>10, <2>1, <3>2
  <2> QED BY <2>2, <2>3
<1>17. ASSUME NEW k \in 1 .. c PROVE h2[k] = r2[((d + b) - c) + k]
  <2>1. PICK i \in 1 .. (a + b) : i = (from + k) - 1
    <3>1. (from + k) - 1 \in 1 .. (a + b)
          BY <1>10, <1>12, <1>13
    <3> QED BY <3>1
  <2>2. (d - a) + i = ((d + b) - c) + k
        BY <1>10, <1>13, <2>1
  <2> QED BY <1>9, <1>15, <2>1, <2>2
<1>18. PICK z \in Nat : z = d + b
      OBVIOUS
<1>19. IsSequence(r2) /\ Len(r2) = z /\ Len(h2) = c /\ IsSequence(h2)
      BY <1>8, <1>15, <1>18
<1>20. c <= limit /\ c <= z /\ (c = limit \/ c = z) /\ \A k \in 1 .. c : h2[k] = r2[(z - c) + k]
      BY <1>16, <1>17, <1>18
<1>21. IsEnd(h2, r2, limit)
      BY <1>19, <1>20 DEF IsEnd
<1> QED BY <1>7, <1>21

\* The history as the property states it.
LEMMA EndGives ==
    ASSUME NEW limit \in Nat, NEW h, NEW r, IsEnd(h, r, limit)
    PROVE  LET n == Min({limit, Len(r)}) IN h = SubSeq(r, Len(r) - n + 1, Len(r))
<1>1. IsSequence(h) /\ IsSequence(r)
      BY DEF IsEnd
<1>2. PICK d \in Nat : d = Len(r)
      BY <1>1, SequenceFacts
<1>3. PICK a \in Nat : a = Len(h)
      BY <1>1, SequenceFacts
<1>4. a <= limit /\ a <= d /\ (a = limit \/ a = d) /\ \A k \in 1 .. a : h[k] = r[(d - a) + k]
      BY <1>2, <1>3 DEF IsEnd
<1>5. Min({limit, d}) = a
  <2>1. limit \in Int /\ d \in Int
        OBVIOUS
  <2>2. Min({limit, d}) = Least(limit, d)
        BY <2>1, LeastOfTwo
  <2> QED BY <1>4, <2>2 DEF Least
<1>6. PICK from \in Nat : from = d - a + 1
      BY <1>4
<1>7. from >= 1 /\ from <= Len(r) + 1
      BY <1>2, <1>4, <1>6
<1>8. PICK t : t = SubSeq(r, from, d)
      OBVIOUS
<1>9. IsSequence(t) /\ Len(t) = (d - from) + 1 /\ \A k \in 1 .. ((d - from) + 1) : t[k] = r[(from + k) - 1]
      BY <1>1, <1>2, <1>7, <1>8, SubSeqFacts
<1>10. (d - from) + 1 = a
      BY <1>6
<1>11. ASSUME NEW k \in 1 .. a PROVE h[k] = t[k]
  <2>1. (from + k) - 1 = (d - a) + k
        BY <1>6
  <2> QED BY <1>4, <1>9, <1>10, <2>1
<1>12. Len(t) = a
      BY <1>9, <1>10
<1>13. h = t
      BY <1>1, <1>3, <1>9, <1>11, <1>12, SequencesEqual
<1> QED BY <1>2, <1>5, <1>6, <1>8, <1>13

\* What flush recorded at each entry of a log, with these alerts.
AlertPlaces(al, j) == {i \in DOMAIN al : al[i].at = j}
AlertEntries(set) == [k \in DOMAIN set |-> AlertEntry(set[k].rule, set[k].value)]
LogBlock(lg, al, j) ==
    IF lg[j].kind = "rule" THEN << >>
    ELSE <<Entry(lg[j])>> \o AlertEntries(Picked(al, AlertPlaces(al, j)))
LogBlocks(lg, al) == [j \in DOMAIN lg |-> LogBlock(lg, al, j)]

\* Every alert is of an entry up to n.
AlertsUpTo(al, n) == IsSequence(al) /\ \A a \in 1 .. Len(al) : al[a].at \in 1 .. n

\* The entries of some alerts, as many as them.
LEMMA EntriesFacts ==
    ASSUME NEW t, IsSequence(t)
    PROVE  /\ IsSequence(AlertEntries(t)) /\ Len(AlertEntries(t)) = Len(t)
           /\ \A k \in 1 .. Len(t) : AlertEntries(t)[k] = AlertEntry(t[k].rule, t[k].value)
<1>1. PICK n \in Nat : n = Len(t) /\ DOMAIN t = 1 .. n
      BY SequenceFacts
<1>2. PICK v : v = AlertEntries(t)
      OBVIOUS
<1>3. v = [k \in 1 .. n |-> AlertEntry(t[k].rule, t[k].value)]
      BY <1>1, <1>2 DEF AlertEntries
<1>4. v = [k \in 1 .. n |-> v[k]]
      BY <1>3
<1>5. IsSequence(v) /\ Len(v) = n
      BY <1>4, FunctionSequence
<1> QED BY <1>1, <1>2, <1>3, <1>5

\* A block is a sequence.
LEMMA BlockIsSequence ==
    ASSUME NEW lg, NEW al, IsSequence(al), NEW j
    PROVE  IsSequence(LogBlock(lg, al, j))
<1>1. CASE lg[j].kind = "rule"
      BY <1>1, EmptySequence DEF LogBlock
<1>2. CASE lg[j].kind # "rule"
  <2>1. PICK n \in Nat : n = Len(al) /\ DOMAIN al = 1 .. n
        BY SequenceFacts
  <2>2. PICK P : P = AlertPlaces(al, j)
        OBVIOUS
  <2>3. P \in SUBSET (1 .. Len(al))
        BY <2>1, <2>2 DEF AlertPlaces
  <2>4. IsSequence(Picked(al, P))
    <3>1. PICK T : al \in Seq(T)
          BY DEF IsSequence
    <3>2. Picked(al, P) \in Seq(T)
          BY <2>3, <3>1, PickedType
    <3> QED BY <3>2 DEF IsSequence
  <2>5. PICK e : e = AlertEntries(Picked(al, P))
        OBVIOUS
  <2>6. IsSequence(e)
        BY <2>4, <2>5, EntriesFacts
  <2>7. PICK x : x = <<Entry(lg[j])>>
        OBVIOUS
  <2>8. IsSequence(x)
        BY <2>7, OneSequence
  <2>9. IsSequence(x \o e)
        BY <2>6, <2>8, ConcatFacts
  <2> QED BY <1>2, <2>2, <2>5, <2>7, <2>9 DEF LogBlock
<1> QED BY <1>1, <1>2

\* The alerts of an entry when later ones are added.
LEMMA AlertsOfEarlier ==
    ASSUME NEW al, NEW n \in Nat, AlertsUpTo(al, n), NEW t, NEW r \in Nat, NEW m, m = n + 1, Fired(t, r, m),
           NEW j \in 1 .. n
    PROVE  Picked(al \o t, AlertPlaces(al \o t, j)) = Picked(al, AlertPlaces(al, j))
<1>1. IsSequence(al) /\ IsSequence(t) /\ Len(t) = r
      BY DEF AlertsUpTo, Fired
<1>2. PICK a \in Nat : a = Len(al) /\ DOMAIN al = 1 .. a
      BY <1>1, SequenceFacts
<1>3. PICK al2 : al2 = al \o t
      OBVIOUS
<1>4. /\ IsSequence(al2) /\ Len(al2) = a + r
      /\ \A k \in 1 .. a : al2[k] = al[k]
      /\ \A k \in 1 .. r : al2[a + k] = t[k]
  <2>1. IsSequence(al) /\ IsSequence(t)
        BY <1>1
  <2>2. /\ IsSequence(al \o t) /\ Len(al \o t) = Len(al) + Len(t)
        /\ \A k \in 1 .. Len(al) : (al \o t)[k] = al[k]
        /\ \A k \in 1 .. Len(t) : (al \o t)[Len(al) + k] = t[k]
        BY <2>1, ConcatFacts
  <2> QED BY <1>1, <1>2, <1>3, <2>2
<1>5. DOMAIN al2 = 1 .. (a + r)
      BY <1>4, SequenceFacts
<1>6. PICK P : P = AlertPlaces(al, j)
      OBVIOUS
<1>7. P \in SUBSET (1 .. a)
      BY <1>2, <1>6 DEF AlertPlaces
<1>8. AlertPlaces(al2, j) = P
  <2>1. ASSUME NEW i \in 1 .. (a + r), al2[i].at = j PROVE i \in P
    <3>1. CASE i <= a
      <4>1. i \in 1 .. a
            BY <3>1
      <4> QED BY <1>2, <1>4, <1>6, <2>1, <4>1 DEF AlertPlaces
    <3>2. CASE ~(i <= a)
      <4>1. PICK k \in 1 .. r : i = a + k
        <5>1. i - a \in 1 .. r /\ i = a + (i - a)
              BY <3>2
        <5> QED BY <5>1
      <4>2. al2[i].at = m /\ m # j
        <5>1. al2[i] = t[k]
              BY <1>4, <4>1
        <5>2. t[k].at = m
              BY <4>1 DEF Fired
        <5>3. m # j
              OBVIOUS
        <5> QED BY <5>1, <5>2, <5>3
      <4> QED BY <2>1, <4>2
    <3> QED BY <3>1, <3>2
  <2>2. ASSUME NEW i \in P PROVE i \in 1 .. (a + r) /\ al2[i].at = j
    <3>1. i \in 1 .. a /\ al[i].at = j
          BY <1>2, <1>6 DEF AlertPlaces
    <3>2. i \in 1 .. (a + r)
          BY <3>1
    <3> QED BY <1>4, <3>1, <3>2
  <2> QED BY <1>5, <2>1, <2>2 DEF AlertPlaces
<1>9. \A i \in P : al2[i] = al[i]
      BY <1>4, <1>7
<1>10. Picked(al2, P) = Picked(al, P)
      BY <1>7, <1>9, PickedSame
<1> QED BY <1>3, <1>6, <1>8, <1>10

\* The alerts of the last entry are those just added.
LEMMA AlertsOfLast ==
    ASSUME NEW al, NEW n \in Nat, AlertsUpTo(al, n), NEW t, NEW r \in Nat, NEW m, m = n + 1, Fired(t, r, m)
    PROVE  Picked(al \o t, AlertPlaces(al \o t, m)) = t
<1>1. IsSequence(al) /\ IsSequence(t) /\ Len(t) = r
      BY DEF AlertsUpTo, Fired
<1>2. PICK a \in Nat : a = Len(al) /\ DOMAIN al = 1 .. a
      BY <1>1, SequenceFacts
<1>3. PICK al2 : al2 = al \o t
      OBVIOUS
<1>4. /\ IsSequence(al2) /\ Len(al2) = a + r
      /\ \A k \in 1 .. a : al2[k] = al[k]
      /\ \A k \in 1 .. r : al2[a + k] = t[k]
  <2>1. IsSequence(al) /\ IsSequence(t)
        BY <1>1
  <2>2. /\ IsSequence(al \o t) /\ Len(al \o t) = Len(al) + Len(t)
        /\ \A k \in 1 .. Len(al) : (al \o t)[k] = al[k]
        /\ \A k \in 1 .. Len(t) : (al \o t)[Len(al) + k] = t[k]
        BY <2>1, ConcatFacts
  <2> QED BY <1>1, <1>2, <1>3, <2>2
<1>5. DOMAIN al2 = 1 .. (a + r)
      BY <1>4, SequenceFacts
<1>6. PICK b \in Nat : b = a + r
      OBVIOUS
<1>7. AlertPlaces(al2, m) = (a + 1) .. b
  <2>1. ASSUME NEW i \in 1 .. (a + r), al2[i].at = m PROVE i \in (a + 1) .. b
    <3>1. CASE i <= a
      <4>1. i \in 1 .. a
            BY <3>1
      <4>2. al2[i].at \in 1 .. n
            BY <1>2, <1>4, <4>1 DEF AlertsUpTo
      <4> QED BY <2>1, <4>2
    <3>2. CASE ~(i <= a)
          BY <1>6, <3>2
    <3> QED BY <3>1, <3>2
  <2>2. ASSUME NEW i \in (a + 1) .. b PROVE i \in 1 .. (a + r) /\ al2[i].at = m
    <3>1. PICK k \in 1 .. r : i = a + k
      <4>1. i - a \in 1 .. r /\ i = a + (i - a)
            BY <1>6
      <4> QED BY <4>1
    <3>2. i \in 1 .. (a + r)
          BY <1>6
    <3>3. al2[i].at = m
          BY <1>4, <3>1 DEF Fired
    <3> QED BY <3>2, <3>3
  <2> QED BY <1>5, <2>1, <2>2 DEF AlertPlaces
<1>8. a <= b /\ b - a = r
      BY <1>6
<1>9. Picked(al2, (a + 1) .. b) = [k \in 1 .. r |-> al2[a + k]]
      BY <1>8, PickedInterval
<1>10. [k \in 1 .. r |-> al2[a + k]] = [k \in 1 .. r |-> t[k]]
      BY <1>4
<1>11. t = [k \in 1 .. r |-> t[k]]
      BY <1>1, SequenceFacts
<1> QED BY <1>3, <1>7, <1>9, <1>10, <1>11

\* The alerts of the entries up to n are the same.
SameUpTo(al2, al, n) ==
    \A j \in 1 .. n : Picked(al2, AlertPlaces(al2, j)) = Picked(al, AlertPlaces(al, j))

\* The blocks when the log grows.  Only the last block is new.
LEMMA BlocksGrow ==
    ASSUME NEW lg, IsSequence(lg), NEW d, NEW al, NEW al2, IsSequence(al2),
           NEW lg2, IsAppended(lg2, lg, d), SameUpTo(al2, al, Len(lg))
    PROVE  IsAppended(LogBlocks(lg2, al2), LogBlocks(lg, al), LogBlock(lg2, al2, Len(lg) + 1))
<1>1. PICK n \in Nat : n = Len(lg) /\ DOMAIN lg = 1 .. n
      BY SequenceFacts
<1>2. IsSequence(lg2) /\ Len(lg2) = n + 1 /\ \A k \in 1 .. n : lg2[k] = lg[k]
  <2>1. /\ IsSequence(Append(lg, d)) /\ Len(Append(lg, d)) = Len(lg) + 1
        /\ \A k \in 1 .. Len(lg) : Append(lg, d)[k] = lg[k]
        BY AppendFacts
  <2> QED BY <1>1, <2>1 DEF IsAppended
<1>3. DOMAIN lg2 = 1 .. n + 1
      BY <1>2, SequenceFacts
<1>4. PICK b : b = LogBlocks(lg, al)
      OBVIOUS
<1>5. PICK b2 : b2 = LogBlocks(lg2, al2)
      OBVIOUS
<1>6. b = [j \in 1 .. n |-> LogBlock(lg, al, j)] /\ b2 = [j \in 1 .. n + 1 |-> LogBlock(lg2, al2, j)]
      BY <1>1, <1>3, <1>4, <1>5 DEF LogBlocks
<1>7. IsSequence(b) /\ Len(b) = n
  <2>1. b = [j \in 1 .. n |-> b[j]]
        BY <1>6
  <2> QED BY <2>1, FunctionSequence
<1>8. PICK m \in Nat : m = n + 1
      OBVIOUS
<1>9. IsSequence(b2) /\ Len(b2) = m
  <2>1. b2 = [j \in 1 .. m |-> b2[j]]
        BY <1>6, <1>8
  <2> QED BY <2>1, FunctionSequence
<1>10. \A j \in 1 .. n : b2[j] = b[j]
  <2>1. ASSUME NEW j \in 1 .. n PROVE b2[j] = b[j]
    <3>1. j \in 1 .. n + 1
          OBVIOUS
    <3>2. b2[j] = LogBlock(lg2, al2, j) /\ b[j] = LogBlock(lg, al, j)
          BY <1>6, <3>1
    <3>3. lg2[j] = lg[j] /\ Picked(al2, AlertPlaces(al2, j)) = Picked(al, AlertPlaces(al, j))
          BY <1>1, <1>2 DEF SameUpTo
    <3> QED BY <3>2, <3>3 DEF LogBlock
  <2> QED BY <2>1
<1>11. PICK x : x = LogBlock(lg2, al2, m)
      OBVIOUS
<1>12. b2[m] = x
  <2>1. m \in 1 .. n + 1
        BY <1>8
  <2> QED BY <1>6, <1>11, <2>1
<1>13. PICK b3 : b3 = Append(b, x)
      OBVIOUS
<1>14. IsSequence(b3) /\ Len(b3) = m /\ b3[m] = x /\ \A j \in 1 .. n : b3[j] = b[j]
  <2>1. /\ IsSequence(Append(b, x)) /\ Len(Append(b, x)) = Len(b) + 1
        /\ \A k \in 1 .. Len(b) : Append(b, x)[k] = b[k]
        /\ Append(b, x)[Len(b) + 1] = x
        BY <1>7, AppendFacts
  <2> QED BY <1>7, <1>8, <1>13, <2>1
<1>15. \A j \in 1 .. m : b2[j] = b3[j]
  <2>1. ASSUME NEW j \in 1 .. m PROVE j \in 1 .. n \/ j = m
        BY <1>8
  <2> QED BY <1>10, <1>12, <1>14, <2>1
<1>16. b2 = b3
      BY <1>9, <1>14, <1>15, SequencesEqual
<1> QED BY <1>1, <1>4, <1>5, <1>8, <1>11, <1>13, <1>16 DEF IsAppended

\* So what was recorded grows by the last block.
RecordedIn(lg, al) == FlattenSeq(LogBlocks(lg, al))
IsJoined(u, s, t) == u = s \o t

\* What was recorded, when the log grows.
LEMMA RecordedGrows ==
    ASSUME NEW lg, IsSequence(lg), NEW d, NEW al, IsSequence(al), NEW al2, IsSequence(al2),
           NEW lg2, IsAppended(lg2, lg, d), SameUpTo(al2, al, Len(lg))
    PROVE  /\ IsJoined(RecordedIn(lg2, al2), RecordedIn(lg, al), LogBlock(lg2, al2, Len(lg) + 1))
           /\ IsSequence(RecordedIn(lg, al))
           /\ IsSequence(LogBlock(lg2, al2, Len(lg) + 1))
<1>1. PICK n \in Nat : n = Len(lg) /\ DOMAIN lg = 1 .. n
      BY SequenceFacts
<1>2. PICK b : b = LogBlocks(lg, al)
      OBVIOUS
<1>3. b = [j \in 1 .. n |-> LogBlock(lg, al, j)]
      BY <1>1, <1>2 DEF LogBlocks
<1>4. IsSequence(b) /\ Len(b) = n
  <2>1. b = [j \in 1 .. n |-> b[j]]
        BY <1>3
  <2> QED BY <2>1, FunctionSequence
<1>5. \A k \in 1 .. Len(b) : IsSequence(b[k])
  <2>1. \A k \in 1 .. n : b[k] = LogBlock(lg, al, k)
        BY <1>3
  <2>2. \A k : IsSequence(LogBlock(lg, al, k))
        BY BlockIsSequence
  <2> QED BY <1>4, <2>1, <2>2
<1>6. PICK x : x = LogBlock(lg2, al2, Len(lg) + 1)
      OBVIOUS
<1>7. IsSequence(x)
      BY <1>6, BlockIsSequence
<1>8. PICK b2 : b2 = LogBlocks(lg2, al2)
      OBVIOUS
<1>9. b2 = Append(b, x)
  <2>1. IsAppended(LogBlocks(lg2, al2), LogBlocks(lg, al), LogBlock(lg2, al2, Len(lg) + 1))
        BY BlocksGrow
  <2> QED BY <1>2, <1>6, <1>8, <2>1 DEF IsAppended
<1>10. FlattenSeq(b2) = FlattenSeq(b) \o x /\ IsSequence(FlattenSeq(b))
      BY <1>4, <1>5, <1>7, <1>9, FlattenMore
<1> QED BY <1>2, <1>6, <1>7, <1>8, <1>10 DEF RecordedIn, IsJoined

\* Nothing is recorded when a rule is registered.
LEMMA RecordedByRule ==
    ASSUME NEW lg, IsSequence(lg), NEW d, d.kind = "rule", NEW al, IsSequence(al), NEW lg2, lg2 = Append(lg, d)
    PROVE  RecordedIn(lg2, al) = RecordedIn(lg, al)
<1>1. PICK x : x = LogBlock(lg2, al, Len(lg) + 1)
      OBVIOUS
<1>2. RecordedIn(lg2, al) = RecordedIn(lg, al) \o x /\ IsSequence(RecordedIn(lg, al))
  <2>1. SameUpTo(al, al, Len(lg)) /\ IsAppended(lg2, lg, d)
        BY DEF SameUpTo, IsAppended
  <2>2. /\ IsJoined(RecordedIn(lg2, al), RecordedIn(lg, al), LogBlock(lg2, al, Len(lg) + 1))
        /\ IsSequence(RecordedIn(lg, al))
        BY <2>1, RecordedGrows
  <2> QED BY <1>1, <2>2 DEF IsJoined
<1>3. lg2[Len(lg) + 1] = d
      BY AppendFacts
<1>4. x = << >>
      BY <1>1, <1>3 DEF LogBlock
<1> QED BY <1>2, <1>4, ConcatEmpty

\* What is recorded of content, with the alerts it sets off.
EntriesOf(d, t) == <<Entry(d)>> \o AlertEntries(t)

\* Content adds its own entry and those of its alerts.
LEMMA RecordedByContent ==
    ASSUME NEW lg, IsSequence(lg), NEW d, d.kind # "rule", NEW n \in Nat, n = Len(lg),
           NEW al, AlertsUpTo(al, n), NEW m, m = n + 1, NEW t, NEW r \in Nat, Fired(t, r, m),
           NEW lg2, IsAppended(lg2, lg, d), NEW al2, IsJoined(al2, al, t)
    PROVE  /\ IsJoined(RecordedIn(lg2, al2), RecordedIn(lg, al), EntriesOf(d, t))
           /\ IsSequence(EntriesOf(d, t))
<1> USE DEF IsJoined, IsAppended
<1>1. IsSequence(al) /\ IsSequence(t)
      BY DEF AlertsUpTo, Fired
<1>2. IsSequence(al2)
      BY <1>1, ConcatFacts
<1>3. \A j \in 1 .. n : Picked(al2, AlertPlaces(al2, j)) = Picked(al, AlertPlaces(al, j))
      BY AlertsOfEarlier
<1>4. Picked(al2, AlertPlaces(al2, m)) = t
      BY AlertsOfLast
<1> HIDE DEF IsJoined, IsAppended
<1>5. PICK x : x = LogBlock(lg2, al2, m)
      OBVIOUS
<1>6. RecordedIn(lg2, al2) = RecordedIn(lg, al) \o x /\ IsSequence(x)
  <2>1. SameUpTo(al2, al, Len(lg)) /\ IsAppended(lg2, lg, d)
        BY <1>3 DEF SameUpTo, IsAppended
  <2>2. /\ IsJoined(RecordedIn(lg2, al2), RecordedIn(lg, al), LogBlock(lg2, al2, Len(lg) + 1))
        /\ IsSequence(LogBlock(lg2, al2, Len(lg) + 1))
        BY <1>1, <1>2, <2>1, RecordedGrows
  <2> QED BY <1>5, <2>2 DEF IsJoined
<1>7. lg2[m] = d
  <2>1. Append(lg, d)[Len(lg) + 1] = d
        BY AppendFacts
  <2> QED BY <2>1 DEF IsAppended
<1>8. x = EntriesOf(d, t)
      BY <1>4, <1>5, <1>7 DEF LogBlock, EntriesOf
<1> QED BY <1>6, <1>8 DEF IsJoined

-----------------------------------------------------------------------------
(* The views.                                                                *)

ViewsInv ==
    /\ MetricsOK(log, metrics)
    /\ IsEnd(history, RecordedIn(log, alerts), HistoryLimit)

\* The views as the property states them.
LEMMA ViewsGiveProperty ==
    ASSUME ViewsInv
    PROVE  ViewsMatchProcessed
<1>1. PICK r : r = RecordedIn(log, alerts)
      OBVIOUS
<1>2. Recorded = r
      BY <1>1 DEF Recorded, RecordedIn, LogBlocks, LogBlock, AlertPlaces, AlertEntries, Filter
<1>3. HistoryLimit \in Nat /\ IsEnd(history, r, HistoryLimit)
      BY <1>1, ObservabilityAssumption DEF ViewsInv
<1>4. LET n == Min({HistoryLimit, Len(r)}) IN history = SubSeq(r, Len(r) - n + 1, Len(r))
      BY <1>3, EndGives
<1>5. MetricsOK(log, metrics)
      BY DEF ViewsInv
<1>6. LET n == Min({HistoryLimit, Len(Recorded)})
      IN  history = SubSeq(Recorded, Len(Recorded) - n + 1, Len(Recorded))
      BY <1>2, <1>4
<1>7. ASSUME NEW name
      PROVE  LET samples == Filter(log, LAMBDA c : c.kind = "metric" /\ c.name = name)
                 values == [k \in DOMAIN samples |-> samples[k].value]
             IN  MetricSnapshot(name) =
                  IF samples = << >> THEN NoSnapshot
                  ELSE [type |-> Head(samples).type, samples |-> Len(samples),
                        sum |-> SumFunction(values), last |-> Last(values),
                        min |-> Min(ToSet(values)), max |-> Max(ToSet(values))]
  <2>1. SnapshotOf(name, MetricIn(log, name))
        BY <1>5, SnapshotsGive
  <2> QED BY <2>1 DEF SnapshotOf, MetricIn, MetricPlaces, Filter
<1> QED BY <1>6, <1>7 DEF ViewsMatchProcessed

\* register_rule touches no view.
LEMMA RegisterKeepsViews ==
    ASSUME EnvelopesInv, AlertsInv, ViewsInv, NEW rule \in AlertRules, RegisterRule(rule)
    PROVE  ViewsInv'
<1>1. PICK d : d = [kind |-> "rule", rule |-> rule]
      OBVIOUS
<1>2. log' = Append(log, d) /\ UNCHANGED <<metrics, alerts, history>>
      BY <1>1 DEF RegisterRule
<1>3. d.kind = "rule" /\ d.kind # "metric"
      BY <1>1
<1>4. IsSequence(log) /\ IsSequence(alerts)
      BY DEF EnvelopesInv, AlertsInv, AlertsOK
<1>5. PICK lg2 : lg2 = log'
      OBVIOUS
<1>6. lg2 = Append(log, d)
      BY <1>2, <1>5
<1>7. MetricsOK(lg2, metrics)
      BY <1>3, <1>4, <1>6, MetricsSame DEF ViewsInv
<1>8. RecordedIn(lg2, alerts) = RecordedIn(log, alerts)
      BY <1>3, <1>4, <1>6, RecordedByRule
<1> QED BY <1>2, <1>5, <1>7, <1>8 DEF ViewsInv

\* process_metric: the alerts and what is recorded come from the same rules.
LEMMA MetricRecords ==
    ASSUME IsFiniteSet(DOMAIN rules), NEW c, ProcessMetric(c)
    PROVE  \E firing : /\ IsSequence(firing)
                       /\ alerts' = alerts \o [k \in DOMAIN firing |-> Alert(firing[k], c.value)]
                       /\ history' = Record(<<Entry(c)>> \o
                                      [k \in DOMAIN firing |-> AlertEntry(firing[k], c.value)])
<1>1. PICK ids : ids = {id \in DOMAIN rules : rules[id].metric = c.name}
      OBVIOUS
<1>2. PICK verdict : verdict = [id \in ids |-> Breaches(rules[id], c.value)]
      OBVIOUS
<1>3. PICK S : S = {id \in ids : verdict[id].alert}
      OBVIOUS
<1>4. PICK firing \in SetToSeqs(S) :
          /\ alerts' = alerts \o [k \in DOMAIN firing |-> Alert(firing[k], c.value)]
          /\ history' = Record(<<Entry(c)>> \o
                         [k \in DOMAIN firing |-> AlertEntry(firing[k], c.value)])
      BY <1>1, <1>2, <1>3 DEF ProcessMetric
<1>5. S \in SUBSET DOMAIN rules
      BY <1>1, <1>3
<1>6. IsFiniteSet(S)
      BY <1>5, FS_Subset
<1>7. IsSequence(firing)
      BY <1>6, AllElements
<1> QED BY <1>4, <1>7

\* Record, as the lemma on the history has it.
LEMMA RecordKeepsHistory ==
    ASSUME NEW r, IsEnd(history, r, HistoryLimit), NEW e, IsSequence(e), NEW h2, h2 = Record(e)
    PROVE  IsEnd(h2, r \o e, HistoryLimit)
<1>1. PICK all : all = history \o e
      OBVIOUS
<1>2. h2 = SubSeq(all, Max({1, Len(all) - HistoryLimit + 1}), Len(all))
      BY <1>1 DEF Record
<1>3. HistoryLimit \in Nat \ {0}
      BY ObservabilityAssumption
<1> QED BY <1>1, <1>2, <1>3, RecordKeepsEnd

\* flush brings the views up to date with what it processes.
LEMMA FlushKeepsViews ==
    ASSUME EnvelopesInv, AlertsInv, ViewsInv, FlushProcess
    PROVE  ViewsInv'
<1>1. PICK c : c = pool[flushed]
      OBVIOUS
<1>2. c.kind # "rule" /\ c.value \in Int
  <2>1. flushed \in DOMAIN pool
        BY OwnedParts DEF FlushProcess
  <2>2. c \in Telemetry
        BY <1>1, <2>1 DEF EnvelopesInv
  <2> QED BY <2>2, ObservabilityAssumption
<1>3. /\ log' = Append(log, c)
      /\ IF c.kind = "metric" THEN ProcessMetric(c) ELSE ProcessSpan(c)
      BY <1>1 DEF FlushProcess
<1>4. IsSequence(log)
      BY DEF EnvelopesInv
<1>5. PICK n \in Nat : n = Len(log)
      BY <1>4, SequenceFacts
<1>6. PICK lg2 : lg2 = log'
      OBVIOUS
<1>7. lg2 = Append(log, c)
      BY <1>3, <1>6
<1>8. PICK m : m = n + 1
      OBVIOUS
<1>9. AlertsUpTo(alerts, n) /\ IsFiniteSet(DOMAIN rules) /\ IsSequence(alerts)
      BY <1>5 DEF AlertsInv, AlertsOK, AlertsUpTo, RulesOK
<1>10. PICK al2 : al2 = alerts'
      OBVIOUS
<1>11. PICK h2 : h2 = history'
      OBVIOUS
<1>12. PICK r0 : r0 = RecordedIn(log, alerts)
      OBVIOUS
<1>13. IsEnd(history, r0, HistoryLimit)
      BY <1>12 DEF ViewsInv
<1>14. CASE c.kind # "metric"
  <2>1. history' = Record(<<Entry(c)>>) /\ metrics' = metrics /\ alerts' = alerts
        BY <1>3, <1>14 DEF ProcessSpan
  <2>2. MetricsOK(lg2, metrics)
        BY <1>4, <1>7, <1>14, MetricsSame DEF ViewsInv
  <2>3. PICK t : t = << >>
        OBVIOUS
  <2>4. IsSequence(t) /\ Len(t) = 0 /\ DOMAIN t = {}
        BY <2>3, EmptySequence
  <2>5. PICK zero \in Nat : zero = 0
        OBVIOUS
  <2>6. Fired(t, zero, m)
        BY <2>4, <2>5 DEF Fired
  <2>7. alerts = alerts \o t
        BY <1>9, <2>3, ConcatEmpty
  <2>8. PICK e : e = <<Entry(c)>>
        OBVIOUS
  <2>9. IsSequence(e)
        BY <2>8, OneSequence
  <2>10. AlertEntries(t) = << >>
        BY <2>4 DEF AlertEntries
  <2>11. e \o AlertEntries(t) = e
        BY <2>9, <2>10, ConcatEmpty
  <2>12. IsJoined(RecordedIn(lg2, alerts), RecordedIn(log, alerts), EntriesOf(c, t))
    <3>1. IsAppended(lg2, log, c) /\ IsJoined(alerts, alerts, t)
          BY <1>7, <2>7 DEF IsAppended, IsJoined
    <3> QED BY <1>2, <1>4, <1>5, <1>8, <1>9, <2>6, <3>1, RecordedByContent
  <2>13. RecordedIn(lg2, alerts) = r0 \o e
        BY <1>12, <2>8, <2>11, <2>12 DEF IsJoined, EntriesOf
  <2>14. h2 = Record(e)
        BY <1>11, <2>1, <2>8
  <2>15. IsEnd(h2, r0 \o e, HistoryLimit)
        BY <1>13, <2>9, <2>14, RecordKeepsHistory
  <2>16. IsEnd(h2, RecordedIn(lg2, alerts), HistoryLimit)
        BY <2>13, <2>15
  <2> QED BY <1>6, <1>11, <2>1, <2>2, <2>16 DEF ViewsInv
<1>15. CASE c.kind = "metric"
  <2>1. ProcessMetric(c)
        BY <1>3, <1>15
  <2>2. PICK ms2 : ms2 = metrics'
        OBVIOUS
  <2>3. ms2 = With(metrics, c.name, AccumulateIn(metrics, c.name, c.value, c.type))
        BY <2>1, <2>2 DEF ProcessMetric, Accumulate, AccumulateIn
  <2>4. MetricsOK(lg2, ms2)
        BY <1>2, <1>4, <1>7, <1>15, <2>3, MetricsMore DEF ViewsInv
  <2>5. PICK firing : /\ IsSequence(firing)
                      /\ alerts' = alerts \o [k \in DOMAIN firing |-> Alert(firing[k], c.value)]
                      /\ history' = Record(<<Entry(c)>> \o
                                     [k \in DOMAIN firing |-> AlertEntry(firing[k], c.value)])
        BY <1>9, <2>1, MetricRecords
  <2>6. PICK r \in Nat : r = Len(firing) /\ DOMAIN firing = 1 .. r
        BY <2>5, SequenceFacts
  <2>7. PICK t : t = [k \in 1 .. r |-> Alert(firing[k], c.value)]
        OBVIOUS
  <2>8. /\ \A k \in 1 .. r : t[k].at = m /\ t[k].rule = firing[k] /\ t[k].value = c.value
        BY <1>5, <1>8, <2>7 DEF Alert
  <2>9. Fired(t, r, m) /\ DOMAIN t = 1 .. r
    <3>1. t = [k \in 1 .. r |-> t[k]]
          BY <2>7
    <3>2. IsSequence(t) /\ Len(t) = r
          BY <3>1, FunctionSequence
    <3> QED BY <2>7, <2>8, <3>2 DEF Fired
  <2>10. AlertEntries(t) = [k \in DOMAIN firing |-> AlertEntry(firing[k], c.value)]
        BY <2>6, <2>8, <2>9 DEF AlertEntries
  <2>11. PICK e : e = <<Entry(c)>> \o AlertEntries(t)
        OBVIOUS
  <2>12. al2 = alerts \o t
        BY <1>10, <2>5, <2>6, <2>7
  <2>13. /\ IsJoined(RecordedIn(lg2, al2), RecordedIn(log, alerts), EntriesOf(c, t))
         /\ IsSequence(EntriesOf(c, t))
    <3>1. IsAppended(lg2, log, c) /\ IsJoined(al2, alerts, t)
          BY <1>7, <2>12 DEF IsAppended, IsJoined
    <3> QED BY <1>2, <1>4, <1>5, <1>8, <1>9, <2>9, <3>1, RecordedByContent
  <2>14. h2 = Record(e)
        BY <1>11, <2>5, <2>10, <2>11
  <2>15. IsSequence(e) /\ RecordedIn(lg2, al2) = r0 \o e
        BY <1>12, <2>11, <2>13 DEF IsJoined, EntriesOf
  <2>16. IsEnd(h2, r0 \o e, HistoryLimit)
        BY <1>13, <2>14, <2>15, RecordKeepsHistory
  <2>17. IsEnd(h2, RecordedIn(lg2, al2), HistoryLimit)
        BY <2>15, <2>16
  <2> QED BY <1>6, <1>10, <1>11, <2>2, <2>4, <2>17 DEF ViewsInv
<1> QED BY <1>14, <1>15

\* No other step touches the log or the views.
LEMMA StepKeepsViews == EnvelopesInv /\ AlertsInv /\ ViewsInv /\ [Next]_vars => ViewsInv'
<1> SUFFICES ASSUME EnvelopesInv, AlertsInv, ViewsInv, [Next]_vars PROVE ViewsInv'
    OBVIOUS
<1>1. CASE UNCHANGED <<log, metrics, history, alerts>>
      BY <1>1 DEF ViewsInv
<1>2. ASSUME NEW content \in Telemetry, MakeEnvelope(content)
      PROVE  UNCHANGED <<log, metrics, history, alerts>>
      BY <1>2 DEF MakeEnvelope, viewVars
<1>3. PushEnvelope \/ DropEnvelope => UNCHANGED <<log, metrics, history, alerts>>
      BY DEF PushEnvelope, DropEnvelope, viewVars
<1>4. FlushCall \/ FlushPop \/ FlushDestroy \/ FlushReturn \/ Destruct \/ DrainAndDispose =>
          UNCHANGED <<log, metrics, history, alerts>>
      BY DEF FlushCall, FlushPop, FlushDestroy, FlushReturn, Destruct, DrainAndDispose, viewVars
<1>5. UNCHANGED vars => UNCHANGED <<log, metrics, history, alerts>>
      BY DEF vars, viewVars
<1> QED BY <1>1, <1>2, <1>3, <1>4, <1>5, RegisterKeepsViews, FlushKeepsViews DEF Next

\* At first nothing was processed.
LEMMA InitHasViews == Init => ViewsInv
<1> SUFFICES ASSUME Init PROVE ViewsInv
    OBVIOUS
<1>1. log = << >> /\ metrics = EmptyMap /\ history = << >> /\ alerts = << >>
      BY DEF Init
<1>2. IsSequence(<< >>) /\ Len(<< >>) = 0 /\ DOMAIN << >> = {}
      BY EmptySequence
<1>3. ASSUME NEW name PROVE SnapshotOK(metrics, name, MetricIn(log, name))
  <2>1. MetricPlaces(log, name) = {}
        BY <1>1, <1>2 DEF MetricPlaces
  <2>2. MetricIn(log, name) = << >>
        BY <2>1, PickedNone DEF MetricIn
  <2>3. DOMAIN metrics = {}
        BY <1>1 DEF EmptyMap
  <2> QED BY <1>2, <2>2, <2>3 DEF SnapshotOK
<1>4. LogBlocks(log, alerts) = << >>
      BY <1>1, <1>2 DEF LogBlocks
<1>5. RecordedIn(log, alerts) = << >>
      BY <1>4, FlattenNone DEF RecordedIn
<1>6. IsEnd(<< >>, << >>, HistoryLimit)
      BY <1>2, ObservabilityAssumption DEF IsEnd
<1> QED BY <1>1, <1>3, <1>5, <1>6 DEF ViewsInv, MetricsOK

\* Between two flushes and during them, the snapshots are those of the samples
\* processed so far and the history is the end of everything recorded, complete
\* up to its limit: for any telemetry, rules and limit.  process_metric,
\* process_span, record_event, metric_snapshot.
THEOREM ViewsAreOfTheProcessed == Spec => []ViewsMatchProcessed
<1>1. Spec => []EnvelopesInv
      BY InitHasEnvelopes, StepKeepsEnvelopes, PTL DEF Spec
<1>2. Spec => []AlertsInv
      BY <1>1, InitHasAlerts, StepKeepsAlerts, PTL DEF Spec
<1>3. Spec => []ViewsInv
      BY <1>1, <1>2, InitHasViews, StepKeepsViews, PTL DEF Spec
<1>4. ViewsInv => ViewsMatchProcessed
      BY ViewsGiveProperty
<1> QED BY <1>3, <1>4, PTL

=============================================================================

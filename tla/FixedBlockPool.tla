--------------------------- MODULE FixedBlockPool ---------------------------
(* infrastructure/memory-pool: FixedBlockPool, a free list of equal blocks   *)
(* cut from slabs, with a cache of free blocks in every thread.  A step is   *)
(* an access to state that threads share: the outstanding counter, or the    *)
(* global list under its mutex; what a thread does to its own cache belongs  *)
(* to the step before or after it.                                           *)
(*                                                                           *)
(* Blocks are numbered as they are cut and a number is used once, so a block *)
(* of a slab that is gone is recognised.  ObjectPool adds the construction   *)
(* of objects in the blocks, and a failed construction gives the block back: *)
(* an allocate and a deallocate here.  Hit counters are left out.            *)
EXTENDS Naturals, Sequences, FiniteSets, SequencesExt, FiniteSetsExt

CONSTANTS
    Threads,
    BlocksPerSlab, LocalCacheLimit,     \* the constructor's arguments
    MaxSlabs,       \* bound: slabs there is memory for in a behaviour
    Joined,         \* do the other threads end before the pool is destroyed?
    Torn            \* may memory run out between a slab's blocks and its entry?

ASSUME SizesAssumption == BlocksPerSlab \in Nat \ {0} /\ LocalCacheLimit \in Nat \ {0}
ASSUME ThreadsAssumption == IsFiniteSet(Threads)
ASSUME BoundAssumption == MaxSlabs \in Nat
ASSUME ModesAssumption == Joined \in BOOLEAN /\ Torn \in BOOLEAN

VARIABLES
    alive,          \* is there a pool at the address?
    slabs,          \* slabs cut so far
    owned,          \* blocks of the slabs in slabs_
    globalFree,     \* global_free_blocks_
    caches,         \* local_caches()[this].free_blocks of every thread
    outstanding,    \* outstanding_blocks_
    held,           \* blocks the callers have
    pc, block       \* where each thread is, and the block it is handling

poolVars == <<alive, slabs, owned, globalFree, caches, outstanding, held, pc, block>>

NoBlock == 0

PoolInit ==
    /\ alive = TRUE /\ slabs = 0 /\ owned = {} /\ globalFree = << >>
    /\ caches = [t \in Threads |-> << >>]
    /\ outstanding = 0
    /\ held = {}
    /\ pc = [t \in Threads |-> "idle"]
    /\ block = [t \in Threads |-> NoBlock]

Goto(t, there, b) ==
    /\ pc' = [pc EXCEPT ![t] = there]
    /\ block' = [block EXCEPT ![t] = b]

-----------------------------------------------------------------------------
(* allocate                                                                  *)

\* The cache has a block, or the thread goes for the global list.
AllocateCached(t) ==
    /\ alive /\ pc[t] = "idle"
    /\ caches[t] # << >>
    /\ caches' = [caches EXCEPT ![t] = Front(@)]
    /\ Goto(t, "count", Last(caches[t]))
    /\ UNCHANGED <<alive, slabs, owned, globalFree, outstanding, held>>

AllocateMiss(t) ==
    /\ alive /\ pc[t] = "idle"
    /\ caches[t] = << >>
    /\ Goto(t, "refill", NoBlock)
    /\ UNCHANGED <<alive, slabs, owned, globalFree, caches, outstanding, held>>

RefillTarget == Max({LocalCacheLimit \div 2, 1})

\* allocate_slab: the blocks of a new slab, in address order.
NewSlab == [i \in 1..BlocksPerSlab |-> slabs * BlocksPerSlab + i]

\* The list after the slab that an empty list calls for.
Replenished == IF globalFree = << >> THEN NewSlab ELSE globalFree

\* The blocks are copied into the cache and the list keeps them.
RefillCopying(t) ==
    /\ pc[t] = "refill"
    /\ globalFree = << >> => slabs < MaxSlabs
    /\ LET count == Min({RefillTarget, Len(Replenished)})
           taken == Reverse(SubSeq(Replenished, Len(Replenished) - count + 1, Len(Replenished)))
       IN  /\ globalFree' = Replenished
           /\ caches' = [caches EXCEPT ![t] = Front(taken)]
           /\ Goto(t, "count", Last(taken))
    /\ IF globalFree = << >> THEN slabs' = slabs + 1 /\ owned' = owned \cup ToSet(NewSlab)
                             ELSE UNCHANGED <<slabs, owned>>
    /\ UNCHANGED <<alive, outstanding, held>>

\* refill_local_cache, under global_mutex_: up to RefillTarget blocks move from
\* the back of the global list into the cache, which was empty, and allocate
\* takes the last of them.
Refill(t) ==
    /\ pc[t] = "refill"
    /\ globalFree = << >> => slabs < MaxSlabs
    /\ LET count == Min({RefillTarget, Len(Replenished)})
           kept == Len(Replenished) - count
           taken == Reverse(SubSeq(Replenished, kept + 1, Len(Replenished)))
       IN  /\ globalFree' = SubSeq(Replenished, 1, kept)
           /\ caches' = [caches EXCEPT ![t] = Front(taken)]
           /\ Goto(t, "count", Last(taken))
    /\ IF globalFree = << >> THEN slabs' = slabs + 1 /\ owned' = owned \cup ToSet(NewSlab)
                             ELSE UNCHANGED <<slabs, owned>>
    /\ UNCHANGED <<alive, outstanding, held>>

\* No memory for a slab: bad_alloc leaves everything as it was, unless it comes
\* from slabs_.push_back, when the list already has the blocks of the slab that
\* is then freed.
RefillFails(t) ==
    /\ pc[t] = "refill"
    /\ globalFree = << >> /\ slabs = MaxSlabs
    /\ globalFree' = IF Torn THEN NewSlab ELSE globalFree
    /\ Goto(t, "idle", NoBlock)
    /\ UNCHANGED <<alive, slabs, owned, caches, outstanding, held>>

\* outstanding_blocks_.fetch_add, and the block is the caller's.
Count(t) ==
    /\ pc[t] = "count"
    /\ outstanding' = outstanding + 1
    /\ held' = held \cup {block[t]}
    /\ Goto(t, "idle", NoBlock)
    /\ UNCHANGED <<alive, slabs, owned, globalFree, caches>>

-----------------------------------------------------------------------------
(* deallocate, by whichever thread has been given the block.                 *)

Deallocate(t, b) ==
    /\ alive /\ pc[t] = "idle"
    /\ b \in held
    /\ held' = held \ {b}
    /\ caches' = [caches EXCEPT ![t] = Append(@, b)]
    /\ Goto(t, "uncount", NoBlock)
    /\ UNCHANGED <<alive, slabs, owned, globalFree, outstanding>>

\* `>` for `>=`.
UncountOffByOne(t) ==
    /\ pc[t] = "uncount"
    /\ outstanding' = outstanding - 1
    /\ Goto(t, IF Len(caches[t]) > LocalCacheLimit THEN "flush" ELSE "idle", NoBlock)
    /\ UNCHANGED <<alive, slabs, owned, globalFree, caches, held>>

Uncount(t) ==
    /\ pc[t] = "uncount"
    /\ outstanding' = outstanding - 1
    /\ Goto(t, IF Len(caches[t]) >= LocalCacheLimit THEN "flush" ELSE "idle", NoBlock)
    /\ UNCHANGED <<alive, slabs, owned, globalFree, caches, held>>

\* flush_local_cache, under global_mutex_: all but half a cache goes back.
Flush(t) ==
    /\ pc[t] = "flush"
    /\ LET retained == Min({LocalCacheLimit \div 2, Len(caches[t])})
       IN  /\ globalFree' = globalFree \o
                 Reverse(SubSeq(caches[t], retained + 1, Len(caches[t])))
           /\ caches' = [caches EXCEPT ![t] = SubSeq(@, 1, retained)]
    /\ Goto(t, "idle", NoBlock)
    /\ UNCHANGED <<alive, slabs, owned, outstanding, held>>

-----------------------------------------------------------------------------
(* The ends of threads and of the pool.                                      *)

\* The thread_local cache goes with its thread, and with it the way back to the
\* blocks in it.  The next thread starts with an empty cache.
EndThread(t) ==
    /\ pc[t] = "idle"
    /\ caches[t] # << >>
    /\ caches' = [caches EXCEPT ![t] = << >>]
    /\ UNCHANGED <<alive, slabs, owned, globalFree, outstanding, held, pc, block>>

\* The entries of the pool are left in every cache.
DestroyKeepingCache(t) ==
    /\ alive
    /\ held = {} /\ \A u \in Threads : pc[u] = "idle"
    /\ Joined => \A u \in Threads \ {t} : caches[u] = << >>
    /\ alive' = FALSE /\ owned' = {} /\ globalFree' = << >> /\ outstanding' = 0
    /\ UNCHANGED <<slabs, held, pc, block, caches>>

\* ~FixedBlockPool by thread t, once nobody uses the pool: the slabs are freed
\* and t's cache of this pool is dropped, but nobody else's.
Destroy(t) ==
    /\ alive
    /\ held = {} /\ \A u \in Threads : pc[u] = "idle"
    /\ Joined => \A u \in Threads \ {t} : caches[u] = << >>
    /\ caches' = [caches EXCEPT ![t] = << >>]
    /\ alive' = FALSE /\ owned' = {} /\ globalFree' = << >> /\ outstanding' = 0
    /\ UNCHANGED <<slabs, held, pc, block>>

\* A new pool at the same address, which is the key of the caches.
Construct ==
    /\ ~alive
    /\ alive' = TRUE
    /\ UNCHANGED <<slabs, owned, globalFree, caches, outstanding, held, pc, block>>

PoolNext ==
    \/ Construct
    \/ \E t \in Threads :
          \/ AllocateCached(t) \/ AllocateMiss(t) \/ Refill(t) \/ RefillFails(t) \/ Count(t)
          \/ (\E b \in held : Deallocate(t, b)) \/ Uncount(t) \/ Flush(t)
          \/ EndThread(t) \/ Destroy(t)

PoolSpec == PoolInit /\ [][PoolNext]_poolVars

-----------------------------------------------------------------------------
(* Properties.                                                               *)

\* The blocks the threads have in hand, and those in a thread's cache.
InHand == {block[t] : t \in {u \in Threads : block[u] # NoBlock}}
Cached(t) == ToSet(caches[t])
Known == ToSet(globalFree) \cup held \cup InHand \cup UNION {Cached(t) : t \in Threads}

\* A block is in one place: the global list, one thread's cache, one thread's
\* hands or a caller's.
Apart ==
    /\ IsInjective(globalFree)
    /\ ToSet(globalFree) \cap held = {}
    /\ InHand \cap (ToSet(globalFree) \cup held) = {}
    /\ \A t \in Threads :
          /\ IsInjective(caches[t])
          /\ Cached(t) \cap (ToSet(globalFree) \cup held \cup InHand) = {}
    /\ \A t, u \in Threads : t # u =>
          /\ Cached(t) \cap Cached(u) = {}
          /\ block[t] # NoBlock => block[t] # block[u]

\* The counter stats() reports is what the callers have, but for the calls in
\* flight.
Counted == outstanding = Cardinality(held) + Cardinality({t \in Threads : pc[t] = "uncount"})

\* No two callers ever get the same memory, though blocks freed by one thread
\* are handed out by another, and the count of blocks in use is right.
OneOwner == Apart /\ Counted

\* No thread holds or caches a block of a slab that has been freed: what
\* allocate returns is memory of the pool that is alive.
NoStaleBlock == alive => Known \subseteq owned

\* Between calls a cache holds fewer blocks than its limit, so no thread hoards
\* what others have to cut new slabs for.
CachesBounded ==
    \A t \in Threads : pc[t] = "idle" => Len(caches[t]) < LocalCacheLimit

=============================================================================

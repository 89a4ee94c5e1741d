# TLA+ models of the exchange collection

A verification development for the C++ projects of this repository: the order
matching engine, the clearing system, the access gateway, the pre-trade risk
engine and the pipeline that joins them, the observability stack, and the
lock-free queues, the memory pool and the consistency helpers they are built
on. Modules are checked with TLC on small instances; every safety property those
runs show to hold is also proved with TLAPS, for every value of the constants
that meets the conditions named under Proofs. `PROJECT.json`
ties each definition to the lines it models, and lists runs, mutants, findings,
hazards and theorems.

## The system

| Component | State | Operations | What makes it correct |
|---|---|---|---|
| SPSC ring queue (`lock-free-structures`) | two free-running counters, a ring of optional slots | push, try_pop, drain, size_approx | no race on a slot, FIFO, full and empty never confused |
| MPMC linked queue | linked nodes, `size_`, global epoch, one epoch slot per token | make_token, push, try_pop, reclamation, token release | each value taken once and in order, no freed node used, none leaked |
| Memory pool | slabs, a global free list under a mutex, a cache per thread | allocate, deallocate, refill, flush | one owner per block, bounded caches, no block of a dead slab |
| Matching engine | resting orders, levels, depth book, bounded event queue | submit, cancel, poll_event | consistent uncrossed book, price-time priority, time in force, true reports |
| Clearing system | accounts, holds, settled ids, journal, outbox | upsert, freeze, release, settle, mark dispatched | money conserved, frozen = held, idempotent settlement |
| Outbox (`distributed-consistency`) | messages with a state | enqueue, mark dispatched | one message per settled trade |
| TCC wallet | three balances, reservation records | try_reserve, confirm, cancel | conservation, finality under retries |
| Saga | steps, report | add_step, execute, compensate | completed steps undone in reverse order |
| Pre-trade risk engine | markets, balances, resting orders, rate windows, audit log | evaluate and the feeds | decisions on current data, no self-trade |
| Gateway | credentials, sessions, routes, rate windows, ingress queue | route, heartbeat, poll | rate limits hold, accepted requests are handed on and told of once and in order, sessions end by silence |
| Exchange pipeline | order registry, resting users, reference prices | submit | every trade backed by a hold and settled, leftovers released |
| Market data (broadcaster, candles, depth book) | history per topic, subscribers; candles; levels | publish, poll, replay; add_trade; update | no gap or repeat for a reader |
| Observability stack | bounded queue of pooled envelopes, aggregates, rules, alerts, history | publish, register_rule, flush | every envelope accounted for, one alert per run of breaches |
| Performance toolkit | samples of a run | measure | |

Interaction. The pipeline calls the gateway, the risk engine, the clearing
system and the matching engine one after the other on one thread, and copies
balances, resting orders and the top of book into the risk engine. The engine
publishes to the broadcaster and to an event queue (the SPSC ring) that another
thread polls, and keeps its orders in an object pool. Clearing writes to the
outbox. The gateway hands requests on through another SPSC ring and announces
them through a broadcaster; the observability stack joins a publishing and a
flushing thread by an SPSC ring of envelopes from an object pool. Real
concurrency is in the queues, the pool, and where a component has one of those
queues between two threads; elsewhere what is hard is partial failure, retries, reuse of ids, copies
that go stale, and long sequences of legal calls. `reactor` and `regex` are
submodules without content here.

## Modules

| Module | Models | Granularity |
|---|---|---|
| `SpscRingQueue` | the SPSC ring | one access to shared state per step; producer, consumer and an observer of the size |
| `BoundedFifo` | abstract bounded queue | what push and try_pop promise |
| `MpmcLinkedQueue` | the MPMC queue with its epochs | one load, store or compare-exchange per step |
| `FixedBlockPool` | the pool | one access to the counter or critical section per step |
| `MatchingEngine` | engine and depth book | one fill or one emitted event per step, so that the poller interleaves |
| `AccountClearing` | clearing and outbox | one call per step |
| `TccWallet` | the wallet | one call (under its mutex) per step |
| `Saga` | the saga coordinator, driving `TccWallet` | one step action, one compensation or one call of another client per step |
| `PreTradeRisk` | the rules of the risk engine | operators |
| `RequestWindow` | the sliding window of gateway and risk engine | operators |
| `RiskEngine` | the risk engine with its views, windows and audit log | one call per step |
| `Broadcaster` | publish and replay | one call (under its mutex) per step |
| `AccessGateway` | the gateway | one call per step; `route` is two, with the push and the publication apart |
| `OrderIngress` | composes `AccessGateway`, `Broadcaster` and `RiskEngine` | a routing thread, a backend thread, a reader of the route events |
| `ObservabilityStack` | the observability stack | one access to the queue or the pool per step, processing in one |
| `ExchangePipeline` | `submit`, composing `PreTradeRisk`, `MatchingEngine` and `AccountClearing` | one stage, trade or released order per step |
| `Maps` | `std::unordered_map` insert and erase | operators |
| `Filters` | the elements of a sequence that pass a test | operators |
| `MpmcLinkedQueueProofs`, `MatchingEngineProofs`, `AccountClearingProofs`, `SagaProofs`, `ExchangePipelineProofs`, `OrderIngressProofs`, `ObservabilityStackProofs` | theorems about the module of that name; `SagaProofs` has the wallet's too, `ObservabilityStackProofs` those of the ring and the pool it joins | |
| `LibraryTheorems` | theorems about sums, filters and sequences, for the others | |
| `MC_*` | constants for TLC | |

Names follow the source: `LoadHead`, `WriteSlot` and `StoreTail` are the three
accesses of `emplace`; `RemoveResting` is `remove_resting_order`; `Refusal` is
the chain of early returns of `handle_limit_order` and `handle_market_order`;
`FreezeStatus` and `SettleStatus` are the chains of checks in front of the
balance changes; `ReleaseClosed` is one turn of the loop of
`release_closed_orders`. Operators with names such as `LoadHeadOffByOne` or
`FreezeOverwriting` stand just before the definition they are a faulty version
of, and are used by the mutants only.

Abstractions. Prices, quantities and amounts are integers in the smallest unit,
so the tolerances with which the code compares doubles become equality, and the
average cost is rounded down to whole units. The doubles of the code are these
integers up to rounding errors, which stay below the code's tolerance of 1e-9 as
long as amounts are below about a million. Rounding shows where the code
compares amounts without a tolerance: in `freeze_quote` and `freeze_base`, and
in the balance and hold checks of a settlement. Where the integers of such a
comparison are equal and the asset is in `Inexact`, `Less` lets either answer
happen (`Roundings`). This is how the two formulas for the price of an order,
`price * quantity * (1.0 + fee)` in `reserve_amount` and `notional + notional *
fee` in settlement, are one integer and still disagree. The risk engine's own
comparisons are exact in the model: one that rounding tips refuses the order,
which `RiskRejects` and `ReserveFails` leave in the same state. Payload texts,
hit counters and, outside the rate windows and the sessions, timestamps are left
out. An order of quantity 0 stands for any malformed order, and in the pipeline
a limit price of 0 for any that is not positive; the price band refuses it
(`MarketAssumption`: the band is narrower than the reference price), so the
branch of `reserve_amount` for it is there and not taken. History variables
(`arrival`, `opening`, `fees`, `sawEmpty`, `opops`, `reference`) are only read by
properties or, for `opops`, by the bound of the observer's history; no code step
depends on them. In `ExchangePipeline` gateway and parser are the action
`TurnedAway`, with the answers of a refused route, of a forwarded request that
is not there, and of a payload without an order; the rate window of the risk
engine is a nondeterministic answer; the market is configured and the users are
registered before the first order, and nobody polls the engine's events, as in
the code. `OrderIngress` is that first part in detail, with the two ends of the
gateway's queue on threads of their own, as the queue allows; the pipeline runs
them one after the other, which is one of its interleavings. The gateway's maps
have no lock, so routing, configuration and sessions are one thread. Payloads
are orders that parse. `RiskEngine` has one market, whose limits other than the
rate are constants. The queue between two threads is the atomic queue that the
`spsc` run and the proofs show the ring to be, and the pool hands a block to one
owner, as `pool` shows. In `Saga` a step's action is a `try_reserve` and its
compensation a `cancel`: the callbacks are the caller's, and the steps of
the directory's tests are called `reserve-funds`, with a compensation that takes
the reservation back. `arrivals`, `accepted`, `beats`, `sent`,
`log` and the limits noted in `auditLog` are history. `Filter` has the value of
`SelectSeq`, defined by the places of the elements, since the prover knows
nothing of `SelectSeq`; `FilterIsSelectSeq` in `MC_Gateway` has TLC compare the
two on short sequences.

## Runs

| Run | Instance | Result |
|---|---|---|
| `spsc` | 2 slots, 3-bit counters, 2 values, drains of at most 2 | passes; 270 thousand states |
| `engine` | 3 interchangeable ids and the empty id, 2 prices, quantities 1 and 2, event queue of 2 | passes; 1.3 million states |
| `engine_depth` | the same | violates `DepthShowsOpenQuantity` |
| `clearing` | 2 accounts, 3 holds, 2 trades, taker fee one half, both assets inexact | passes; 28 thousand states |
| `saga` | sagas of 3 steps and of 1, names equal or not, 2 attempts, 1 other client, balance 4 | passes; 1.2 million states |
| `mpmc` | 3 threads, 2 pushes, retire threshold 1, 3 epoch slots | passes; 919 thousand states |
| `mpmc_leave` | the same, every thread may give its token back | violates `NoStalePointer` |
| `pool` | 2 threads, slabs of 3, cache limit 4, 2 slabs | passes; 171 thousand states |
| `pipeline` | 2 users, 3 ids used again freely, 2 prices, 4 orders with a hold, quote inexact | passes; 463 thousand states |
| `pipeline_reuse` | the same | violates `EveryFillSettled` |
| `gateway` | queue of 2, 4 calls, timestamps 1 to 3, windows of length 1, limits 1 and 2 | passes; 559 thousand states |
| `observability` | queue of 2, 4 envelopes, 4 publications, 2 registrations, history of 3 | passes; 837 thousand states |

Bounds and why they suffice.

- `spsc`: the ring is gone round four times before the counters wrap, so all
  relative positions of counters, wrap and slots occur; the proofs lift the
  result to any capacity and width. Values are two, enough to see a swap.
- `engine`: three orders are two makers at one or two levels and a taker, or a
  level of three; quantity 2 against 1 gives partial fills of either side. An
  event queue of two is full in most calls.
- `clearing`: amounts 0, 1, 3 and 6 give refused, short, exact and generous
  holds for the fills; two trades give partial consumption of one hold.
- `mpmc`: a threshold of 1 makes every pop advance the epoch and reclaim, which
  the code's 32 only does rarely. Two pushes and the stub let a node be retired
  while another thread stands on it. `Leavers` are the threads that may release
  their token; in `mpmc` it is the pure producer, which never retires a node.
- `pool`: slabs of three and a limit of four make transfers of two, flushes and
  a second slab happen with six blocks. `Joined = TRUE` (threads end before the
  pool is destroyed) and `Torn = FALSE` (memory does not run out inside a
  vector's growth) are named so that dropping them shows `NoStaleBlock` fail.
- `pipeline`: four orders are enough for two makers, a buy that sweeps them and
  fails in settlement, and a further submit that finds the leftovers. Prices of
  2 and 4 and a taker fee of one half keep every amount whole. Quantities, and
  with them amounts of base, are taken as exact, as whole numbers of units are in
  doubles; amounts of quote are not. The maker's rate is below the taker's, as in
  the repository's tests. Times in force other than GTC are checked in `engine`; for the pipeline a market order is
  the one that does not rest or is refused.
- `saga`: three steps are needed for a compensation of two completed ones, in
  order; the balance of 4 is short of what all ask for together, so any step
  may be the one refused. A second attempt meets the cancelled and the late
  reservations of the first. Other clients call with any amount, 0 included.
- `gateway`: three requests fill a window of two, the fourth call is a request
  or a change of limit, route, credential, health or view among them; distances
  of 0, 1 and 2 lie inside, on and outside a window of length 1. A queue of two
  holds two requests in an order of their own, and is full when the backend is
  slow. Three heartbeats, one of them overtaken, and
  a sweep are four calls.
- `observability`: a queue of two fills with the third publication while the
  flusher holds one more. Four samples are a run of two breaches that goes on,
  or two runs; of the three rules two have one id, so that registering again
  changes the metric or the number. Envelopes are interchangeable.

`CHECK_DEADLOCK FALSE` stands in `observability` only, where the destructor
ends the run. Fairness is assumed in `spsc` only: a thread inside a function goes on (weak
fairness of the producer inside `emplace` and of the observer inside
`size_approx`), and the consumer keeps polling, as the consumer loops of the
tests and benchmarks do. Nobody has to push. Under it every value that reached
a slot is popped, and a drain with a finite `max_items` returns. The other runs
check safety and, where deadlock is checked, that no call gets stuck.

### What the violations show

- `engine_depth`: `add_resting_order` publishes the newcomer's quantity as the
  level's. `DepthWithinBook` (the levels shown are those of the book, and none
  shows too much) is what does hold.
- `mpmc_leave`: releasing a token deletes the nodes its slot retired without
  looking at the epochs. The `mpmc` run shows that this is the only way.
- `pipeline_reuse`: an IOC or market order fills part of a resting order and
  closes; its id is used again against the same resting order. The trade id
  `maker->taker` repeats, clearing answers duplicate, the pipeline counts that
  as settled and releases the hold: the engine traded and no money moved.

### When a trade is refused after it was made

A hold can be a rounding error short. `reserve_amount` takes it as `price *
quantity * (1.0 + fee)`, settlement consumes `notional + notional * fee`, and
clearing compares the two doubles with no tolerance. With the 5 basis points of
the pipeline's tests and quantity 1 the first is smaller at the prices 97, 98,
102, 103 and 104 (at 386 of the 1001 prices from 95.00 to 105.00 in cents), and
with 10 basis points at 1000; at 100, the price of the tests, they agree. A plain
limit buy that fills at its own price is then matched, refused
(`buyer_frozen_quote_insufficient`) and left half done. In the `pipeline` run
both answers happen.

A market buy is held at the best ask only. If it goes on to a second level,
clearing refuses the trade after the engine has executed it, and `submit`
returns at once with holds left behind. `HoldsSufficeForTrades` says when at most
a trade is refused, for every order and whatever the submit before it answered:
a buy's trade is above the price its hold was taken at, which a limit order's
never is, or it takes the last of what is frozen or held, where rounding decides
(`DecidedByRounding`). It needs a maker's fee not above the taker's
(`FeesAssumption`). `CompletionReleasesHolds` says that the next submit that
completes releases what was left; the unsettled trade stays unsettled.

### What the exceptions in the properties say

- `AllOrNothing` excepts two things the code does not do. A step that times out
  is not compensated, so a try of it that arrives later reserves funds nobody
  cancels; and compensations are looked up by name, so of two steps of one name
  the first is compensated twice and the second never.
- `RateLimitsHonoured` is about requests in the order of their timestamps. One
  with a later timestamp forgets what earlier ones, arriving after it, would
  have counted. A request that finds the queue full has used its place in the
  gateway's window, and one that the risk engine refuses has used its place in
  the risk engine's.
- `SessionsEndBySilence` is about heartbeats in order: one that was overtaken
  sets the time of the last heartbeat back, and the session may be closed though
  a newer one had arrived.

## Proofs

The ring (in `ObservabilityStackProofs`): from `CapacityAssumption` (the capacity, a power of two,
divides the range of the counters at least twice) and `ValuesAssumption`. The properties are not inductive by themselves: that the
producer may write rests on a `head_` it loaded earlier. `IInv` adds what each
thread may still rely on between its accesses (a free slot past the producer's
test, a value past the consumer's), that the slot of `tail_` is `Size` places
after the slot of `head_` around the ring, and how far `head_` can have moved
since the observer loaded it. From it follow type correctness, `NoSlotRace`,
`SlotsMatchCounters`, `SizeApproxBounded` and, step by step, that the ring
implements `BoundedFifo`.

`MpmcLinkedQueueProofs`: under `Leavers \cap Consumers = {}`, that no thread
which gives its token back before the queue ends also pops. Without it the
theorems are false, which is what `mpmc_leave` shows. The invariant is stated
over a `rank` that numbers the nodes in the order they were linked: `ListOK` says that
`next` follows the ranks and `head_` is not past `tail_`, `LocalOK` what each
thread still knows of the list at each of its program points, `TokensOK` that slots are not shared,
and `ReclamationOK` is the argument for the epochs. Every node a thread inside
may use is younger than all deleted ones, and than those that wait and were
retired before the epoch the thread announces; and a scan's minimum counts the
threads of the slots it has passed, or they use nothing it may delete. The
ranks are never state of the model: the invariant is that some ranking exists,
and only `PushLink` extends it. From it follow `NoStalePointer` and
`FifoSteps`; with `ValuesOK` and `EmptyOK`, `TakenOnce` and
`EmptyAnswersAreTrue`; with `PlacesOK` (each node in exactly one place) and
`SizeOK` (`size_` modulo its width against pushes and pops under way),
`NodesAccounted`.

The pool (in `ObservabilityStackProofs`): `SizeInv` (types and the lengths of caches at each
program point) gives `CachesBounded`. `OwnerInv` adds that free list, caches,
blocks in hand and blocks held have no repetition and nothing in common, and
that no block has a number beyond the slabs cut so far; it gives `OneOwner`,
with the counter, under `~Torn`. `NoStaleBlock` needs `Joined` and `~Torn`, the
two conditions named above.

`MatchingEngineProofs`: `BookInv` is about the book (a level's queue has exactly
the live orders of that side and price, each once, in the order of arrival; the depth
shows the same levels; no crossing), `CallInv` about the call under way, `ReportInv` about
what it has published and will publish. `TimeInForceHonoured` is not
inductive because matching goes fill by fill: `MatchingOK` adds that what a
fill-or-kill order still wants is open within its reach, a sum that every fill
lowers by as much as the want, and that a post-only order has nobody to trade
with. `ReportMatchesOutcome` is proved of the messages published followed by
those pending, since the queue may be full between any two. From these follow
`BookUncrossed`, `BookMatchesLive`, `TimeInForceHonoured`,
`ReportMatchesOutcome` and, step by step, `PriceTimePriority`, with no
condition beyond the model's assumptions on its constants.

`AccountClearingProofs`: for any `Inexact`. A call is accepted only where the
integers suffice, whichever way rounding went (`FreezeChecked`,
`SettleChecked`), and the rest follows from that. `IInv` is the type invariant with the agreement of
balances and journal, the equity of each account, and settled ids with outbox
messages. Type correctness needs the argument that the two holds of a fill are
of different assets and hence different, so that consuming the buyer's leaves
the seller's as it was checked. `JournalExplainsBalances`, `EquityPreserved` and
`OneMessagePerTrade` follow for any accounts, prices, quantities and fee rates,
self-trades included. `TotalsPreserved` and `FrozenIsHeld` are sums, proved step
by step from what one change of one account or hold does to them. Their
conditions are the two open hazards of this component: `Reopened = {}`
(`upsert_account` is not used over an account with holds) for both, and `NoHold
\notin FillHolds` (fills name their holds) for `FrozenIsHeld`. The pipeline's
fills name theirs, and it writes accounts in `register_user` only. `AccountsReconcile` adds `SolventInv` and fees of at most
10000 basis points, with which a seller's fee never exceeds the proceeds; the
code does not check the rate.

`SagaProofs`: first the wallet. `IInv` gives conservation and finality for any
reservations and amounts, `RecordsInv` adds the sums and gives
`BalancesMatchRecords`. Then `SagaImplementsWallet`: every step of `SagaSpec`
is a step of the wallet or leaves it alone, from which the wallet's three
properties carry over. `AllOrNothing` is proved under `OwnIds`: no two steps,
and no other client, use the same reservation id. The invariant `OwnInv` follows each step's
reservation: held if the step is completed and not yet undone, and otherwise
held only if a late try of it, given up on, may have made it.

`ExchangePipelineProofs`: the four invariants of the pipeline and
`HoldsSufficeForTrades`, from the model's assumptions: a maker's fee not
above the taker's, users registered with nothing frozen and nothing negative,
positive prices and a price band. `NoSelfTrade` and `RiskViewsFresh` have one
hypothesis more, `RoundingSpares`: amounts are exact, or amounts of base are and
the maker's fee is less than the taker's on every trade. Without it a maker's
last fill can be refused by rounding; the submit then stops with part of its own
order in the book and the risk engine not told of it. The pipeline's steps are steps of the engine and of the ledger,
so `PInv` starts from the invariants of those two modules (`EP!IInv`,
`CP!HeldInv`), instantiated with the pipeline's constants and with fills and
holds of any size, and adds `FlowInv`, what orders, trades and holds owe each
other:

- `TrackedOK` and `RestingOK`: each hold is of a tracked order, in its owner's
  name and asset, and covers what is open of an order in the book, still at the
  taker's rate it was taken at;
- `DueOK`: the trades a submit has made and not settled have different makers,
  each with a hold that covers the trade and what is open of it, and none of
  them the taker's user; a buy's are cheapest first (`CheapestFirst` while the
  engine is matching);
- `TakerCovered`: the taker's hold covers the trades that are due and what is
  open of the taker at the price the hold was taken at, unless the next trade is
  `Dearer`; since they are sorted, a market buy that is past that price stays
  past it;
- `NoneOwn`: no order the taker could reach is its user's own; it comes from the
  risk engine's verdict and `KnownOK`, that the risk engine knows the book but
  for the newcomer, and is what makes `NoSelfTrade` true of trades made later.

`RestingOrdersBacked` alone is not inductive because matching shrinks the book
before settlement consumes the holds: between the two a hold is claimed by
both. The arithmetic is `NeedFacts`: the rounded-down fee of two parts is not
more than the fee of the whole, and a trade at a better price or rate costs no
more, so one hold taken at the limit price and the taker's rate pays for any
sequence of fills. That clearing then accepts a fill or rounding decides
(`SettleSucceeds`) needs `FrozenIsHeld`, that no hold has more than its account
has frozen. `RestingIsSpared` is where `RoundingSpares` is used: a refused trade
leaves nothing of the taker in the book, because a taker with an open rest has
more in its hold than the trade takes, and a maker paid the taker's rate in
advance. A fill that
clearing takes for a duplicate leaves the holds alone, and the invariant allows
for it: that such a fill is never settled is the finding of `pipeline_reuse`.

`OrderIngressProofs`: `IngressInv` holds for any users, limits, timestamps and
sequence of calls. Assumed are integer times and windows and natural maxima
(`GatewayAssumption`, `RiskAssumption`, `RequestsAssumption`), and
that the sessions of the setup are live.

- `RateLimitsHonoured` compares the limit with the history of accepted requests,
  not with the window the code counts in, and is not inductive. `WindowOK` ties the
  two together: the entries of a window stem from different requests of the
  history, and every request of the history that still counts at the latest
  timestamp is in the window. It is kept by the gateway's windows
  (`UserWindowsOK`) and by the risk engine's (`RiskWindowsOK`), whose trimming
  and limit may be changed between any two requests.
- `IngressOrder` needs where each accepted request is between the push and its
  announcement: `QueueOrdered`, `EventsOrdered` and `ReaderBehind`.
- `SessionsEndBySilence` rests on `SessionsOK`, that the last heartbeat a session
  records is the newest unless one was overtaken.

`ObservabilityStackProofs`: under `ObservabilityAssumption` (the history keeps at
least one event, a rule asks for at least one breach, values are integers).

- `EnvelopesInv` gives `EnvelopesAccounted`: each live envelope is in exactly
  one place, with the publisher, in the queue or with the flusher (`OwnedOK`),
  and what was sent is what was processed followed by what is on its way
  (`SentOK`).
- `AlertsInv` gives `AlertsMatchStreaks`. The property is about the
  finished log and says nothing of a run of breaches that has not reached its
  number; `RulesOK` adds that the count of a rule is the length of its current
  run, as far as the rule's number, from the rule's last registration on. `AlertsOK` has the alerts one to one with the places
  of the log where a run reached its number.
- `ViewsInv` gives `ViewsMatchProcessed`: `MetricsOK` has each accumulator (count,
  sum, minimum, maximum, last) as what the log's samples of that metric give, and
  the history is the end of the log with its alerts put between the
  envelopes. The library concatenates sequences of sequences recursively; that
  such a concatenation exists, is unique, and grows at its end as the log does,
  is shown by least counterexample.

`LibraryTheorems`: a sum over a finite set is what the folds of the library
compute, for each order of the elements. The induction theorems cannot be
instantiated (they take an operator), so each fact is proved by least
counterexample: among the sizes of the sets that refute it there is a least
one, by well-foundedness of the natural numbers, and removing an element gives
a smaller. Results on sums: a sum splits at any element, equal functions have
equal sums, a change at one point changes the sum by as much, and a sum of
natural numbers is one. On filters: the places kept are numbered without gap
and in order, so a filtered sequence has only elements of the original, in
their order, and each as often as it passed; what is appended is appended
to the result or leaves it alone. On sequences: what append, concatenation, head
and tail have at each place.

Left to TLC: liveness under fairness (`EveryValuePopped` and `DrainReturns` in
`spsc`) and absence of deadlock (ENABLED), which the prover does not do.

## Not modelled

- `subscribe` and `poll` of the broadcaster: nothing but its own test and
  benchmark calls them. Candles: a fold over the trades of one caller.
- The performance toolkit, which times workloads and takes percentiles.
- `child_context` and the texts of events and payloads.
- Several markets in one risk engine. They share the windows of a user and ip,
  each trimming them by its own length; the hazard is listed and open.
- That `flush` returns: it goes on while there is something in the queue, which
  a fast publisher can make forever.
- Weak memory: the MPMC queue is interleaved in program order. Its
  `enter_critical` stores `active` and then loads `head_`, which a processor
  may reorder; the hazard is listed and open. The SPSC ring's slots are only
  touched between an acquire and a release of the counters.
- The destructor of the MPMC queue, which requires exclusive access.
- The size of rounding errors. That strict comparisons of equal amounts may go
  either way is modelled; that errors add up beyond 1e-9, with amounts of many
  millions or very long histories, is not, nor is rounding in average costs.
- Executables, benchmarks, module summaries and text formats.

## Plan

Order: the queues and the pool, the engine, the clearing system, the wallet,
their composition in the pipeline, then the gateway with the risk engine's
windows, the saga over the wallet, and the observability stack. These are done, and
their safety properties proved. What is left is a model of store buffers in
`MpmcLinkedQueue`, for the hazard at `enter_critical`.

# A TLA+ model of the L3 order book engine

This directory holds TLA+ specifications of the order book engine in this
repository, the TLC configurations that model-check them, and TLAPS proofs. It
is written from the source; where source and documentation disagree, the model
follows the source and a *finding* below says so.

Tools: `tlc -config X.cfg M.tla` checks a run, `tlapm M.tla` a proof module.
`PROJECT.json` lists components, runs, the source lines each definition
stands for, hazards, findings, theorems, and for every property a mutated
definition (marked `Slip:` in the modules) that must violate it.

## 1. Inventory

All paths are below `include/orderbook/` and `src/`.

| Component | State | Operations | Who uses it |
|---|---|---|---|
| SPSC queue (`spsc_queue.hpp`) | atomics `tail_`, `head_`; per-thread caches of the other index; `buffer_` | `push`, `push_bulk` (producer), `pop` (consumer), `empty`, `size_approx` | tests only; README shows it between feed and engine |
| Flat hash map (`orderbook.hpp`) | buckets `(key, value, occupied)`, `size_` | `insert`, `find`, `remove`, `clear` | engine: order id -> order |
| Red-black tree (`intrusive_tree.hpp`) | `root_`, nodes embedded in price levels, `size_` | `insert`, `remove`, `find`, `minimum`, `successor`, `predecessor`, `clear` | engine: one tree for each side |
| Price level (`orderbook.hpp`) | intrusive list of orders, `total_quantity`, `order_count` | `add_order`, `remove_order`, `empty` | engine |
| Object pool (`arena.hpp`) | storage, free list threaded through released objects | `acquire`, `release` | engine: orders, levels |
| Linear arena (`arena.hpp`) | `offset_` | `allocate`, `reset` | engine owns one, only resets it |
| Matching engine (`orderbook.hpp`, `orderbook.cpp`) | all of the above | `add_order`, `cancel_order`, `modify_order`, `clear`, `best_*`, `get_bids`, `get_asks`, `dump` | backtester, main, tests |
| Simulator, replay (`market_data.*`) | next id, price, random state, replay index | `next_message`, `load_csv`, `next_replay_message` | backtester, main |
| Signals (`market_data.*`) | two averages and the last signal; volume sums | `on_price`, `on_trade`, `vwap`, `reset` | backtester |
| Backtester, position (`backtester.*`) | position, equity peak and drawdown, latencies | `run_ema_strategy`, `run_replay`, `benchmark_latency`, `add_fill` | main |

The engine is single threaded: an operation is a sequence of calls into map,
trees, levels and pools, and what is hard about it is that each of those holds
pointers into the others. The only concurrent component is the queue: two
threads, two atomic indices and release/acquire ordering. Nothing is persisted
and nothing is retried, so there is no crash recovery and no timeout.

What makes each component correct:

* queue: no data race on `buffer_`; the stream comes out once and in order;
  a stale cache never makes `push` or `pop` fail when the thread already knew
  better; both sides get on.
* hash map: an operation on one key never changes the answer for another.
* tree: it is a set that can be walked in order; it is balanced; fixups end.
* pools: a slot is used for one thing at a time, and is never lost.
* engine: price-time priority, never crossed at rest, every resting order can be
  cancelled, level totals agree with the orders.
* signals and backtester: the averages follow the price and a market that
  stands still is no crossover; the account adds up and respects its limit; an
  order of the strategy trades at once; drawdown belongs to the equity curve.

## 2. Modules

| Module | Models | Kind |
|---|---|---|
| `BoundedFIFO` | what a queue promises | abstract |
| `SPSCQueue` | `spsc_queue.hpp` under the C++ memory model | detailed, implements `BoundedFIFO` |
| `RingArithmetic` | masked counters, sums modulo a width | lemmas |
| `SPSCQueue_proofs` | theorems about `SPSCQueue`; it implements `BoundedFIFO` | proofs |
| `Dictionary` | what the engine takes its map for | abstract |
| `FlatHashMap` (`MCFlatHashMap`) | open addressing with linear probing | detailed, implements `Dictionary` |
| `FlatHashMap_proofs` | theorems about `FlatHashMap` | proofs |
| `OrderedSet` | what the engine takes its trees for | abstract |
| `IntrusiveRBTree` | nodes, rotations, fixups | detailed, implements `OrderedSet` |
| `IntrusiveRBTree_proofs` | theorems about `IntrusiveRBTree`; it implements `OrderedSet` | proofs |
| `LevelQueues` | what the engine takes pool and level lists for | abstract |
| `OrderPool` | the pointers of pool and level lists | detailed, implements `LevelQueues` |
| `OrderPool_proofs` | theorems about `OrderPool`; it implements `LevelQueues` | proofs |
| `LimitOrderBook` | price-time priority, without data structures | abstract |
| `OrderBook` (`MCOrderBook`) | the engine; `INSTANCE FlatHashMap` for `order_map_` | composed, implements `LimitOrderBook` and, uncleared, `LevelQueues` |
| `OrderBook_proofs` | the invariant of `OrderBook` and its theorems | proofs |
| `OrderBook_refinement` | `OrderBook` implements `LimitOrderBook` and `LevelQueues` | proofs |
| `EMASignal` | the crossover detector | detailed |
| `Position` | the strategy's account, as functions | operators |
| `Backtest` (`MCBacktest`) | the message loops of the backtester; `INSTANCE LimitOrderBook` for the book | composed |
| `Backtest_proofs` | theorems about `EMASignal` and `Backtest`: averages, types, limit, account, the strategy's orders, drawdown | proofs |

### SPSCQueue

Each atomic is its modification order, a sequence of stores `[val, clock]`. A
load may return any store not older than one the thread has seen: that is
coherence, and the only freshness C++ gives. An acquire load joins the clock of
a release store; `wclock` and `rclock` record the last write and read of each
slot, so a data race is a state predicate (`NoDataRace`). One action for each
access of the code: `PushCheck` (line 53), `PushLoadHead` (54-58), `PushWrite`
(61), `PushPublish` (62), and `PopCall`, `PopLoadTail`, `PopRead`, `PopPublish`
for 68-81. `push` is `push_bulk` of one item. `size_approx` and `empty`, called
by the owner of one end between two operations, set a *promise* (`room`,
`avail`): how many of its next operations must succeed. Items are numbers, in
the order the producer offers them; after a short `push_bulk` the producer goes
on at `items[pushed]`.

### FlatHashMap

All three loops of the code walk the buckets from the home of the key to the
first that is free or holds the key: `Stops` and `StopBucket`. The hash function
is a parameter; only which keys share a home matters. `ImplementsDictionary`
says that each call changes `find`'s answers as the same call changes a
dictionary, not only that the answers change in some legal way.

### IntrusiveRBTree

The nodes are embedded in the price levels, so a node is its key. `tree` holds
root, children, parents and colours; `insert` and `remove` link or unlink a node
in one action and leave a loop running, one action for each turn (`InsertFixup`,
`DeleteFixup`) and one for its end. The mirrored halves of the code are one
definition with the side as a parameter. A turn that would read through a null
sibling ends in `pc = "fault"` (`DeleteFault`). `clear` leaves stale pointers in
nodes, which `insert` overwrites; the model resets them at once. The history
variable `skipped` says that a removal has taken out a black node without
repair. `maximum` and `inorder`, which nothing calls, are left out.

### OrderPool

The memory of `order_pool_`, slot by slot. The first word of a slot is the
price of the order while the slot is in use and `FreeNode::next` once it is
released, so `Release` overwrites it and nothing else. The actions are the uses
`orderbook.cpp` makes of pool and lists: `Acquire`, `Discard` (a filled order, or
one without a level), `Rest`, `EnterLevel`, `Fill` and `LeaveLevel` (the inner
matching loop with its cursor `resting`), `Cancel`. Which order trades with which,
and how much, is left open: an order may be filled at any turn. The lists are
read back by following pointers (`Chain`); with them as queues the module
implements `LevelQueues`, which is how `OrderBook` treats lists and pool.
`clear()` releases nothing, so it only takes slots out of use; it is not an
action here.

### OrderBook

The orders of the pool are *slots*; map, levels and free list hold slots, so
that a stale pointer is a slot that was released. Actions: `AddOrder` (up to the
match), `Trade` (one turn of the inner matching loop, with everything the turn
calls: `remove_order`, `order_map_.remove`, `order_pool_.release`, and
`remove_level` when the level is empty), `MatchEnd`, `Rest`, `Drop` (no level
object), `CancelOrder`, `ModifyOrder` followed by `Readmit`, `Clear`, and the
calls that return false at once (`RefusedAdd`, `UnknownId`). `match_buy_order`
and `match_sell_order` are one definition with the side as a parameter. The
steps of one call are separate so that invariants also hold between them.

Abstractions: a tree is its set of levels ordered by the comparator
(`IntrusiveRBTree` shows when that is so), a level list is a sequence of slots,
`level_pool_` is a counter, timestamps are left out. Released slots are reset to
`Unused`: nothing reads them while `NoSlotInTwoPlaces` and `MapAgrees`
hold. `free_list_` as a sequence is exact until a slot is released twice, which
`NoSlotInTwoPlaces` excludes. `Prices` does not contain `INVALID_PRICE`: an
order at that price would make its side look empty (`orderbook.cpp:19`).

### EMASignal and Position

`on_price` computes with doubles and truncates towards zero. The model has the
exact value, an integer division, and the two ways in which rounding shows: where
the exact value is whole, the truncated double may be one below it, unless the
weight `2 / (period + 1)` is a binary fraction (`Binary`) and every operation exact. So an update is a member of a set, `Averages`. The case is
real: with a period of 10 and ordinary prices a price that does not move loses a
tick for about one price in six. Between whole numbers rounding changes nothing as
long as prices are far below 2^53.

`Position` is a record and `add_fill` a function of it: `Opened` for the branches
that open or add, `Closed` for those that reduce, close or turn the position
over. `realized_pnl` is a double in the code; commission and impact are a cost
for each share that depends on the price (`Cost`), so that all sums are whole.

### Backtest

The three loops on one `Backtester` and one simulator, as a sequence of calls
(`Runs`). The book is the one `LimitOrderBook` promises, without its `Drop`: the
pools of the engine are far larger than a run. What is checked and proved of the
backtester therefore holds of the program under three conditions that `OrderBook` and
`IntrusiveRBTree` show to be needed: no removal from the order map cuts a chain (`NoCut`,
finding 2), no tree meets a null sibling (finding 1), and no pool is exhausted.
A pass of the loop is divided
where the book's own steps are visible: `pc = "message"` takes a message
(`LimitMessage`, `CancelMessage`, `ModifyMessage`, `NoEffect` for calls that return
false and messages the loop ignores, `InvalidMessage`), `"market"` executes its
order trade by trade, `"decide"` feeds the mid price and may send an order,
`"strategy"` executes that order with `add_fill` for each of its trades,
`"account"` appends to the equity curve and updates the drawdown. The code reads
its trade reports after `add_order` has returned; nothing looks at the account
between, so the fill is part of the trade's step. `NextRun` starts the next call:
book, detector and account are new, `peak_equity_`, `current_drawdown_`,
`equity_curve_` and the simulator's next id are not.

The simulator numbers every message, cancels and modifies too, with a new id; a
recorded file may hold any ids. `Flow` bounds what side, price and quantity a
message may have, in any order: random walk and random numbers are not modelled.
`ours`, `holding`, `cash` and `slack` are history variables: which live orders are
the strategy's, what all of its fills add up to, what the account's fills were
paid with, and how many ticks its truncated averages may have lost.

Cautions that are no findings, as no document says otherwise: commission is
charged on fills that close, never on those that open (`backtester.cpp:17-40`); a
detector with a threshold of zero may signal in a flat market by a lost tick
(`QuietAt`); cancels and modifies of the simulator never hit an order of the market,
so its order flow only ever adds; after 1,000,000 messages the simulator's ids
reach those of the strategy (`backtester.cpp:182`), whose orders can then be
cancelled by it; a second call on the same `Backtester` continues the drawdown of
the first.

## 3. Runs

| Run | Question | Bounds, and why they are enough |
|---|---|---|
| `SPSCQueue` | Are all queue properties and the refinement of `BoundedFIFO` right, and is every item delivered? | 4 slots (3 usable), 9 items: both indices wrap twice, every lag of both caches occurs; batches up to 3 fill the ring and are cut short |
| `FlatHashMap` | Is the table a dictionary, if no removal cuts a chain? | 5 keys, 4 buckets, 4 keys in one chain that wraps: full table, refused insertion, overwriting, removal, clear |
| `IntrusiveRBTree` | Is it an ordered set, whatever its balance, and does each call end? | 6 keys: all rotations, both cases of the two-children removal, broken balance, and null siblings (5 keys are enough for a fault) |
| `OrderBook` | Do pools, map, levels and the promised book agree, and are pool and lists used as `LevelQueues`? | 3 orders, quantities 1 and 2: queues of three, sweeps, partial fills; 3 prices for 2 level objects: `level_pool_` is exhausted; quantities in a range of 4, so level totals wrap around |
| `OrderPool` | Do the free list and the level lists, threaded through one memory, stay apart? | 4 slots, 2 level objects for 3 levels: lists of four, removal at head, middle, tail, empty and full pool |
| `OrderBook_clear` | What do `clear()`, a full `order_pool_` and zero quantities change? | 2 slots for 3 ids, one `clear()` |
| `Backtest` | Do account, limit, signals and equity curve agree with the book? | a replay of 2 messages, a benchmark of 1, then 6 and 2 messages of the strategy; limit 1 and orders of 2 with resting orders of 1 to 3, so that orders fill in parts, rest, pass the limit and turn the position over; `OwnIdBase` 3, so that the simulator reaches own ids; periods 1 and 2, so that averages truncate and lose a tick |
| `IntrusiveRBTree_fault` | violation: `NoNullSibling` | 5 keys |
| `OrderBook_collide` | violation: `RestingOrdersAreFound` | 2 ids with one home bucket |
| `OrderBook_depth` | violation: `BidDepth` | 2 bid levels |
| `OrderBook_leak` | violation: `NothingLeaks` | one order, one `clear()` |
| `Backtest_holding` | violation: `PositionIsHolding` | as `Backtest` with periods 1 and 3 |

`MaxItems`, `MaxClears`, `Runs` and `Flow` only bound the model; every other constant stands for
a size in the code. `IntrusiveRBTree` runs without the deadlock check because
a fault ends the program; `Backtest` is checked for deadlock, and stops only
when the last call has returned (`Returned`).

**Fairness.** `SPSCQueue!FairSpec`: both threads run their clients' retry loops
(weak fairness of each loop; that clients try again is an assumption, as nothing in the
repository runs the queue with two threads), and a thread that loads an index again and again
reads its newest store infinitely often (strong fairness of
`PushLoadHead(Len(head_))` and `PopLoadTail(Len(tail_))`): C++ asks that stores
become visible in finite time. The size queries are not fair. For
`IntrusiveRBTree!FairSpec` the one calling thread runs its loop. The engine has
no liveness property: each of its loops is bounded by the orders in the book, and those of the
backtester by their number of messages.

What the passing runs show beyond their invariants:

* `NoPartialDrop`: `add_order` can return false after trades only if a level
  object is missing (`orderbook.cpp:33-37`), but the trades of such an order have
  always emptied a level, so the case does not arise.
* `NoRedPair` holds even on trees whose balance is lost.
* On trees that are red-black the loop of `delete_fixup` never takes a turn: its
  argument is then red, and only painted.

## 4. Findings

1. **Null dereference in `delete_fixup`** (`intrusive_tree.hpp:139, 309`).
   `remove` repairs only when `x` is not null, so taking out a black leaf leaves
   the tree unbalanced, and a later repair meets a node without a sibling.
   Adding asks at 3, 2, 4, 1, cancelling 3, adding 6, 7, 5, and cancelling 4,
   7, 5 ends the compiled engine with a segmentation fault. README.md:84 calls it
   an "Intrusive red-black tree". Run `IntrusiveRBTree_fault`.
2. **Live orders that cannot be found** (`orderbook.hpp:226`). `remove` frees a
   bucket in the middle of a probe chain. Ids 121480 and 262151 share a bucket:
   add both, cancel the first, and the second can neither be cancelled nor
   is its id refused. README.md:96 promises lookup by id for "cancel/modify
   operations". Run `OrderBook_collide`.
3. **One bid level** (`orderbook.cpp:127, 159`). `get_bids` and `dump` walk from
   the minimum with `predecessor`; `BidCompare` makes the minimum the best bid,
   which has none. README.md:126 says "L3 depth". Run `OrderBook_depth`.
4. **`clear()` leaks** (`orderbook.cpp:140`). No order or level returns to its
   pool, against `arena.hpp:18`, "orders are recycled via object pool". Run
   `OrderBook_leak`.

5. **Fills that never reach the position** (`backtester.cpp:186`). Only the trades
   of the call that sends an order are given to `add_fill`. What is left of the
   order rests, and when a later message trades with it position, profit and limit
   go on without that fill. `backtester.hpp:47` calls `qty` "Positive = long,
   Negative = short", README.md:13 promises "P&L tracking". Run
   `Backtest_holding`.

## 5. Proofs

`SPSCQueue_proofs` proves, for every capacity that is a power of two, every
batch size and every stream length (`CapacityAssumption`, `StreamAssumption`):

| Theorem | Property |
|---|---|
| `Invariant` | `[]IInv` |
| `TypeCorrect` | `[]TypeOK` |
| `RaceFree` | `[]NoDataRace` |
| `InOrder` | `[]InOrderOnce` |
| `PromiseKept` | `SizeIsAPromise` |

None of the last three is inductive. The argument: everything in the state is a
function of two counters, the pushes and the pops so far (`Sent`, `Taken`). An
index is a counter modulo `Capacity` (`IndexInv`). A cache holds an index that
was current at some earlier count, and that count is less than a round behind, so
equal indices mean equal counts (`CacheInv`, with the lemmas of
`RingArithmetic`). The clocks are the counters again (`ClockInv`), which turns
"the other side's access of this slot happened before" into an inequality
between counts. `ContentInv` says which item each slot between the counters
holds, `PromiseInv` what a size query may promise. `IInv` is their conjunction.
The proof has one lemma for each action.

The last part of `SPSCQueue_proofs` proves `Implementation`, `Spec => ImplementsFIFO`: the
abstract queue and what it has delivered are functions of `Sent` and `Taken`
(`View`), so that a publication appends one item, a pop that is published takes
one, and every other step is a stutter. `StreamInv`, that a batch never passes the
end of the stream, is needed on top of `IInv`.

`FlatHashMap_proofs` proves, for every hash function, capacity and set of keys
(`CapacityAssumption`, `HashAssumption`; `SentinelAssumption`: a free bucket is not an
entry, `nullptr` is not a value):

| Theorem | Property |
|---|---|
| `TypeCorrect` | `Spec => []TypeOK` |
| `NothingLost` | `Spec /\ NoCut => []EveryEntryFound` |
| `DictionaryUnlessCut` | `Spec /\ NoCut => ImplementsDictionary` |
| `DictionaryOfDistinctHomes` | `Spec => ImplementsDictionary`, where no two keys share a home |

`NoCut` says that no removal takes out a bucket which the search for another
stored key passes; finding 2 is a removal that does. It is an assumption about how
the table is used, and the run `FlatHashMap` satisfies it by its choice of
`Removable`. The invariant is `AllReached`: the search for a stored key ends at its
bucket, and no bucket before it is free. From it the answer of `find` is a
function of what is stored (`FindsStored`), and each operation changes one key of
it. Keys with homes of their own are never moved on, so that nothing can be cut
(`AtHome`).

`OrderBook_proofs` proves, for every set of ids, prices and quantities, every size of
both pools and of the map, every width of `total_quantity` and every hash function
(`DomainAssumption`, `PoolAssumption`, `MapAssumption`, `SentinelAssumption`):

| Theorem | Property |
|---|---|
| `TypeCorrect` | `Spec /\ NoCut => []TypeOK` |
| `SlotsApart` | `Spec /\ NoCut => []NoSlotInTwoPlaces` |
| `MapIsTheBook` | `Spec /\ NoCut => []MapAgrees` |
| `BookUncrossed` | `Spec /\ NoCut => []NeverCrossed` |
| `LevelTotals` | `Spec /\ NoCut => []LevelsAddUp` |
| `AsksBestFirst` | `Spec /\ NoCut => []AskDepth` |
| `ModifyCanReadmit` | `Spec /\ NoCut => []ModifyReadmits` |
| `NothingLeaksUncleared` | `Spec /\ NoCut => [](clears = 0 => NothingLeaks)` |
| `NoOrderPartlyDropped` | `Spec /\ NoCut => NoPartialDrop` |
| `DistinctHomesCutNothing` | `Spec => NoCut`, where no two ids share a home |

Here `NoCut` is about `order_map_.remove`. A book whose ids have homes of their own
satisfies it (`DistinctHomesCutNothing`; the run `OrderBook` is one), and a book in
which it fails really does lose orders (finding 2). The theorems do not ask that
`clear()` is never called: what `clear()` breaks (finding 4) is the conclusion of
`NothingLeaksUncleared` only.

None of these properties is inductive. `Inv` says where every slot is: a level's list
holds no order twice and exactly orders that point to it (`QueuesFilled`, `Placed`);
the levels, the free list and the order being added share no slot (`Apart`) and,
before a `clear()`, leave none out (`AllUsed`, `LevelsCounted`); the map is sound in
the sense of `FlatHashMap_proofs` and holds just the resting orders (`MapSound`); bids
are below asks (`Uncrossed`); the order being added is in no list and its id is not
live (`TakerSound`). `Control` says what has been traded at each point of
`add_order`: an order with quantity left has a level to go on with, has emptied one,
or has not traded, from which `NoOrderPartlyDropped` follows. `Arrived` says that
each level is in the order in which its orders came to rest; no property of `OrderBook`
needs it, but time priority is just this.

`LevelsAddUp` sums the orders of a level with a fold (`MapThenSumSet`). Its recursion
is not accessible to induction here, so the section on sums shows by a least
counterexample among the subsets of a list what the sum does when one order leaves,
comes or changes (`SumWithout`, `SumSame`); `Totals` is then preserved modulo
`QuantityRange` by each action (`TotalsStep`). `AskDepth` follows the walk of
`get_asks` from the minimum over successors: the prices of a side have a sorted
enumeration, and the walk is the only function that starts and steps like it
(`AsksWalked`).

`OrderBook_refinement` proves `PriceTimePriority`,
`Spec /\ NoCut => ImplementsLimitOrderBook`: the abstract book is the resting orders in
order of arrival, and each action is a step of `LimitOrderBook` or a stutter. The
trade is where the invariant is needed: the head of the best level is the oldest
order at the best price because of `Arrived` and `Placed`.

Its second theorem is `PoolAndLists`,
`Spec /\ NoCut /\ [](clears = 0) => ImplementsLevelQueues`: the engine asks of its order
pool and its level lists only what `LevelQueues` offers, which is what `OrderPool`
implements with pointers. An order that is filled or cancelled leaves the list it is in
and returns to the pool in one step (`UnlinkWithdraws`), a new one is taken from the free
ones and then linked or given back. A `clear()` forgets the lists without releasing
their orders (finding 4), and `LevelQueues` has no such step: hence the condition, which
the run `OrderBook` (`MaxClears` is 0) satisfies.

`OrderPool_proofs` proves, for every size of the pool, every set of levels and every
number of level objects (`PoolAssumption`, `NullAssumption`):

| Theorem | Property |
|---|---|
| `Invariance` | `Spec => []Inv` |
| `TypeCorrect` | `Spec => []TypeOK` |
| `PoolPartitioned` | `Spec => []SlotsPartitioned` |
| `ListsSound` | `Spec => []ListsThreaded` |
| `CursorSound` | `Spec => []CursorAtHead` |
| `PoolKeepsPromise` | `Spec => ImplementsLevelQueues` |

What a list is cannot be said of single pointers. `Inv` says that there are sequences,
one for the free list and one for each level, without repetition, that the pointers
join from element to element in both directions (`Layout`: `Freed`, `Threaded`), and
that every slot is in exactly one of them or being added. Each action is then an
operation on these sequences. That following the pointers from the head finds the same
sequence again, and from the tail its reverse (`ChainFinds`, `Reversed`), turns the
invariant into the properties and into the refinement.

`Backtest_proofs` proves, for every book, stream of messages, sequence of calls,
limit, order size and cost of trading (`MarketAssumption`, `ConfigAssumption`,
`RunsAssumption`: there are prices, they are natural numbers, quantities and ids are
positive, at least one call is made):

| Theorem | Property |
|---|---|
| `LimitIsKept` | `[]PositionLimit` |
| `AccountBalances` | `[]EquityIsMarked` |
| `DrawdownIsOfTheCurve` | `[]DrawdownOfTheCurve` |
| `TypeCorrect` | `[]TypeOK` |

The limit is compared with the position before an order is sent and not again.
What is inductive is that, while the order executes, the position and what is left
of the order together stay inside (`OrderInsideLimit`); that the order has a price
at all rests on a side that is not empty having a best price (`BestIsAPrice`, by
well-founded induction). The account: a fill moves `realized_pnl - qty *
avg_entry_price` by what is paid, exactly when it closes or opens, and up to the
remainder of the average, which is less than the new position, when it adds
(`OpenedBooks`, `ClosedBooks`, `FillBooks`).

Its second part proves, from the same assumptions, action properties:

| Theorem | Property |
|---|---|
| `CancelsAreOwn` | `OnlyOwnAreCancelled` |
| `OrdersTrade` | `OwnOrderTrades` |
| `MidsAreFollowed` | `AveragesFollow` |

The invariant `OInv` speaks of the book and the order that executes: ids differ
(`Distinct`, `TakerApart`), no bid reaches an ask (`Uncrossed`), in a run on the
simulator an id is below the next one or belongs to the strategy (`KnownIds`), and
an order of the strategy that has not traded yet reaches an order of the other side
and is better than all of its own (`OwnInside`). Every change of the book but
`Rest` leaves some of its orders, in order, with less quantity at most
(`LeftOver`), which keeps all of this (`LeftOverKeeps`).

`DrawdownIsOfTheCurve` needs that peak and drawdown are those of the curve so far
(`CurveInv`), as maxima of growing sets. `TypeCorrect` needs the first two invariants:
that an order which has traded nothing has quantity left (`TakerFresh`) makes the orders
that rest positive, and that ids differ makes an order of the strategy stay
in the book until its own fill or cancel (`OursThere`); the volume weighted price
lies between any bounds of the prices (`Weighted`). `MidsAreFollowed` carries
`AveragesFollow` over from the detector to the backtester's own calls.

Its first section is about the detector alone: `Following`,
`EMASpec => AveragesFollow`, for all periods, thresholds and prices, from `PeriodAssumption` and `MidsAssumption`: an update
moves an average towards the price and never past it, and the remainder of the
division tells how far it may stop short.

`IntrusiveRBTree_proofs` proves, for every set of integers as keys, finite or not, and
every choice of those that are removed (`KeysAssumption`):

| Theorem | Property |
|---|---|
| `Invariance` | `Spec => []Inv` |
| `TypeCorrect` | `Spec => []TypeOK` |
| `NoTwoReds` | `Spec => []NoRedPair` |
| `RedBlackKept` | `Spec => []RedBlackUnlessSkipped` |
| `QueriesAgree` | `Spec => []WalksInOrder` |
| `SetImplemented` | `Spec => ImplementsOrderedSet` |

What a tree is cannot be said of single pointers either. `Shape` speaks of a function
that gives the set of nodes below each node: it grows from the children
(`Subtrees`), lies on the right sides of its node (`Searchable`), and the back pointers
are those of the edges (`Threaded`). A rotation changes this function at two nodes,
linking a node adds it along one way to the root, and a removal is a move of the
successor (`Moved`) after which one node is gone. That `Nodes`, which the model computes
from the root, is the value of this function there follows by well-founded induction on
the size of subtrees (`FirstBad`), and so do `Find`, `Minimum` and the climb to the next
key.

`Inv` adds to the shape: `size_`; the place of the cursor (`Control`); `Colours`, that no
red node is below a red one but the cursor's own during `insert_fixup` and at x during
`delete_fixup`, and that nodes outside the tree are red; and `Heights`, that every way
down has as many black nodes until a removal skips its repair. The last one is why
`RedBlackUnlessSkipped` holds. The code runs `delete_fixup` only with an x that is not
null (line 139), so in a balanced tree x replaces a black node that had one child only, and
x is red: the loop body, and with it the missing sibling of `NoNullSibling`, is reached
only after a repair has been skipped. The colours do not need the balance: `NoRedPair`
is proved through all turns of `delete_fixup` in any tree whatever.

Only model-checked: liveness (`EveryItemDelivered`, and `CallReturns`,
that the calls of the tree return), which TLAPS does not reach here. That the engine
works with the pointers of `OrderPool` is proved from both sides: `OrderBook` needs
`LevelQueues` (`PoolAndLists`), and `OrderPool` provides it (`PoolKeepsPromise`). That the
two fit together, and that the nodes of `IntrusiveRBTree`, which implement `OrderedSet`,
serve `OrderBook`, which has a set of levels in their place, is an argument of this
document and not a theorem.

## 6. Not modelled

A third thread that calls `empty` or `size_approx`; the FNV-1a arithmetic;
`spread`, and the overflow of it and `mid_price` near the ends of int64;
timestamps and `rdtsc`; printing; CSV parsing; random numbers and the shape of the
simulated price; `next_replay_message`, which nothing calls; the arena, from which
nothing is allocated; latency and rate statistics; the demos in `main.cpp`.

## 7. Plan

Done: models of the queue, map, tree, engine, pool and level lists, detector,
account and backtester; the proofs listed in section 5, which state every invariant and
every action property that a passing run checks.

Next: one module with the actions of `OrderBook` on the trees of `IntrusiveRBTree` and the
pointers of `OrderPool`, so that what section 5 leaves to an argument becomes a
refinement of `OrderBook` itself.

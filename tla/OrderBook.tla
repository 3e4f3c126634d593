------------------------------ MODULE OrderBook ------------------------------
(***************************************************************************)
(* The matching engine: OrderBook of include/orderbook/orderbook.hpp and   *)
(* src/orderbook.cpp, over its order map (FlatHashMap), its two trees of   *)
(* price levels and its two object pools.  The book is used by one thread; *)
(* a call runs in steps (admit, one step per resting order it trades with, *)
(* rest) because each step changes several of these structures and the     *)
(* next one reads them.                                                    *)
(*                                                                         *)
(* Orders live in the slots of order_pool_, so a dangling pointer is a     *)
(* slot that was released.  A tree is its set of levels ordered by its     *)
(* comparator; a level's intrusive list is the sequence of its slots.      *)
(***************************************************************************)
EXTENDS Integers, FiniteSets, SequencesExt

CONSTANTS
  Ids, Prices, Quantities,
  INVALID_PRICE,     \* best_bid() and best_ask() of an empty side
  QuantityRange,     \* 2^32: total_quantity is kept modulo this
  MaxOrders,         \* capacity of order_pool_
  MaxLevels,         \* capacity of level_pool_
  MapSize, Hash,     \* the order map
  MaxClears,         \* how often the client clears the book (bounds the model)
  Vacant, NULL

ASSUME DomainAssumption ==
  /\ Prices \subseteq Int /\ INVALID_PRICE \in Int \ Prices
  /\ QuantityRange \in Nat \ {0}
  /\ Quantities \subseteq 0..QuantityRange - 1

ASSUME PoolAssumption ==
  MaxOrders \in Nat \ {0} /\ MaxLevels \in Nat \ {0} /\ MaxClears \in Nat

ASSUME MapAssumption ==
  MapSize \in Nat /\ MapSize >= MaxOrders /\ Hash \in [Ids -> Nat]

VARIABLES
  order_map_, map_size,    \* id -> slot, a FlatHashMap
  orders,                  \* order_pool_'s storage
  free_list_,              \* order_pool_'s free slots, the next to acquire first
  levels,                  \* bid_tree_ and ask_tree_: side -> price -> level
  level_available,         \* free objects in level_pool_
  pc, call,                \* the control and arguments of the running call
  order,                   \* add_order's new order, a slot
  trades,                  \* the reports of the running call
  arrivals,                \* history: the resting slots in order of arrival
  clears                   \* history: calls of clear()

mapVars == <<order_map_, map_size>>
poolVars == <<orders, free_list_>>
bookVars == <<levels, level_available, arrivals>>
callVars == <<pc, call, order, trades>>
vars == <<mapVars, poolVars, bookVars, callVars, clears>>

Sides == {"Buy", "Sell"}
Slots == 1..MaxOrders
Opposite(side) == IF side = "Buy" THEN "Sell" ELSE "Buy"

\* A definition whose comment begins with "Slip:" is a bug the code does not have;
\* each shows that a property notices it.

Map == INSTANCE FlatHashMap WITH
         entries_ <- order_map_, size_ <- map_size,
         Keys <- Ids, Values <- Slots, Removable <- Ids, Capacity <- MapSize

\* Slip: total_quantity as wide as it needs to be.
Unwrapped(q) == q
WrapQ(q) == q % QuantityRange
Lesser(a, b) == IF a < b THEN a ELSE b

------------------------------------------------------------------------------
(* Trees and levels.                                                       *)

\* BidCompare and AskCompare: the tree's minimum is the best price.
Before(side, p, q) == IF side = "Buy" THEN p > q ELSE p < q

LevelPrices(side) == {p \in Prices : levels[side][p] # NULL}
\* Slip: the tree's other end.
MaximumOf(side, ps) == CHOOSE p \in ps : \A q \in ps : ~Before(side, p, q)
MinimumOf(side, ps) == CHOOSE p \in ps : \A q \in ps : ~Before(side, q, p)
BestPrice(side) ==
  IF LevelPrices(side) = {} THEN INVALID_PRICE ELSE MinimumOf(side, LevelPrices(side))

NewLevel == [queue |-> <<>>, total_quantity |-> 0, order_count |-> 0]

\* Slip: a new order goes to the front of its level.
LinkedInFront(level, slot) ==
  [queue |-> <<slot>> \o level.queue,
   total_quantity |-> WrapQ(level.total_quantity + orders[slot].quantity),
   order_count |-> level.order_count + 1]

\* PriceLevel::add_order.
Linked(level, slot) ==
  [queue |-> Append(level.queue, slot),
   total_quantity |-> WrapQ(level.total_quantity + orders[slot].quantity),
   order_count |-> level.order_count + 1]

\* Slip: the order stays linked.
StillLinked(level, slot, quantity) ==
  [level EXCEPT !.total_quantity = WrapQ(@ - quantity), !.order_count = @ - 1]
\* Slip: the level keeps the quantity of a cancelled order.
UnlinkedOnly(level, slot, quantity) ==
  [level EXCEPT !.queue = RemoveFirst(@, slot), !.order_count = @ - 1]

\* PriceLevel::remove_order, of an order with that quantity left.
Unlinked(level, slot, quantity) ==
  [queue |-> RemoveFirst(level.queue, slot),
   total_quantity |-> WrapQ(level.total_quantity - quantity),
   order_count |-> level.order_count - 1]

\* Slip: an empty level is not released.
StoreLevelOnly(side, price, level) ==
  /\ levels' = [levels EXCEPT ![side][price] =
                  IF level.queue = <<>> THEN NULL ELSE level]
  /\ UNCHANGED level_available

\* Put the level back, or remove it from its tree and release it once it is empty.
StoreLevel(side, price, level) ==
  LET gone == level.queue = <<>> IN
  /\ levels' = [levels EXCEPT ![side][price] = IF gone THEN NULL ELSE level]
  /\ level_available' = IF gone THEN level_available + 1 ELSE level_available

\* Slip: an order at the best price of the other side does not match it.
ReachesInside(o) ==
  LET best == BestPrice(Opposite(o.side)) IN
  best # INVALID_PRICE /\ Before(o.side, o.price, best)

\* The limit of an order reaches the best price of the other side.
Reaches(o) ==
  LET best == BestPrice(Opposite(o.side)) IN
  best # INVALID_PRICE /\ ~Before(Opposite(o.side), o.price, best)

------------------------------------------------------------------------------
(* Pool and map.                                                           *)

\* A slot before its first use, and after its release: price_level is nullptr (the
\* order has been unlinked or never was linked), the rest is not read again.
Unused == [id |-> NULL, side |-> "Buy", price |-> INVALID_PRICE, quantity |-> 0,
           resting |-> FALSE]

\* Slip: add_order does not look for the id.
NeverLive(id) == FALSE
Live(id) == Map!Find(id) # NULL

\* Slip: an order leaves the book but not the map.
ForgetNothing(id) == UNCHANGED mapVars
Forget(id) == Map!Remove(id)

------------------------------------------------------------------------------
Init ==
  /\ Map!Init
  /\ orders = [s \in Slots |-> Unused]
  /\ free_list_ = [i \in 1..MaxOrders |-> i]
  /\ levels = [side \in Sides |-> [p \in Prices |-> NULL]]
  /\ level_available = MaxLevels
  /\ pc = "idle" /\ call = NULL /\ order = NULL /\ trades = <<>>
  /\ arrivals = <<>> /\ clears = 0

\* The call returns to the client, which takes the trade reports.
Return ==
  /\ pc' = "idle" /\ call' = NULL /\ order' = NULL /\ trades' = <<>>

\* add_order up to the match.  It returns false, having changed nothing, when the
\* id is live or no slot is free.
Admit(id, side, price, quantity) ==
  /\ ~Live(id)
  /\ free_list_ # <<>>
  /\ LET slot == Head(free_list_)
         new == [id |-> id, side |-> side, price |-> price, quantity |-> quantity,
                 resting |-> FALSE] IN
       /\ order' = slot
       /\ free_list_' = Tail(free_list_)
       /\ orders' = [orders EXCEPT ![slot] = new]
       /\ pc' = IF Reaches(new) THEN "match" ELSE "rest"
  /\ call' = [id |-> id, side |-> side, price |-> price, quantity |-> quantity]
  /\ UNCHANGED <<mapVars, bookVars, trades, clears>>

AddOrder(id, side, price, quantity) ==
  pc = "idle" /\ Admit(id, side, price, quantity)

\* add_order returns false at once.
RefusedAdd(id) ==
  /\ pc = "idle"
  /\ Live(id) \/ free_list_ = <<>>
  /\ UNCHANGED vars

\* cancel_order and modify_order of an unknown id return false at once.
UnknownId(id) ==
  /\ pc = "idle"
  /\ ~Live(id)
  /\ UNCHANGED vars

\* modify_order goes on to add_order, which ModifyReadmits says cannot refuse now.
Readmit ==
  pc = "readmit" /\ Admit(call.id, call.side, call.price, call.quantity)

\* One turn of the inner loop of match_buy_order or match_sell_order: a trade with
\* the head of the best level.
Trade ==
  /\ pc = "match"
  /\ orders[order].quantity > 0
  /\ Reaches(orders[order])
  /\ LET taker == orders[order]
         side == Opposite(taker.side)
         price == BestPrice(side)
         level == levels[side][price]
         head == level.queue[1]
         resting == orders[head]
         q == Lesser(taker.quantity, resting.quantity)
         left == [resting EXCEPT !.quantity = @ - q]
         reduced == [level EXCEPT !.total_quantity = WrapQ(@ - q)] IN
       /\ trades' = Append(trades, [price |-> resting.price, quantity |-> q,
                                    aggressor_side |-> taker.side])
       /\ IF left.quantity = 0
          THEN /\ StoreLevel(side, price, Unlinked(reduced, head, 0))
               /\ Forget(resting.id)
               /\ free_list_' = <<head>> \o free_list_
               /\ arrivals' = RemoveFirst(arrivals, head)
          ELSE /\ levels' = [levels EXCEPT ![side][price] = reduced]
               /\ UNCHANGED <<mapVars, free_list_, level_available, arrivals>>
       /\ orders' = [orders EXCEPT
            ![order].quantity = @ - q,
            ![head] = IF left.quantity = 0 THEN Unused ELSE left]
  /\ UNCHANGED <<pc, call, order, clears>>

\* Back in add_order: a filled order is released, a partly filled one rests.
MatchEnd ==
  /\ pc = "match"
  /\ orders[order].quantity = 0 \/ ~Reaches(orders[order])
  /\ IF orders[order].quantity = 0
     THEN /\ Return
          /\ orders' = [orders EXCEPT ![order] = Unused]
          /\ free_list_' = <<order>> \o free_list_
     ELSE /\ pc' = "rest"
          /\ UNCHANGED <<poolVars, call, order, trades>>
  /\ UNCHANGED <<mapVars, bookVars, clears>>

\* find_or_create_level finds the level or acquires one from the pool.
CanRest == LET o == orders[order] IN
           levels[o.side][o.price] # NULL \/ level_available > 0

Rest ==
  /\ pc = "rest"
  /\ CanRest
  /\ LET o == orders[order]
         found == levels[o.side][o.price]
         level == IF found = NULL THEN NewLevel ELSE found IN
       /\ levels' = [levels EXCEPT ![o.side][o.price] = Linked(level, order)]
       /\ level_available' = IF found = NULL THEN level_available - 1
                                             ELSE level_available
       /\ Map!Insert(o.id, order)
  /\ orders' = [orders EXCEPT ![order].resting = TRUE]
  /\ arrivals' = Append(arrivals, order)
  /\ Return
  /\ UNCHANGED <<free_list_, clears>>

\* level_pool_ is exhausted: the order is released and add_order returns false,
\* its trades stand.
Drop ==
  /\ pc = "rest"
  /\ ~CanRest
  /\ orders' = [orders EXCEPT ![order] = Unused]
  /\ free_list_' = <<order>> \o free_list_
  /\ Return
  /\ UNCHANGED <<mapVars, bookVars, clears>>

\* The body of cancel_order, for the order the map's answer points to.
Withdraw(id) ==
  LET slot == Map!Find(id)
      o == orders[slot] IN
  /\ IF o.resting
     THEN /\ StoreLevel(o.side, o.price,
                        Unlinked(levels[o.side][o.price], slot, o.quantity))
          /\ arrivals' = RemoveFirst(arrivals, slot)
     ELSE UNCHANGED bookVars
  /\ Forget(id)
  /\ orders' = [orders EXCEPT ![slot] = Unused]
  /\ free_list_' = <<slot>> \o free_list_

CancelOrder(id) ==
  /\ pc = "idle"
  /\ Live(id)
  /\ Withdraw(id)
  /\ UNCHANGED <<callVars, clears>>

\* modify_order cancels the order and adds it again: it loses its place.
ModifyOrder(id, price, quantity) ==
  /\ pc = "idle"
  /\ Live(id)
  /\ Withdraw(id)
  /\ pc' = "readmit"
  /\ call' = [id |-> id, side |-> orders[Map!Find(id)].side, price |-> price,
              quantity |-> quantity]
  /\ UNCHANGED <<order, trades, clears>>

\* Slip: clear() forgets the bids.
ClearAsks ==
  /\ pc = "idle"
  /\ clears < MaxClears
  /\ clears' = clears + 1
  /\ levels' = [levels EXCEPT !["Sell"] = [p \in Prices |-> NULL]]
  /\ Map!Clear
  /\ arrivals' = <<>>
  /\ UNCHANGED <<poolVars, level_available, callVars>>

\* clear() empties the trees and the map and leaves both pools as they are.
Clear ==
  /\ pc = "idle"
  /\ clears < MaxClears
  /\ clears' = clears + 1
  /\ levels' = [side \in Sides |-> [p \in Prices |-> NULL]]
  /\ Map!Clear
  /\ arrivals' = <<>>
  /\ UNCHANGED <<poolVars, level_available, callVars>>

------------------------------------------------------------------------------
(* The queries that walk a tree.                                           *)

\* IntrusiveRBTree::predecessor and successor, in the order of the comparator.
Predecessor(side, p) ==
  LET before == {q \in LevelPrices(side) : Before(side, q, p)} IN
  IF before = {} THEN INVALID_PRICE ELSE MinimumOf(Opposite(side), before)
Successor(side, p) ==
  LET after == {q \in LevelPrices(side) : Before(side, p, q)} IN
  IF after = {} THEN INVALID_PRICE ELSE MinimumOf(side, after)

\* At most n levels from the tree's minimum on, by one of the two.
Walk(side, next, n) ==
  LET level[k \in 1..n] ==
        IF k = 1 THEN BestPrice(side)
        ELSE IF level[k - 1] = INVALID_PRICE THEN INVALID_PRICE
        ELSE next[level[k - 1]] IN
  [k \in 1..Cardinality({i \in 1..n : level[i] # INVALID_PRICE}) |-> level[k]]

GetBids(n) == Walk("Buy", [p \in Prices |-> Predecessor("Buy", p)], n)
GetAsks(n) == Walk("Sell", [p \in Prices |-> Successor("Sell", p)], n)

------------------------------------------------------------------------------
Next ==
  \/ \E id \in Ids, side \in Sides, price \in Prices, quantity \in Quantities :
       AddOrder(id, side, price, quantity)
  \/ Readmit \/ Trade \/ MatchEnd \/ Rest \/ Drop
  \/ \E id \in Ids : CancelOrder(id) \/ RefusedAdd(id) \/ UnknownId(id)
  \/ \E id \in Ids, price \in Prices, quantity \in Quantities :
       ModifyOrder(id, price, quantity)
  \/ Clear

Spec == Init /\ [][Next]_vars

------------------------------------------------------------------------------
(* Properties.                                                             *)

Elements(seq) == {seq[i] : i \in DOMAIN seq}
LevelKeys == {key \in Sides \X Prices : levels[key[1]][key[2]] # NULL}
Queue(key) == levels[key[1]][key[2]].queue

\* The slots in the book, and the slot of the order being added.
Queued == UNION {Elements(Queue(key)) : key \in LevelKeys}
InFlight == IF order = NULL THEN {} ELSE {order}

OrderRecord == [id : Ids \cup {NULL}, side : Sides, price : Prices \cup {INVALID_PRICE},
                quantity : Quantities \cup 0..QuantityRange - 1, resting : BOOLEAN]
Level == [queue : Seq(Slots), total_quantity : 0..QuantityRange - 1, order_count : Nat]
Report == [price : Prices, quantity : 0..QuantityRange - 1, aggressor_side : Sides]
Call == [id : Ids, side : Sides, price : Prices, quantity : Quantities]

ASSUME SentinelAssumption ==
  /\ NULL \notin Slots /\ NULL \notin Level
  /\ NULL \notin [id : Ids, side : Sides, price : Prices, quantity : 0..QuantityRange - 1]
  /\ Vacant \notin Map!Entry

\* The type of every variable; the pools never hand out more than they have.
TypeOK ==
  /\ order_map_ \in [0..MapSize - 1 -> Map!Entry \cup {Vacant}]
  /\ map_size \in 0..MaxOrders
  /\ orders \in [Slots -> OrderRecord]
  /\ free_list_ \in Seq(Slots) /\ Len(free_list_) <= MaxOrders
  /\ levels \in [Sides -> [Prices -> Level \cup {NULL}]]
  /\ level_available \in 0..MaxLevels
  /\ pc \in {"idle", "readmit", "match", "rest"}
  /\ call \in Call \cup {NULL} /\ (call = NULL <=> pc = "idle")
  /\ order \in Slots \cup {NULL} /\ (order # NULL <=> pc \in {"match", "rest"})
  /\ trades \in Seq(Report)
  /\ arrivals \in Seq(Slots) /\ clears \in 0..MaxClears

\* A slot of order_pool_ is used for one thing at a time: no order is in two lists,
\* none is released twice or while it is still linked, and the new order gets a
\* slot nothing points to.
NoSlotInTwoPlaces ==
  /\ \A i, j \in DOMAIN free_list_ : free_list_[i] = free_list_[j] => i = j
  /\ \A i, j \in DOMAIN arrivals : arrivals[i] = arrivals[j] => i = j
  /\ Elements(arrivals) = Queued
  /\ \A k, l \in LevelKeys : \A i \in DOMAIN Queue(k), j \in DOMAIN Queue(l) :
       Queue(k)[i] = Queue(l)[j] => k = l /\ i = j
  /\ Elements(free_list_) \cap (Queued \cup InFlight) = {}
  /\ Queued \cap InFlight = {}

\* Every level is linked to the orders that point to it, is not empty, and its
\* totals are those of its list (total_quantity in 32 bit arithmetic), although
\* matching subtracts each fill and remove_order what is left (orderbook.cpp:242,
\* orderbook.hpp:109).
LevelsAddUp ==
  \A key \in LevelKeys :
    LET level == levels[key[1]][key[2]] IN
    /\ level.queue # <<>>
    /\ \A s \in Elements(level.queue) :
         orders[s].side = key[1] /\ orders[s].price = key[2] /\ orders[s].resting
    /\ level.order_count = Len(level.queue)
    /\ level.total_quantity =
         WrapQ(MapThenSumSet(LAMBDA s : orders[s].quantity, Elements(level.queue)))

\* cancel_order and modify_order reach every resting order, by its own id.
RestingOrdersAreFound == \A s \in Queued : Map!Find(orders[s].id) = s

\* Nor does the order map point to an order that has left the book, and size() is
\* the number of resting orders.
MapAgrees ==
  /\ RestingOrdersAreFound
  /\ \A id \in Ids : Map!Find(id) # NULL =>
       Map!Find(id) \in Queued /\ orders[Map!Find(id)].id = id
  /\ map_size = Cardinality(Queued)

\* Between calls, and when an order comes to rest, every bid is below every ask.
NeverCrossed ==
  pc # "match" => \A p \in LevelPrices("Buy"), q \in LevelPrices("Sell") : p < q

\* Orders and levels are recycled: all of both pools is free or in the book.
NothingLeaks ==
  /\ Len(free_list_) + Cardinality(Queued) + Cardinality(InFlight) = MaxOrders
  /\ level_available + Cardinality(LevelKeys) = MaxLevels

\* add_order never keeps the rest of an order out of the book when some of it has
\* been traded, although level_pool_ may be exhausted (orderbook.cpp:33-37): to get
\* there the order has emptied a level.  An order that is left out has found every
\* level in use.
Drops == pc = "rest" /\ pc' = "idle" /\ arrivals' = arrivals
NoPartialDrop == [][Drops => trades = <<>> /\ Cardinality(LevelKeys) = MaxLevels]_vars

\* When modify_order, having cancelled the order, submits it again, the id is free
\* and so is a slot: it can lose the order only for want of a level
\* (orderbook.cpp:79-81).
ModifyReadmits == pc = "readmit" => ~Live(call.id) /\ free_list_ # <<>>

\* The n best levels, best first: what a depth query is to return.
Depth(side, n, out) ==
  /\ Len(out) = Lesser(n, Cardinality(LevelPrices(side)))
  /\ Elements(out) \subseteq LevelPrices(side)
  /\ \A i, j \in DOMAIN out : i < j => Before(side, out[i], out[j])
  /\ \A p \in LevelPrices(side) \ Elements(out), i \in DOMAIN out : Before(side, out[i], p)

\* get_asks and get_bids return the n best levels (orderbook.cpp:122-138), as the
\* "L3 depth" of README.md:126 has it.
AskDepth == \A n \in 0..MaxLevels : Depth("Sell", n, GetAsks(n))
BidDepth == \A n \in 0..MaxLevels : Depth("Buy", n, GetBids(n))

\* The book is a price-time priority book: each trade is with the oldest order at
\* the best price, and each call changes only the orders it trades with.
Abstract(s) == [id |-> orders[s].id, side |-> orders[s].side,
                price |-> orders[s].price, quantity |-> orders[s].quantity]
Promise == INSTANCE LimitOrderBook WITH
             book <- [i \in DOMAIN arrivals |-> Abstract(arrivals[i])],
             taker <- IF order = NULL THEN NULL ELSE Abstract(order),
             tape <- trades, None <- NULL
ImplementsLimitOrderBook == Promise!Spec

\* The orders at a price, the oldest first.
QueueAt(key) == IF key \in LevelKeys THEN Queue(key) ELSE <<>>

\* As long as clear() is not called, the book uses its order pool and its level lists
\* as LevelQueues, which OrderPool implements: it acquires an order that is free,
\* unlinks an order from the list it is in and releases it, once, and links or
\* releases the new order, never both (orderbook.cpp:14-39, 55-63, 246-248).
Lists == INSTANCE LevelQueues WITH
           Orders <- Slots, Levels <- Sides \X Prices, None <- NULL,
           queues <- [key \in Sides \X Prices |-> QueueAt(key)],
           free <- Elements(free_list_), new <- order
ImplementsLevelQueues == Lists!Spec
==============================================================================

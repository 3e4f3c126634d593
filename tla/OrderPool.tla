------------------------------ MODULE OrderPool ------------------------------
(***************************************************************************)
(* The memory under the order book: ObjectPool of include/orderbook/       *)
(* arena.hpp, whose free list is threaded through the released objects,    *)
(* and the doubly linked list of a PriceLevel (orderbook.hpp), threaded    *)
(* through the orders, as src/orderbook.cpp uses the two together.         *)
(*                                                                         *)
(* A slot is 128 bytes.  Its first word is the order's price while the     *)
(* slot is in use and FreeNode::next once it is released; the pointers of  *)
(* the order lie elsewhere and survive the release.  Quantities and totals *)
(* are OrderBook's: here an order is filled when the taker happens to.     *)
(***************************************************************************)
EXTENDS Integers, FiniteSets, SequencesExt

CONSTANTS PoolSize,   \* slots of order_pool_
          Levels,     \* the price levels there may be, by side and price
          MaxLevels,  \* capacity of level_pool_
          NULL

ASSUME PoolAssumption == PoolSize \in Nat \ {0} /\ MaxLevels \in Nat \ {0}

Slots == 1..PoolSize
Pointer == Slots \cup {NULL}
ListEnds == [head_order : Pointer, tail_order : Pointer]

ASSUME NullAssumption == NULL \notin Levels \cup Nat /\ NULL \notin ListEnds

VARIABLES
  storage_,              \* slot -> its memory
  free_list_, available_,
  levels,                \* level -> its list, NULL while there is no such level
  mapped,                \* the slots order_map_ points to
  order,                 \* the order add_order is adding
  matching, resting      \* match_order's level and its cursor in it

poolVars == <<storage_, free_list_, available_>>
vars == <<poolVars, levels, mapped, order, matching, resting>>

\* A definition whose comment begins with "Slip:" is a bug the code does not have;
\* each shows that a property notices it.

\* The constructor links the slots from the last to the first.
Init ==
  /\ storage_ = [s \in Slots |->
       [word |-> IF s = PoolSize THEN NULL ELSE s + 1,
        next_at_price |-> NULL, prev_at_price |-> NULL, price_level |-> NULL]]
  /\ free_list_ = 1 /\ available_ = PoolSize
  /\ levels = [l \in Levels |-> NULL]
  /\ mapped = {} /\ order = NULL /\ matching = NULL /\ resting = NULL

\* Slip: the slot is not counted.
ReleaseUncounted(memory, s) ==
  /\ storage_' = [memory EXCEPT ![s].word = free_list_]
  /\ free_list_' = s
  /\ UNCHANGED available_
\* Slip: the two assignments to the list are swapped.
ReleaseSwapped(memory, s) ==
  /\ storage_' = [memory EXCEPT ![s].word = s]
  /\ free_list_' = s
  /\ available_' = available_ + 1

\* ObjectPool::release.
Release(memory, s) ==
  /\ storage_' = [memory EXCEPT ![s].word = free_list_]
  /\ free_list_' = s
  /\ available_' = available_ + 1

\* Slip: the order in front still points to the one that leaves.
UnthreadedBehind(s) ==
  LET next == storage_[s].next_at_price
      prev == storage_[s].prev_at_price IN
  [t \in Slots |->
     [storage_[t] EXCEPT
        !.next_at_price = IF t = s THEN NULL ELSE @,
        !.prev_at_price = IF t = s THEN NULL ELSE IF t = next THEN prev ELSE @,
        !.price_level = IF t = s THEN NULL ELSE @]]
\* Slip: tail_order stays.
HeadOnly(level, s) ==
  [level EXCEPT !.head_order = IF storage_[s].prev_at_price = NULL
                               THEN storage_[s].next_at_price ELSE @]

\* PriceLevel::remove_order: what it leaves of the memory, and of the level.
Unthreaded(s) ==
  LET next == storage_[s].next_at_price
      prev == storage_[s].prev_at_price IN
  [t \in Slots |->
     [storage_[t] EXCEPT
        !.next_at_price = IF t = s THEN NULL ELSE IF t = prev THEN next ELSE @,
        !.prev_at_price = IF t = s THEN NULL ELSE IF t = next THEN prev ELSE @,
        !.price_level = IF t = s THEN NULL ELSE @]]
Ends(level, s) ==
  [head_order |-> IF storage_[s].prev_at_price = NULL
                  THEN storage_[s].next_at_price ELSE level.head_order,
   tail_order |-> IF storage_[s].next_at_price = NULL
                  THEN storage_[s].prev_at_price ELSE level.tail_order]

------------------------------------------------------------------------------
(* add_order.                                                              *)

\* order_pool_.acquire, for an order of some level; it fails when nothing is free.
Acquire(l) ==
  /\ order = NULL
  /\ free_list_ # NULL
  /\ order' = free_list_
  /\ free_list_' = storage_[free_list_].word
  /\ available_' = available_ - 1
  /\ storage_' = [storage_ EXCEPT ![free_list_] =
                    [word |-> l, next_at_price |-> NULL, prev_at_price |-> NULL,
                     price_level |-> NULL]]
  /\ UNCHANGED <<levels, mapped, matching, resting>>

\* A filled order, or one that finds no level, goes back.
Discard ==
  /\ order # NULL /\ matching = NULL
  /\ Release(storage_, order)
  /\ order' = NULL
  /\ UNCHANGED <<levels, mapped, matching, resting>>

\* find_or_create_level, PriceLevel::add_order and the insertion into the map.
Rest ==
  /\ order # NULL /\ matching = NULL
  /\ LET l == storage_[order].word
         tail == IF levels[l] = NULL THEN NULL ELSE levels[l].tail_order IN
       /\ levels[l] # NULL \/ Cardinality({k \in Levels : levels[k] # NULL}) < MaxLevels
       /\ storage_' = [s \in Slots |->
            IF s = order THEN [storage_[s] EXCEPT !.next_at_price = NULL,
                                 !.prev_at_price = tail, !.price_level = l]
            ELSE IF s = tail THEN [storage_[s] EXCEPT !.next_at_price = order]
            ELSE storage_[s]]
       /\ levels' = [levels EXCEPT ![l] =
            [head_order |-> IF tail = NULL THEN order ELSE @.head_order,
             tail_order |-> order]]
  /\ mapped' = mapped \cup {order}
  /\ order' = NULL
  /\ UNCHANGED <<free_list_, available_, matching, resting>>

\* match_order enters the best level of the other side.
EnterLevel(l) ==
  /\ order # NULL /\ matching = NULL
  /\ l # storage_[order].word /\ levels[l] # NULL
  /\ matching' = l
  /\ resting' = levels[l].head_order
  /\ UNCHANGED <<poolVars, levels, mapped, order>>

\* Slip: the next order is read when the filled one has been removed.
FillThenRead ==
  /\ resting # NULL
  /\ resting' = Unthreaded(resting)[resting].next_at_price
  /\ levels' = [levels EXCEPT ![matching] = Ends(@, resting)]
  /\ mapped' = mapped \ {resting}
  /\ Release(Unthreaded(resting), resting)
  /\ UNCHANGED <<order, matching>>

\* The resting order is filled: it leaves level, map and pool, and the loop goes
\* on with the order behind it, whose address it read before.
Fill ==
  /\ resting # NULL
  /\ resting' = storage_[resting].next_at_price
  /\ levels' = [levels EXCEPT ![matching] = Ends(@, resting)]
  /\ mapped' = mapped \ {resting}
  /\ Release(Unthreaded(resting), resting)
  /\ UNCHANGED <<order, matching>>

\* The level is used up, or the taker is filled; an empty level is removed.
LeaveLevel ==
  /\ matching # NULL
  /\ matching' = NULL /\ resting' = NULL
  /\ levels' = [levels EXCEPT ![matching] = IF @.head_order = NULL THEN NULL ELSE @]
  /\ UNCHANGED <<poolVars, mapped, order>>

\* cancel_order, of an order the map points to.
Cancel(s) ==
  /\ order = NULL
  /\ s \in mapped
  /\ mapped' = mapped \ {s}
  /\ IF storage_[s].price_level = NULL
     THEN Release(storage_, s) /\ UNCHANGED levels
     ELSE LET l == storage_[s].price_level
              left == Ends(levels[l], s) IN
          /\ levels' = [levels EXCEPT ![l] = IF left.head_order = NULL THEN NULL ELSE left]
          /\ Release(Unthreaded(s), s)
  /\ UNCHANGED <<order, matching, resting>>

Next ==
  \/ \E l \in Levels : Acquire(l) \/ EnterLevel(l)
  \/ Discard \/ Rest \/ Fill \/ LeaveLevel
  \/ \E s \in Slots : Cancel(s)

Spec == Init /\ [][Next]_vars

------------------------------------------------------------------------------
(* Properties.                                                             *)

\* The type of every variable.
TypeOK ==
  /\ storage_ \in [Slots -> [word : Slots \cup Levels \cup {NULL},
                             next_at_price : Pointer, prev_at_price : Pointer,
                             price_level : Levels \cup {NULL}]]
  /\ free_list_ \in Pointer /\ available_ \in 0..PoolSize
  /\ levels \in [Levels -> ListEnds \cup {NULL}]
  /\ mapped \subseteq Slots
  /\ order \in Pointer /\ resting \in Pointer /\ matching \in Levels \cup {NULL}

\* The slots a chain of pointers visits; one that comes back to itself visits
\* more than there are.
Chain(first, next) ==
  LET at[n \in 0..PoolSize] ==
        IF n = 0 THEN first ELSE IF at[n - 1] \in Slots THEN next[at[n - 1]] ELSE NULL IN
  [n \in 1..Cardinality({k \in 0..PoolSize : at[k] \in Slots}) |-> at[n - 1]]

Queue(l) ==
  IF levels[l] = NULL THEN <<>>
  ELSE Chain(levels[l].head_order, [s \in Slots |-> storage_[s].next_at_price])
FromTail(l) ==
  IF levels[l] = NULL THEN <<>>
  ELSE Chain(levels[l].tail_order, [s \in Slots |-> storage_[s].prev_at_price])
FreeSlots == Chain(free_list_, [s \in Slots |-> storage_[s].word])

\* The free list and the lists of the levels, threaded through the same memory,
\* never run into each other: with the order being added they are all of the pool,
\* available() is right, and acquire fails only when every slot is in use
\* (arena.hpp:141-163).
SlotsPartitioned ==
  LET lists == {Queue(l) : l \in Levels}
      queued == UNION {ToSet(q) : q \in lists} IN
  /\ Len(FreeSlots) = available_ /\ IsInjective(FreeSlots)
  /\ ToSet(FreeSlots) \cap queued = {}
  /\ order \notin ToSet(FreeSlots) \cup queued
  /\ ToSet(FreeSlots) \cup queued \cup ({order} \ {NULL}) = Slots

\* Each list reads the same in both directions, its orders point to their level and
\* no other order does, and cancel_order finds an order by the map exactly if it is
\* in a list (orderbook.hpp:80-115).
ListsThreaded ==
  /\ \A l \in Levels :
       /\ IsInjective(Queue(l))
       /\ FromTail(l) = Reverse(Queue(l))
       /\ ToSet(Queue(l)) = {s \in Slots : storage_[s].price_level = l}
       /\ levels[l] # NULL => Queue(l) # <<>> \/ matching = l
  /\ mapped = {s \in Slots : storage_[s].price_level # NULL}

\* The cursor of match_order is never a released order: whatever it has filled, it
\* is at the head of what is left of the level (orderbook.cpp:244-249).
CursorAtHead == matching # NULL => resting = levels[matching].head_order

\* Pool and lists, threaded through one memory, are queues that hand each order out
\* to one place at a time, whatever is cancelled from their middle.
Promise == INSTANCE LevelQueues WITH
             Orders <- Slots, None <- NULL, queues <- [l \in Levels |-> Queue(l)],
             free <- ToSet(FreeSlots), new <- order
ImplementsLevelQueues == Promise!Spec
==============================================================================

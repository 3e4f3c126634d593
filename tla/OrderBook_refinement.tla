------------------------- MODULE OrderBook_refinement -------------------------
(***************************************************************************)
(* The matching engine implements LimitOrderBook, as long as no removal    *)
(* from its order map cuts a chain.  The abstract book is the list of the  *)
(* resting orders in their order of arrival, so that a level's queue says  *)
(* who is served first only because each level is in that order (Arrived). *)
(* Until it is cleared it also implements LevelQueues: that is how it uses *)
(* its order pool and its level lists.                                     *)
(***************************************************************************)
EXTENDS OrderBook_proofs

Book == [i \in DOMAIN arrivals |-> Abstract(arrivals[i])]
Taker == IF order = NULL THEN NULL ELSE Abstract(order)

------------------------------------------------------------------------------
(* The abstract book.                                                      *)

LEMMA AbstractFields ==
  \A s : /\ Abstract(s).id = orders[s].id /\ Abstract(s).side = orders[s].side
         /\ Abstract(s).price = orders[s].price
         /\ Abstract(s).quantity = orders[s].quantity
BY DEF Abstract

LEMMA BookShape ==
  ASSUME Inv
  PROVE  /\ DOMAIN Book = 1..Len(arrivals) /\ Len(arrivals) \in Nat
         /\ DOMAIN arrivals = 1..Len(arrivals)
         /\ \A S : (\A s \in Queued : Abstract(s) \in S) => Book \in Seq(S)
         /\ Len(Book) = Len(arrivals)
         /\ \A i \in 1..Len(arrivals) :
              /\ Book[i] = Abstract(arrivals[i])
              /\ arrivals[i] \in Queued /\ arrivals[i] \in Slots
<1>1. arrivals \in Seq(Slots)
  BY DEF Inv, TypeOK
<1>2. DOMAIN arrivals = 1..Len(arrivals) /\ Len(arrivals) \in Nat
  BY <1>1, SeqFacts
<1>3. \A i \in 1..Len(arrivals) :
        /\ Book[i] = Abstract(arrivals[i])
        /\ arrivals[i] \in Queued /\ arrivals[i] \in Slots
  BY <1>1, <1>2, SeqFacts DEF Book, Inv, BookSound, Arrived, Elements
<1>4. \A S : (\A s \in Queued : Abstract(s) \in S) => Book \in Seq(S)
  <2> SUFFICES ASSUME NEW S, \A s \in Queued : Abstract(s) \in S PROVE Book \in Seq(S)
    OBVIOUS
  <2>1. Book \in [1..Len(arrivals) -> S]
    BY <1>2, <1>3 DEF Book
  <2> QED BY <1>2, <2>1
<1>5. Len(Book) = Len(arrivals)
  <2>1. DOMAIN Book = 1..Len(arrivals)
    BY <1>2 DEF Book
  <2> QED BY <1>2, <2>1
<1> QED BY <1>2, <1>3, <1>4, <1>5 DEF Book

LEMMA AbstractIsNotNull ==
  ASSUME Inv, order # NULL
  PROVE  Abstract(order) # NULL
<1>1. /\ order \in Slots /\ orders[order].id \in Ids /\ orders[order].price \in Prices
      /\ orders[order].side \in Sides /\ orders[order].quantity \in 0..QuantityRange - 1
  <2>1. order \in Slots
    BY DEF Inv, TypeOK
  <2>2. orders[order] \in OrderRecord
    BY <2>1 DEF Inv, TypeOK
  <2>3. orders[order].quantity \in 0..QuantityRange - 1
    BY <2>2, DomainAssumption DEF OrderRecord
  <2> QED BY <2>1, <2>3, OrderFacts DEF Inv, TakerSound
<1> QED BY <1>1, SentinelAssumption DEF Abstract

\* A resting order's place in the abstract book.
LEMMA PlaceOf ==
  ASSUME Inv, NEW s \in Queued
  PROVE  \E i \in DOMAIN Book : arrivals[i] = s /\ Book[i] = Abstract(s)
<1>1. PICK i \in DOMAIN arrivals : arrivals[i] = s
  BY DEF Inv, BookSound, Arrived, Elements
<1> QED BY <1>1, BookShape

\* The other orders stay as they are.
OthersSame(S) == \A s \in Queued \ S : Abstract(s)' = Abstract(s)

LEMMA BookSame ==
  ASSUME Inv, arrivals' = arrivals, OthersSame({})
  PROVE  Book' = Book
<1>1. \A i \in DOMAIN arrivals : Abstract(arrivals[i])' = Abstract(arrivals[i])
  BY BookShape DEF OthersSame
<1> QED BY <1>1 DEF Book

LEMMA BookEdited ==
  ASSUME Inv, arrivals' = arrivals, NEW i \in DOMAIN Book, OthersSame({arrivals[i]}),
         NEW q, Abstract(arrivals[i])' = [Book[i] EXCEPT !.quantity = @ - q]
  PROVE  Book' = [Book EXCEPT ![i].quantity = @ - q]
<1>1. \A j \in DOMAIN Book : j # i => arrivals[j] # arrivals[i] /\ arrivals[j] \in Queued
  BY BookShape DEF Inv, BookSound, Arrived, Distinct
<1>2. \A j \in DOMAIN Book : j # i => Abstract(arrivals[j])' = Book[j]
  BY <1>1, BookShape DEF OthersSame
<1>3. DOMAIN Book' = DOMAIN Book /\ \A j \in DOMAIN Book : Book'[j] = Abstract(arrivals[j])'
  BY DEF Book
<1>4. DOMAIN [Book EXCEPT ![i].quantity = @ - q] = DOMAIN Book
  OBVIOUS
<1>5. \A j \in DOMAIN Book : Book'[j] = [Book EXCEPT ![i].quantity = @ - q][j]
  BY <1>2, <1>3
<1> DEFINE old == Book
<1>6. Book' = [j \in DOMAIN Book |-> Book'[j]]
  BY <1>3 DEF Book
<1> QED BY <1>5, <1>6

LEMMA BookWithout ==
  ASSUME Inv, NEW i \in DOMAIN Book, arrivals' = RemoveFirst(arrivals, arrivals[i]),
         OthersSame({arrivals[i]})
  PROVE  Book' = Promise!Without(i)
<1> DEFINE l == Len(arrivals)
           S == {Abstract(s) : s \in Queued}
<1>1. /\ l \in Nat /\ i \in 1..l /\ arrivals \in Seq(Slots) /\ Distinct(arrivals)
      /\ Book \in Seq(S) /\ Len(Book) = l /\ i \in DOMAIN arrivals
  BY BookShape DEF Inv, TypeOK, BookSound, Arrived
<1>2. arrivals' = RemoveAt(arrivals, i)
  BY <1>1, RemoveFirstIsAt
<1>3. /\ arrivals' \in Seq(Slots) /\ Len(arrivals') = l - 1
      /\ \A j \in 1..l - 1 : arrivals'[j] = arrivals[IF j < i THEN j ELSE j + 1]
  BY <1>1, <1>2, RemovedAt
<1>4. /\ RemoveAt(Book, i) \in Seq(S) /\ Len(RemoveAt(Book, i)) = l - 1
      /\ \A j \in 1..l - 1 : RemoveAt(Book, i)[j] = Book[IF j < i THEN j ELSE j + 1]
  BY <1>1, RemovedAt
<1> HIDE DEF l, S
<1>5. \A j \in 1..l - 1 : /\ (IF j < i THEN j ELSE j + 1) \in 1..l
                          /\ (IF j < i THEN j ELSE j + 1) # i
  BY <1>1
<1>6. DOMAIN arrivals' = 1..l - 1 /\ DOMAIN RemoveAt(Book, i) = 1..l - 1
  BY <1>3, <1>4, SeqFacts
<1>7. ASSUME NEW j \in 1..l - 1
      PROVE  Abstract(arrivals[j])' = RemoveAt(Book, i)[j]
  <2> DEFINE m == IF j < i THEN j ELSE j + 1
  <2>1. m \in 1..l /\ m # i /\ (arrivals[j])' = arrivals[m] /\ RemoveAt(Book, i)[j] = Book[m]
    BY <1>3, <1>4, <1>5
  <2>2. arrivals[m] # arrivals[i] /\ arrivals[m] \in Queued /\ Book[m] = Abstract(arrivals[m])
    BY <1>1, <2>1, BookShape DEF Distinct, l
  <2> HIDE DEF m
  <2>3. PICK s \in Queued : s = arrivals[m] /\ s # arrivals[i] /\ s = (arrivals[j])'
    BY <2>1, <2>2
  <2>4. Abstract(s)' = Book[m]
    BY <2>2, <2>3 DEF OthersSame
  <2>5. Abstract(arrivals[j])' = Abstract(s)'
    BY <2>3 DEF Abstract
  <2> QED BY <2>1, <2>4, <2>5
<1>8. Book' = RemoveAt(Book, i)
  <2>1. Book' = [j \in 1..l - 1 |-> Abstract(arrivals[j])']
    BY <1>6 DEF Book
  <2>2. RemoveAt(Book, i) = [j \in 1..l - 1 |-> RemoveAt(Book, i)[j]]
    BY <1>4, <1>6
  <2> QED BY <1>7, <2>1, <2>2
<1> QED BY <1>8 DEF Promise!Without, RemoveAt, Book

LEMMA BookExtended ==
  ASSUME Inv, NEW slot \in Slots, arrivals' = Append(arrivals, slot), OthersSame({}),
         Abstract(slot)' = Abstract(slot)
  PROVE  Book' = Append(Book, Abstract(slot))
<1> DEFINE l == Len(arrivals)
           S == {Abstract(s) : s \in Queued}
           T == S \cup {Abstract(slot)}
           new == Append(Book, Abstract(slot))
<1>1. /\ l \in Nat /\ arrivals \in Seq(Slots) /\ DOMAIN arrivals = 1..l
      /\ Book \in Seq(T) /\ Len(Book) = l
  BY BookShape DEF Inv, TypeOK
<1>2. /\ arrivals' \in Seq(Slots) /\ Len(arrivals') = l + 1
      /\ \A i \in 1..l : arrivals'[i] = arrivals[i]
      /\ arrivals'[l + 1] = slot
  BY <1>1, AppendProperties
<1>3. /\ new \in Seq(T)
      /\ Len(new) = l + 1
      /\ \A i \in 1..l : new[i] = Book[i]
      /\ new[l + 1] = Abstract(slot)
  BY <1>1, AppendProperties
<1> HIDE DEF l, S, T, new
<1>4. DOMAIN arrivals' = 1..l + 1 /\ DOMAIN new = 1..l + 1
  BY <1>2, <1>3, SeqFacts
<1>5. ASSUME NEW i \in 1..l + 1
      PROVE  Abstract(arrivals[i])' = new[i]
  <2>1. CASE i \in 1..l
    <3>1. PICK s \in Queued : s = arrivals[i] /\ s = (arrivals[i])' /\ Book[i] = Abstract(s)
      BY <1>2, <2>1, BookShape DEF l
    <3>2. Abstract(s)' = Book[i]
      BY <3>1 DEF OthersSame
    <3>3. Abstract(arrivals[i])' = Abstract(s)'
      BY <3>1 DEF Abstract
    <3> QED BY <1>3, <2>1, <3>2, <3>3
  <2>2. CASE i = l + 1
    <3>1. Abstract(arrivals[i])' = Abstract(slot)'
      BY <1>2, <2>2 DEF Abstract
    <3> QED BY <1>3, <2>2, <3>1
  <2> QED BY <1>1, <2>1, <2>2
<1>6. Book' = [i \in 1..l + 1 |-> Abstract(arrivals[i])']
  BY <1>4 DEF Book
<1>7. new = [i \in 1..l + 1 |-> new[i]]
  BY <1>3, <1>4
<1> QED BY <1>5, <1>6, <1>7 DEF new

\* An order nobody touches is the same order.
LEMMA Untouched ==
  ASSUME NEW S, \A s \in Queued \ S : orders'[s] = orders[s]
  PROVE  OthersSame(S)
BY DEF OthersSame, Abstract

------------------------------------------------------------------------------
(* The steps.                                                              *)

LEMMA AdmitSubmits ==
  ASSUME Inv, NEW id \in Ids, NEW side \in Sides, NEW price \in Prices,
         NEW quantity \in Quantities, pc \in {"idle", "readmit"},
         Admit(id, side, price, quantity)
  PROVE  Promise!Next
<1> DEFINE slot == Head(free_list_)
           new == [id |-> id, side |-> side, price |-> price, quantity |-> quantity,
                   resting |-> FALSE]
           o == [id |-> id, side |-> side, price |-> price, quantity |-> quantity]
<1>1. /\ ~Live(id) /\ order' = slot /\ orders' = [orders EXCEPT ![slot] = new]
      /\ arrivals' = arrivals /\ trades' = trades
  BY DEF Admit, bookVars
<1>2. slot \in Slots /\ slot \in Elements(free_list_) /\ slot # NULL
  BY Acquired, SentinelAssumption DEF Inv, TypeOK, BookSound, Apart, Admit
<1>3. order = NULL /\ Queued \subseteq Slots /\ slot \notin Queued
  BY <1>2, QueuedType DEF Inv, TypeOK, BookSound, Apart
<1> HIDE DEF slot
<1>4. OthersSame({})
  <2>1. \A s \in Queued : orders'[s] = orders[s]
    BY <1>1, <1>3
  <2> QED BY <2>1, Untouched
<1>5. Book' = Book
  BY <1>1, <1>4, BookSame
<1>6. Taker = NULL /\ Taker' = o
  <2>1. orders'[slot] = new
    BY <1>1, <1>2 DEF Inv, TypeOK
  <2> QED BY <1>1, <1>2, <1>3, <2>1 DEF Taker, Abstract
<1>7. \A i \in DOMAIN Book : Book[i].id # id
  <2> SUFFICES ASSUME NEW i \in DOMAIN Book, orders[arrivals[i]].id = id PROVE FALSE
    BY BookShape, AbstractFields
  <2>1. arrivals[i] \in Queued /\ arrivals[i] \in Slots
    BY BookShape
  <2>2. Map!Find(id) = arrivals[i]
    BY <2>1 DEF Inv, MapSound, MapAgrees, RestingOrdersAreFound
  <2> QED BY <1>1, <2>1, <2>2, SentinelAssumption DEF Live
<1>8. Promise!Submit(o)
  BY <1>1, <1>5, <1>6, <1>7 DEF Promise!Submit, Book, Taker
<1>9. o \in Promise!Order
  BY DEF Promise!Order, Sides
<1> QED BY <1>8, <1>9 DEF Promise!Next

\* The call returns: the taker is gone, and so are its trades.
LEMMA Returned ==
  ASSUME Return
  PROVE  Taker' = NULL /\ trades' = <<>>
BY DEF Return, Taker

LEMMA NothingCrosses ==
  ASSUME Inv, order # NULL, ~Reaches(orders[order]), NEW i \in DOMAIN Book
  PROVE  ~Promise!Crosses(Book[i])
<1> DEFINE o == orders[order]
           s == arrivals[i]
<1>1. order \in Slots /\ o \in OrderRecord /\ o.side \in Sides /\ o.price \in Prices
  BY OrderFacts DEF Inv, TypeOK, TakerSound
<1>2. s \in Queued /\ Book[i] = Abstract(s) /\ Taker = Abstract(order)
  BY BookShape DEF Taker
<1>3. PICK k \in LevelKeys : s \in Elements(Queue(k))
  BY <1>2 DEF Queued
<1>4. orders[s].side = k[1] /\ orders[s].price = k[2] /\ k = <<k[1], k[2]>>
      /\ k[1] \in Sides /\ k[2] \in Prices
  BY <1>3, LevelFacts DEF Inv, BookSound, Placed
<1>5. k[2] \in LevelPrices(k[1])
  BY <1>3, <1>4, KeysOfPrices
<1> SUFFICES ASSUME k[1] # o.side PROVE Promise!Better(k[1], o.price, k[2])
  BY <1>2, <1>4, AbstractFields DEF Promise!Crosses, Taker
<1>6. k[1] = Opposite(o.side)
  BY <1>1, <1>4 DEF Opposite, Sides
<1>7. Before(k[1], o.price, k[2])
  BY <1>1, <1>5, <1>6, ReachesSome DEF Inv, BookSound, LevelsCounted
<1> QED BY <1>7 DEF Before, Promise!Better

LEMMA RestRests ==
  ASSUME Inv, Rest
  PROVE  Promise!Rest
<1>1. pc = "rest" /\ order \in Slots /\ order # NULL /\ ~Reaches(orders[order])
      /\ (trades = <<>> \/ orders[order].quantity > 0)
  BY DEF Rest, Inv, TypeOK, Control
<1>2. /\ arrivals' = Append(arrivals, order) /\ Return
      /\ orders' = [orders EXCEPT ![order].resting = TRUE]
  BY DEF Rest
<1>3. \A s \in Slots : Abstract(s)' = Abstract(s)
  <2>1. orders \in [Slots -> OrderRecord]
    BY DEF Inv, TypeOK
  <2> QED BY <1>2, <2>1 DEF Abstract, OrderRecord
<1>4. OthersSame({})
  BY <1>3, QueuedType DEF OthersSame, Inv
<1>5. Book' = Append(Book, Taker) /\ Taker = Abstract(order)
  BY <1>1, <1>2, <1>3, <1>4, BookExtended DEF Taker
<1>6. Taker # NULL
  BY <1>1, <1>5, AbstractIsNotNull
<1>7. Taker.quantity > 0 \/ trades = <<>>
  BY <1>1, <1>5, AbstractFields
<1>8. \A i \in DOMAIN Book : ~Promise!Crosses(Book[i])
  BY <1>1, NothingCrosses
<1> QED BY <1>2, <1>5, <1>6, <1>7, <1>8, Returned DEF Promise!Rest, Book, Taker

\* The head of the best level is the oldest of the best orders of its side.
LEMMA HeadIsFirst ==
  ASSUME Inv, pc = "match", Reaches(orders[order]), NEW i \in DOMAIN Book,
         arrivals[i] = TradeHead
  PROVE  Promise!First(i) /\ Promise!Crosses(Book[i])
<1> DEFINE K == TradeKey
           h == TradeHead
<1>1. /\ order \in Slots /\ K \in LevelKeys /\ h \in Elements(Queue(K)) /\ h = Queue(K)[1]
      /\ h \in Queued /\ K[1] = Opposite(orders[order].side) /\ K[2] = BestPrice(K[1])
      /\ orders[order].side \in Sides /\ orders[order].price \in Prices
      /\ K[1] \in Sides
  BY TradeParties, OrderFacts DEF TradeHead, Inv
<1> HIDE DEF K, h
<1>2. \A j \in DOMAIN Book :
        \E k \in LevelKeys : /\ arrivals[j] \in Elements(Queue(k)) /\ k = <<k[1], k[2]>>
                             /\ Book[j].side = k[1] /\ Book[j].price = k[2]
                             /\ k[1] \in Sides /\ k[2] \in LevelPrices(k[1])
  <2> SUFFICES ASSUME NEW j \in DOMAIN Book
               PROVE  \E k \in LevelKeys :
                        /\ arrivals[j] \in Elements(Queue(k)) /\ k = <<k[1], k[2]>>
                        /\ Book[j].side = k[1] /\ Book[j].price = k[2]
                        /\ k[1] \in Sides /\ k[2] \in LevelPrices(k[1])
    OBVIOUS
  <2>1. arrivals[j] \in Queued /\ Book[j] = Abstract(arrivals[j])
    BY BookShape
  <2>2. PICK k \in LevelKeys : arrivals[j] \in Elements(Queue(k))
    BY <2>1 DEF Queued
  <2>3. /\ orders[arrivals[j]].side = k[1] /\ orders[arrivals[j]].price = k[2]
        /\ k = <<k[1], k[2]>> /\ k[1] \in Sides /\ k[2] \in Prices
    BY <2>2, LevelFacts DEF Inv, BookSound, Placed
  <2>4. k[2] \in LevelPrices(k[1])
    BY <2>3, KeysOfPrices
  <2> QED BY <2>1, <2>2, <2>3, <2>4, AbstractFields
<1>3. Book[i].side = K[1] /\ Book[i].price = K[2]
  <2>1. Book[i] = Abstract(h)
    BY BookShape DEF h
  <2> QED BY <1>1, <2>1, AbstractFields DEF Inv, BookSound, Placed
<1>4. Promise!Crosses(Book[i])
  <2>1. ~Before(K[1], orders[order].price, K[2]) /\ K[1] # orders[order].side
    BY <1>1, BeforeOrders DEF Reaches
  <2>2. Taker.side = orders[order].side /\ Taker.price = orders[order].price
    BY <1>1, SentinelAssumption, AbstractFields DEF Taker
  <2> QED BY <1>3, <2>1, <2>2 DEF Promise!Crosses, Promise!Better, Before, Taker
<1>5. ASSUME NEW j \in DOMAIN Book, Book[j].side = Book[i].side
      PROVE  ~Promise!Better(Book[i].side, Book[j].price, Book[i].price)
  <2>1. Book[j].price \in LevelPrices(K[1])
    BY <1>2, <1>3, <1>5
  <2>2. ~Before(K[1], Book[j].price, K[2])
    BY <1>1, <2>1, BestIsFirst DEF Inv, BookSound, LevelsCounted
  <2> QED BY <1>3, <2>2 DEF Before, Promise!Better
<1>6. ASSUME NEW j \in DOMAIN Book, Book[j].side = Book[i].side,
             Book[j].price = Book[i].price
      PROVE  i <= j
  <2>1. PICK k \in LevelKeys : /\ arrivals[j] \in Elements(Queue(k)) /\ k = <<k[1], k[2]>>
                               /\ Book[j].side = k[1] /\ Book[j].price = k[2]
    BY <1>2
  <2>2. k = K
    BY <1>1, <1>3, <1>6, <2>1, LevelFacts DEF Inv
  <2>3. /\ i \in 1..Len(arrivals) /\ j \in 1..Len(arrivals) /\ Len(arrivals) \in Nat
        /\ DOMAIN arrivals = 1..Len(arrivals)
    BY BookShape
  <2>4. Queue(K) \in Seq(Slots)
    BY <1>1, LevelFacts DEF Inv
  <2>5. PICK m \in DOMAIN Queue(K) : Queue(K)[m] = arrivals[j]
    BY <2>1, <2>2 DEF Elements
  <2>6. m \in Nat /\ m >= 1 /\ 1 \in DOMAIN Queue(K)
    BY <2>4, <2>5, SeqFacts
  <2>7. CASE m = 1
    <3>1. arrivals[j] = arrivals[i]
      BY <1>1, <2>5, <2>7 DEF h
    <3> QED BY <2>3, <3>1 DEF Inv, BookSound, Arrived, Distinct
  <2>8. CASE m # 1
    <3>1. Precedes(Queue(K), h, arrivals[j])
      BY <1>1, <2>5, <2>6, <2>8 DEF Precedes
    <3>2. h \in Slots /\ arrivals[j] \in Slots
      BY <1>1, <2>3, BookShape, QueuedType DEF Inv
    <3>3. Precedes(arrivals, h, arrivals[j])
      BY <1>1, <3>1, <3>2 DEF Inv, BookSound, Arrived
    <3>4. PICK a, b \in 1..Len(arrivals) : a < b /\ arrivals[a] = h /\ arrivals[b] = arrivals[j]
      BY <2>3, <3>3 DEF Precedes
    <3>5. a = i /\ b = j
      BY <2>3, <3>4 DEF Inv, BookSound, Arrived, Distinct, h
    <3> QED BY <2>3, <3>4, <3>5
  <2> QED BY <2>7, <2>8
<1> QED BY <1>4, <1>5, <1>6 DEF Promise!First, Book

LEMMA TradeTrades ==
  ASSUME Inv, Trade
  PROVE  \E i \in DOMAIN Book : Promise!Trade(i)
<1>1. pc = "match" /\ Reaches(orders[order]) /\ orders[order].quantity > 0
  BY DEF Trade
<1>2. /\ order \in Slots /\ order # NULL /\ TradeHead \in Queued /\ TradeHead \in Slots
      /\ TradeHead # order /\ orders[order].side \in Sides
  BY <1>1, TradeParties, OrderFacts, SentinelAssumption DEF Inv
<1>3. PICK h \in Slots : h = TradeHead
  BY <1>2
<1>4. PICK i \in DOMAIN Book : arrivals[i] = h /\ Book[i] = Abstract(h)
  BY <1>2, <1>3, PlaceOf
<1>5. Promise!First(i) /\ Promise!Crosses(Book[i])
  BY <1>1, <1>3, <1>4, HeadIsFirst
<1>6. PICK q : /\ q = Lesser(orders[order].quantity, orders[h].quantity)
               /\ q = TradeQuantity /\ (Fills <=> q = orders[h].quantity)
  BY <1>3 DEF TradeQuantity, Fills
<1>7. /\ trades' = Append(trades, [price |-> orders[h].price, quantity |-> q,
                                   aggressor_side |-> orders[order].side])
      /\ orders'[order] = [orders[order] EXCEPT !.quantity = @ - q]
      /\ ~Fills => orders'[h] = [orders[h] EXCEPT !.quantity = @ - q]
      /\ \A s \in Slots : s # order /\ s # h => orders'[s] = orders[s]
      /\ order' = order
      /\ Fills => arrivals' = RemoveFirst(arrivals, h)
      /\ ~Fills => arrivals' = arrivals
  BY <1>3, <1>6, TradeShape DEF Unlinking, SameQueues
<1>8. orders[h] \in OrderRecord /\ orders[order] \in OrderRecord
  BY <1>2, OrderFacts DEF Inv
<1>9. OthersSame({h})
  <2>1. \A s \in Queued : s \in Slots /\ s # order
    BY <1>2, QueuedType DEF Inv, BookSound, Apart, InFlight
  <2>2. \A s \in Queued \ {h} : orders'[s] = orders[s]
    BY <1>7, <2>1
  <2> QED BY <2>2, Untouched
<1>10. Taker = Abstract(order) /\ Taker' = [Taker EXCEPT !.quantity = @ - q]
  BY <1>2, <1>7, <1>8 DEF Taker, Abstract, OrderRecord
<1>11. Book' = IF Fills THEN Promise!Without(i) ELSE [Book EXCEPT ![i].quantity = @ - q]
  <2>1. CASE Fills
    BY <1>4, <1>7, <1>9, <2>1, BookWithout
  <2>2. CASE ~Fills
    <3>1. Abstract(h)' = [Book[i] EXCEPT !.quantity = @ - q]
      BY <1>4, <1>7, <1>8, <2>2 DEF Abstract, OrderRecord
    <3>2. Abstract(arrivals[i])' = Abstract(h)'
      BY <1>4, <1>7, <2>2 DEF Abstract
    <3>3. Abstract(arrivals[i])' = [Book[i] EXCEPT !.quantity = @ - q]
      BY <3>1, <3>2
    <3>4. OthersSame({arrivals[i]}) /\ arrivals' = arrivals
      BY <1>4, <1>7, <1>9, <2>2
    <3>5. Book' = [Book EXCEPT ![i].quantity = @ - q]
      BY <3>3, <3>4, BookEdited
    <3> QED BY <2>2, <3>5
  <2> QED BY <2>1, <2>2
<1>12. /\ Book[i].quantity = orders[h].quantity /\ Book[i].price = orders[h].price
       /\ Taker.quantity = orders[order].quantity /\ Taker.side = orders[order].side
  BY <1>4, <1>10, AbstractFields
<1>13. q = Promise!Lesser(Taker.quantity, Book[i].quantity)
  BY <1>6, <1>12 DEF Lesser, Promise!Lesser
<1>14. Taker # NULL
  BY <1>2, <1>10, AbstractIsNotNull
<1>15. trades' = Append(trades, [price |-> Book[i].price, quantity |-> q,
                                 aggressor_side |-> Taker.side])
  BY <1>7, <1>12
<1>16. Book' = IF q = Book[i].quantity THEN Promise!Without(i)
                                       ELSE [Book EXCEPT ![i].quantity = @ - q]
  BY <1>6, <1>11, <1>12
<1>17. Taker.quantity > 0
  BY <1>1, <1>12
<1> QED BY <1>5, <1>10, <1>13, <1>14, <1>15, <1>16, <1>17 DEF Promise!Trade, Book, Taker

\* The order leaves the book; nobody waits for it.
LEMMA WithdrawCancels ==
  ASSUME Inv, NEW id \in Ids, pc = "idle", Live(id), Withdraw(id),
         order' = order, trades' = trades
  PROVE  Promise!Next
<1>1. PICK h \in Queued : h = Map!Find(id)
  BY DEF Live, Inv, MapSound, MapAgrees
<1>2. orders[h].resting /\ h \in Slots
  BY <1>1, QueuedType DEF Inv, BookSound, Placed, Queued
<1>3. arrivals' = RemoveFirst(arrivals, h) /\ orders' = [orders EXCEPT ![h] = Unused]
  BY <1>1, <1>2 DEF Withdraw
<1>4. order = NULL
  BY DEF Inv, TypeOK
<1>5. PICK i \in DOMAIN Book : arrivals[i] = h
  BY <1>1, PlaceOf
<1>6. OthersSame({h})
  <2>1. \A s \in Queued \ {h} : orders'[s] = orders[s]
    BY <1>3, QueuedType DEF Inv, TypeOK
  <2> QED BY <2>1, Untouched
<1>7. Book' = Promise!Without(i)
  BY <1>3, <1>5, <1>6, BookWithout
<1>8. Taker = NULL /\ Taker' = NULL
  BY <1>4 DEF Taker
<1>9. Promise!Cancel(i)
  BY <1>7, <1>8 DEF Promise!Cancel, Book, Taker
<1> QED BY <1>9 DEF Promise!Next, Book

LEMMA MatchEndDone ==
  ASSUME Inv, MatchEnd
  PROVE  Promise!Done \/ UNCHANGED Promise!vars
<1>1. /\ order \in Slots /\ order # NULL /\ arrivals' = arrivals
      /\ Queued \subseteq Slots /\ order \notin Queued
  BY QueuedType DEF MatchEnd, bookVars, Inv, TypeOK, BookSound, Apart, InFlight
<1>2. CASE orders[order].quantity = 0
  <2>1. Return /\ orders' = [orders EXCEPT ![order] = Unused]
    BY <1>2 DEF MatchEnd
  <2>2. OthersSame({})
    <3>1. \A s \in Queued : orders'[s] = orders[s]
      BY <1>1, <2>1 DEF Inv, TypeOK
    <3> QED BY <3>1, Untouched
  <2>3. Book' = Book
    BY <1>1, <2>2, BookSame
  <2>4. Taker = Abstract(order) /\ Taker # NULL /\ Taker.quantity = 0
    BY <1>1, <1>2, AbstractIsNotNull, AbstractFields DEF Taker
  <2> QED BY <2>1, <2>3, <2>4, Returned DEF Promise!Done, Book, Taker
<1>3. CASE orders[order].quantity # 0
  <2>1. orders' = orders /\ order' = order /\ trades' = trades
    BY <1>3 DEF MatchEnd, poolVars
  <2> QED BY <1>1, <2>1 DEF Promise!vars, Abstract
<1> QED BY <1>2, <1>3

LEMMA DropDrops ==
  ASSUME Inv, Drop
  PROVE  Promise!Drop
<1>1. /\ order \in Slots /\ order # NULL /\ ~Reaches(orders[order])
      /\ arrivals' = arrivals /\ Return /\ orders' = [orders EXCEPT ![order] = Unused]
  BY DEF Drop, bookVars, Inv, TypeOK, Control
<1>2. Queued \subseteq Slots /\ order \notin Queued
  BY <1>1, QueuedType DEF Inv, BookSound, Apart, InFlight
<1>3. OthersSame({})
  <2>1. \A s \in Queued : orders'[s] = orders[s]
    BY <1>1, <1>2 DEF Inv, TypeOK
  <2> QED BY <2>1, Untouched
<1>4. Book' = Book
  BY <1>1, <1>3, BookSame
<1>5. Taker # NULL
  BY <1>1, AbstractIsNotNull DEF Taker
<1>6. \A i \in DOMAIN Book : ~Promise!Crosses(Book[i])
  BY <1>1, NothingCrosses
<1> QED BY <1>1, <1>4, <1>5, <1>6, Returned DEF Promise!Drop, Book, Taker

LEMMA ClearClears ==
  ASSUME Inv, Clear
  PROVE  Promise!Clear
<1>1. order = NULL /\ order' = order /\ trades' = trades /\ arrivals' = <<>>
  BY DEF Clear, callVars, Inv, TypeOK
<1>2. Book' = <<>>
  <2>1. DOMAIN arrivals' = {}
    BY <1>1
  <2> QED BY <2>1 DEF Book
<1> QED BY <1>1, <1>2 DEF Promise!Clear, Book, Taker

LEMMA StepIsPromised ==
  Inv /\ [Next]_vars => [Promise!Next]_(Promise!vars)
<1> SUFFICES ASSUME Inv, [Next]_vars PROVE Promise!Next \/ UNCHANGED Promise!vars
  OBVIOUS
<1>1. CASE UNCHANGED vars
  BY <1>1 DEF vars, poolVars, bookVars, callVars, Promise!vars, Abstract
<1>2. ASSUME NEW id \in Ids, NEW side \in Sides, NEW price \in Prices,
             NEW quantity \in Quantities, AddOrder(id, side, price, quantity)
      PROVE  Promise!Next
  BY <1>2, AdmitSubmits DEF AddOrder
<1>3. CASE Readmit
  <2>1. pc = "readmit" /\ call \in Call
    BY <1>3 DEF Readmit, Inv, TypeOK
  <2>2. /\ call.id \in Ids /\ call.side \in Sides /\ call.price \in Prices
        /\ call.quantity \in Quantities
    BY <2>1 DEF Call
  <2> QED BY <1>3, <2>1, <2>2, AdmitSubmits DEF Readmit
<1>4. CASE Trade
  BY <1>4, TradeTrades DEF Promise!Next, Book
<1>5. CASE MatchEnd
  BY <1>5, MatchEndDone DEF Promise!Next
<1>6. CASE Rest
  BY <1>6, RestRests DEF Promise!Next
<1>7. CASE Drop
  BY <1>7, DropDrops DEF Promise!Next
<1>8. ASSUME NEW id \in Ids, CancelOrder(id) PROVE Promise!Next
  BY <1>8, WithdrawCancels DEF CancelOrder, callVars
<1>9. ASSUME NEW id \in Ids, NEW price \in Prices, NEW quantity \in Quantities,
             ModifyOrder(id, price, quantity)
      PROVE  Promise!Next
  BY <1>9, WithdrawCancels DEF ModifyOrder
<1>10. ASSUME NEW id \in Ids, RefusedAdd(id) \/ UnknownId(id) PROVE UNCHANGED vars
  BY <1>10 DEF RefusedAdd, UnknownId
<1>11. CASE Clear
  BY <1>11, ClearClears DEF Promise!Next
<1> QED BY <1>1, <1>2, <1>3, <1>4, <1>5, <1>6, <1>7, <1>8, <1>9, <1>10, <1>11 DEF Next

------------------------------------------------------------------------------

\* The book is a price-time priority book: each trade is with the oldest order at the
\* best price of the other side, at that order's price, every other order stays as it
\* is, and what is left of the new order rests only when it reaches nothing
\* (orderbook.cpp:14-47, 145-225).
THEOREM PriceTimePriority == Spec /\ NoCut => ImplementsLimitOrderBook
<1>1. Init => Promise!Init
  BY DEF Init, Promise!Init
<1> QED BY <1>1, Invariance, StepIsPromised, PTL
        DEF Spec, ImplementsLimitOrderBook, Promise!Spec

------------------------------------------------------------------------------
(* Order pool and level lists.                                             *)

Queues == [key \in Sides \X Prices |-> QueueAt(key)]
Free == Elements(free_list_)

LEMMA QueuesSame ==
  ASSUME LevelKeys' = LevelKeys, \A k \in LevelKeys : Queue(k)' = Queue(k)
  PROVE  Queues' = Queues
<1>1. \A k \in Sides \X Prices : QueueAt(k)' = QueueAt(k)
  BY DEF QueueAt
<1> QED BY <1>1 DEF Queues

LEMMA QueuesEdited ==
  ASSUME NEW k \in Sides \X Prices, NEW q, QueueAt(k)' = q,
         \A j \in Sides \X Prices : j # k => QueueAt(j)' = QueueAt(j)
  PROVE  Queues' = [Queues EXCEPT ![k] = q]
<1>1. \A j \in Sides \X Prices : QueueAt(j)' = IF j = k THEN q ELSE QueueAt(j)
  OBVIOUS
<1> QED BY <1>1 DEF Queues

\* An order that is unlinked is withdrawn from the middle of its queue.
LEMMA UnlinkWithdraws ==
  ASSUME Inv, NEW k \in LevelKeys, NEW slot \in Elements(Queue(k)), Unlinking(k, slot),
         free_list_' = <<slot>> \o free_list_, order' = order
  PROVE  Lists!Next
<1>1. /\ k \in Sides \X Prices /\ Queue(k) \in Seq(Slots) /\ Distinct(Queue(k))
      /\ slot \in Queued /\ slot \in Slots /\ QueueAt(k) = Queue(k)
  BY LevelFacts DEF Inv, BookSound, QueuesFilled, QueueAt, LevelKeys
<1>2. PICK left : left = RemoveFirst(Queue(k), slot)
  OBVIOUS
<1>3. /\ LevelKeys' = IF left = <<>> THEN LevelKeys \ {k} ELSE LevelKeys
      /\ \A j \in LevelKeys : j # k => levels'[j[1]][j[2]] = levels[j[1]][j[2]]
      /\ left # <<>> => Queue(k)' = left
  BY <1>2, UnlinkedKeys DEF Inv, BookSound
<1>4. QueueAt(k)' = left
  BY <1>3 DEF QueueAt
<1>5. ASSUME NEW j \in Sides \X Prices, j # k PROVE QueueAt(j)' = QueueAt(j)
  <2>1. j \in LevelKeys' <=> j \in LevelKeys
    BY <1>3, <1>5
  <2>2. j \in LevelKeys => Queue(j)' = Queue(j)
    BY <1>3, <1>5 DEF Queue
  <2> QED BY <2>1, <2>2 DEF QueueAt
<1>6. Queues' = [Queues EXCEPT ![k] = left]
  BY <1>1, <1>4, <1>5, QueuesEdited
<1>7. PICK i \in DOMAIN Queue(k) : Queue(k)[i] = slot
  BY DEF Elements
<1>8. left = RemoveAt(Queue(k), i) /\ i \in 1..Len(Queue(k))
  BY <1>1, <1>2, <1>7, RemoveFirstIsAt, SeqFacts
<1>9. Free' = Free \cup {slot}
  <2>1. free_list_ \in Seq(Slots) /\ Distinct(free_list_) /\ slot \notin Elements(free_list_)
    BY <1>1 DEF Inv, TypeOK, BookSound, Apart
  <2> QED BY <1>1, <2>1, Released DEF Free
<1>10. Queues[k] = Queue(k)
  BY <1>1 DEF Queues
<1>11. left = SubSeq(Queues[k], 1, i - 1) \o SubSeq(Queues[k], i + 1, Len(Queues[k]))
  BY <1>8, <1>10 DEF RemoveAt
<1>12. Lists!Withdraw(k, i)
  BY <1>6, <1>7, <1>9, <1>10, <1>11 DEF Lists!Withdraw, Queues, Free
<1>13. i \in 1..Len(Queues[k])
  BY <1>8, <1>10
<1> QED BY <1>1, <1>12, <1>13 DEF Lists!Next, Queues

LEMMA AdmitAcquires ==
  ASSUME Inv, NEW id \in Ids, NEW side \in Sides, NEW price \in Prices,
         NEW quantity \in Quantities, pc \in {"idle", "readmit"},
         Admit(id, side, price, quantity)
  PROVE  Lists!Next
<1> DEFINE slot == Head(free_list_)
<1>1. /\ order = NULL /\ order' = slot /\ free_list_' = Tail(free_list_)
      /\ free_list_ # <<>> /\ levels' = levels
  BY DEF Admit, bookVars, Inv, TypeOK
<1>2. slot \in Slots /\ slot \in Free /\ Free' = Free \ {slot}
  <2>1. free_list_ \in Seq(Slots) /\ Distinct(free_list_)
    BY DEF Inv, TypeOK, BookSound, Apart
  <2> QED BY <1>1, <2>1, Acquired DEF Free
<1>3. Queues' = Queues
  BY <1>1, QueuesSame DEF LevelKeys, Queue
<1> HIDE DEF slot
<1>4. Lists!Acquire(slot)
  BY <1>1, <1>2, <1>3 DEF Lists!Acquire, Queues, Free
<1> QED BY <1>2, <1>4 DEF Lists!Next

\* A filled order, or one without a level, is released.
LEMMA DiscardGivesBack ==
  ASSUME Inv, order \in Slots, UNCHANGED bookVars, order' = NULL,
         free_list_' = <<order>> \o free_list_
  PROVE  Lists!GiveBack
<1>1. order # NULL /\ order \notin Elements(free_list_) /\ free_list_ \in Seq(Slots)
      /\ Distinct(free_list_)
  BY SentinelAssumption DEF Inv, TypeOK, BookSound, Apart, InFlight
<1>2. Free' = Free \cup {order}
  BY <1>1, Released DEF Free
<1>3. Queues' = Queues
  BY UnchangedBook, QueuesSame DEF SameQueues
<1> QED BY <1>1, <1>2, <1>3 DEF Lists!GiveBack, Queues, Free

LEMMA TradeUnlinks ==
  ASSUME Inv, Trade
  PROVE  Lists!Next \/ UNCHANGED Lists!vars
<1>1. TradeKey \in LevelKeys /\ TradeHead \in Elements(Queue(TradeKey)) /\ order' = order
  BY TradeParties, TradeShape DEF Trade
<1>2. CASE Fills
  BY <1>1, <1>2, TradeShape, UnlinkWithdraws
<1>3. CASE ~Fills
  <2>1. SameQueues /\ free_list_' = free_list_
    BY <1>3, TradeShape
  <2>2. Queues' = Queues
    BY <2>1, QueuesSame DEF SameQueues
  <2> QED BY <1>1, <2>1, <2>2 DEF Lists!vars, Queues
<1> QED BY <1>2, <1>3

LEMMA RestEnqueues ==
  ASSUME Inv, Rest
  PROVE  Lists!Next
<1> DEFINE o == orders[order]
<1>1. /\ order \in Slots /\ order # NULL /\ order' = NULL /\ free_list_' = free_list_
      /\ o.side \in Sides /\ o.price \in Prices
  BY OrderFacts DEF Rest, Return, Inv, TypeOK, TakerSound
<1>2. PICK k : k = <<o.side, o.price>>
  OBVIOUS
<1>3. k \in Sides \X Prices /\ k[1] = o.side /\ k[2] = o.price
  BY <1>1, <1>2
<1>4. Linking(k, order)
  BY <1>3 DEF Rest, Linking
<1>5. /\ LevelKeys' = LevelKeys \cup {k}
      /\ \A j \in LevelKeys : j # k => levels'[j[1]][j[2]] = levels[j[1]][j[2]]
      /\ Queue(k)' = Append(QueueAt(k), order)
  BY <1>1, <1>3, <1>4, LinkedKeys DEF Inv, BookSound
<1>6. ASSUME NEW j \in Sides \X Prices, j # k PROVE QueueAt(j)' = QueueAt(j)
  <2>1. j \in LevelKeys' <=> j \in LevelKeys
    BY <1>5, <1>6
  <2>2. j \in LevelKeys => Queue(j)' = Queue(j)
    BY <1>5, <1>6 DEF Queue
  <2> QED BY <2>1, <2>2 DEF QueueAt
<1>7. QueueAt(k)' = Append(Queues[k], order)
  BY <1>3, <1>5 DEF QueueAt, Queues
<1>8. Queues' = [Queues EXCEPT ![k] = Append(Queues[k], order)]
  BY <1>3, <1>6, <1>7, QueuesEdited
<1> HIDE DEF o
<1>9. Lists!Enqueue(k)
  BY <1>1, <1>8 DEF Lists!Enqueue, Queues, Free
<1> QED BY <1>3, <1>9 DEF Lists!Next

LEMMA WithdrawWithdraws ==
  ASSUME Inv, NEW id \in Ids, Live(id), Withdraw(id), order' = order
  PROVE  Lists!Next
<1>1. PICK slot, k : slot = Map!Find(id) /\ k = <<orders[slot].side, orders[slot].price>>
  OBVIOUS
<1>2. /\ k \in LevelKeys /\ slot \in Elements(Queue(k)) /\ Unlinking(k, slot)
      /\ free_list_' = <<slot>> \o free_list_
  BY <1>1, WithdrawUnlinks
<1> QED BY <1>2, UnlinkWithdraws

LEMMA StepUsesLists ==
  Inv /\ (clears = 0)' /\ [Next]_vars => [Lists!Next]_(Lists!vars)
<1> SUFFICES ASSUME Inv, clears' = 0, [Next]_vars
             PROVE  Lists!Next \/ UNCHANGED Lists!vars
  OBVIOUS
<1>0. UNCHANGED vars => UNCHANGED Lists!vars
  <2> SUFFICES ASSUME UNCHANGED vars PROVE UNCHANGED Lists!vars
    OBVIOUS
  <2>1. levels' = levels /\ free_list_' = free_list_ /\ order' = order
    BY DEF vars, poolVars, bookVars, callVars
  <2>2. Queues' = Queues
    BY <2>1, QueuesSame DEF LevelKeys, Queue
  <2> QED BY <2>1, <2>2 DEF Lists!vars, Queues
<1>1. CASE UNCHANGED vars
  BY <1>0, <1>1
<1>2. ASSUME NEW id \in Ids, NEW side \in Sides, NEW price \in Prices,
             NEW quantity \in Quantities, AddOrder(id, side, price, quantity)
      PROVE  Lists!Next
  BY <1>2, AdmitAcquires DEF AddOrder
<1>3. CASE Readmit
  <2>1. pc = "readmit" /\ call \in Call
    BY <1>3 DEF Readmit, Inv, TypeOK
  <2>2. /\ call.id \in Ids /\ call.side \in Sides /\ call.price \in Prices
        /\ call.quantity \in Quantities
    BY <2>1 DEF Call
  <2> QED BY <1>3, <2>1, <2>2, AdmitAcquires DEF Readmit
<1>4. CASE Trade
  BY <1>4, TradeUnlinks
<1>5. CASE MatchEnd
  <2>1. order \in Slots /\ UNCHANGED bookVars
    BY <1>5 DEF MatchEnd, Inv, TypeOK
  <2>2. CASE orders[order].quantity = 0
    <3>1. order' = NULL /\ free_list_' = <<order>> \o free_list_
      BY <1>5, <2>2 DEF MatchEnd, Return
    <3> QED BY <2>1, <3>1, DiscardGivesBack DEF Lists!Next
  <2>3. CASE orders[order].quantity # 0
    <3>1. order' = order /\ free_list_' = free_list_
      BY <1>5, <2>3 DEF MatchEnd, poolVars
    <3>2. Queues' = Queues
      BY <2>1, UnchangedBook, QueuesSame DEF SameQueues
    <3> QED BY <3>1, <3>2 DEF Lists!vars, Queues
  <2> QED BY <2>2, <2>3
<1>6. CASE Rest
  BY <1>6, RestEnqueues
<1>7. CASE Drop
  <2>1. /\ order \in Slots /\ UNCHANGED bookVars /\ order' = NULL
        /\ free_list_' = <<order>> \o free_list_
    BY <1>7 DEF Drop, Return, Inv, TypeOK
  <2> QED BY <2>1, DiscardGivesBack DEF Lists!Next
<1>8. ASSUME NEW id \in Ids, CancelOrder(id) PROVE Lists!Next
  BY <1>8, WithdrawWithdraws DEF CancelOrder, callVars
<1>9. ASSUME NEW id \in Ids, NEW price \in Prices, NEW quantity \in Quantities,
             ModifyOrder(id, price, quantity)
      PROVE  Lists!Next
  BY <1>9, WithdrawWithdraws DEF ModifyOrder
<1>10. ASSUME NEW id \in Ids, RefusedAdd(id) \/ UnknownId(id) PROVE UNCHANGED vars
  BY <1>10 DEF RefusedAdd, UnknownId
<1>11. CASE Clear
  <2>1. clears' = clears + 1 /\ clears \in Nat
    BY <1>11, PoolAssumption DEF Clear, Inv, TypeOK
  <2> QED BY <2>1
<1> QED BY <1>0, <1>1, <1>2, <1>3, <1>4, <1>5, <1>6, <1>7, <1>8, <1>9, <1>10, <1>11 DEF Next

\* A book that is never cleared uses its order pool and its level lists as LevelQueues:
\* it acquires only free orders, unlinks an order from the list it is in and releases it
\* once, and links or releases the new order (orderbook.cpp:14-39, 55-63, 246-248).
THEOREM PoolAndLists == Spec /\ NoCut /\ [](clears = 0) => ImplementsLevelQueues
<1>1. Init => Lists!Init
  <2> SUFFICES ASSUME Init PROVE Lists!Init
    OBVIOUS
  <2>1. \A key \in Sides \X Prices : QueueAt(key) = <<>>
    BY DEF Init, QueueAt, LevelKeys
  <2>2. Elements(free_list_) = Slots
    BY PoolAssumption DEF Init, Elements, Slots
  <2>3. order = NULL
    BY DEF Init
  <2> QED BY <2>1, <2>2, <2>3 DEF Lists!Init
<1> QED BY <1>1, Invariance, StepUsesLists, PTL
        DEF Spec, ImplementsLevelQueues, Lists!Spec
==============================================================================

--------------------------- MODULE LimitOrderBook ----------------------------
(***************************************************************************)
(* What a price-time priority limit order book promises its caller.  The   *)
(* book is the list of resting orders in order of arrival; nothing is said *)
(* of levels, hash maps or pools.  An order that is submitted trades, one  *)
(* resting order at a time, with the best priced of the other side, and    *)
(* the oldest of those; what is left of it rests.                          *)
(***************************************************************************)
EXTENDS Integers, Sequences

CONSTANTS Ids, Prices, Quantities, None

VARIABLES book,    \* resting orders, oldest first
          taker,   \* the order being executed, or None
          tape     \* the trades of the taker so far

vars == <<book, taker, tape>>

Order == [id : Ids, side : {"Buy", "Sell"}, price : Prices, quantity : Quantities]

Better(side, p, q) == IF side = "Buy" THEN p > q ELSE p < q

\* A resting order the taker's limit reaches.
Crosses(o) == o.side # taker.side /\ ~Better(o.side, taker.price, o.price)

\* Nobody on its side of the book goes before the i-th resting order.
First(i) ==
  \A j \in DOMAIN book : book[j].side = book[i].side =>
    /\ ~Better(book[i].side, book[j].price, book[i].price)
    /\ book[j].price = book[i].price => i <= j

Without(i) == SubSeq(book, 1, i - 1) \o SubSeq(book, i + 1, Len(book))
Lesser(a, b) == IF a < b THEN a ELSE b

Init == book = <<>> /\ taker = None /\ tape = <<>>

\* An id is live until its order is filled or cancelled.
Submit(o) ==
  /\ taker = None
  /\ \A i \in DOMAIN book : book[i].id # o.id
  /\ taker' = o
  /\ UNCHANGED <<book, tape>>

Trade(i) ==
  /\ taker # None
  /\ Crosses(book[i]) /\ First(i)
  /\ taker.quantity > 0
  /\ LET q == Lesser(taker.quantity, book[i].quantity) IN
       /\ tape' = Append(tape, [price |-> book[i].price, quantity |-> q,
                                aggressor_side |-> taker.side])
       /\ taker' = [taker EXCEPT !.quantity = @ - q]
       /\ book' = IF q = book[i].quantity
                  THEN Without(i)
                  ELSE [book EXCEPT ![i].quantity = @ - q]

\* The taker is used up, by trades or because it crossed with nothing to trade.
Done ==
  /\ taker # None
  /\ taker.quantity = 0
  /\ taker' = None /\ tape' = <<>>
  /\ UNCHANGED book

Rest ==
  /\ taker # None
  /\ \A i \in DOMAIN book : ~Crosses(book[i])
  /\ taker.quantity > 0 \/ tape = <<>>
  /\ book' = Append(book, taker)
  /\ taker' = None /\ tape' = <<>>

\* No room to rest: what is left of the taker is dropped, its trades stand.
Drop ==
  /\ taker # None
  /\ \A i \in DOMAIN book : ~Crosses(book[i])
  /\ taker' = None /\ tape' = <<>>
  /\ UNCHANGED book

Cancel(i) ==
  /\ taker = None
  /\ book' = Without(i)
  /\ UNCHANGED <<taker, tape>>

Clear ==
  /\ taker = None
  /\ book' = <<>>
  /\ UNCHANGED <<taker, tape>>

Next ==
  \/ \E o \in Order : Submit(o)
  \/ \E i \in DOMAIN book : Trade(i) \/ Cancel(i)
  \/ Done \/ Rest \/ Drop \/ Clear

Spec == Init /\ [][Next]_vars
==============================================================================

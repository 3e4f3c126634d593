------------------------------- MODULE Position -------------------------------
(***************************************************************************)
(* The strategy's account, struct Position of backtester.cpp, as functions *)
(* of a record: its signed quantity, the truncated average of what it was  *)
(* opened at, and the profit that has been realized.  Prices are not       *)
(* negative.                                                               *)
(***************************************************************************)
EXTENDS Integers

Flat == [qty |-> 0, avg_entry_price |-> 0, realized_pnl |-> 0]

Sign(side) == IF side = "Buy" THEN 1 ELSE -1
Abs(n) == IF n < 0 THEN -n ELSE n
Smaller(a, b) == IF a < b THEN a ELSE b

\* The fill is on the side the position is already on, or opens it.
Adds(pos, side) == Sign(side) * pos.qty >= 0

\* A buy in lines 18-21 of backtester.cpp, a sell likewise in 37-40.
Opened(pos, side, price, q) ==
  LET qty == pos.qty + Sign(side) * q IN
  [qty |-> qty,
   avg_entry_price |-> (pos.avg_entry_price * Abs(pos.qty) + price * q) \div Abs(qty),
   realized_pnl |-> pos.realized_pnl]

\* A fill that is more than the position turns it over, at the fill's price; the
\* cost of the whole fill is charged.  A buy in lines 22-35, a sell in 41-54.
Closed(pos, side, price, q, cost) ==
  LET qty == pos.qty + Sign(side) * q
      shares == Smaller(q, Abs(pos.qty)) IN
  [qty |-> qty,
   avg_entry_price |-> IF Sign(side) * qty > 0 THEN price ELSE pos.avg_entry_price,
   realized_pnl |-> pos.realized_pnl
     + Sign(side) * (pos.avg_entry_price - price) * shares - cost * q]

\* Slip: a position that is turned over keeps its entry price.
AddFillKeepingEntry(pos, side, price, q, cost) ==
  CASE q = 0 -> pos
    [] q > 0 /\ Adds(pos, side) -> Opened(pos, side, price, q)
    [] OTHER -> [Closed(pos, side, price, q, cost) EXCEPT
                   !.avg_entry_price = pos.avg_entry_price]

AddFill(pos, side, price, q, cost) ==
  CASE q = 0 -> pos
    [] q > 0 /\ Adds(pos, side) -> Opened(pos, side, price, q)
    [] OTHER -> Closed(pos, side, price, q, cost)

UnrealizedPnl(pos, price) == (price - pos.avg_entry_price) * pos.qty
==============================================================================

------------------------------- MODULE Backtest -------------------------------
(***************************************************************************)
(* The message loops of backtester.cpp, run_ema_strategy, run_replay and   *)
(* benchmark_latency, on one Backtester: messages from MarketDataSimulator *)
(* or from a recorded file go to the order book, the mid price to the      *)
(* crossover detector, its signals as orders to the same book, and their   *)
(* fills to the position.                                                  *)
(*                                                                         *)
(* The book is the one LimitOrderBook promises.  OrderBook implements it   *)
(* while no removal from its map cuts a chain (NoCut), its trees meet no   *)
(* null sibling (IntrusiveRBTree), and, as nothing is dropped here, no     *)
(* pool is exhausted.  A pass of the loop runs in steps: "message",        *)
(* "market" while the message's order executes, "decide", "strategy" while *)
(* the strategy's order executes, "account".                               *)
(***************************************************************************)
EXTENDS EMASignal, Position, Sequences, FiniteSetsExt

CONSTANTS
  Runs,           \* the calls: [kind |-> ..., length |-> messages]
  Prices,
  MaxPrice,       \* of the type Price, 2^63 - 1
  Flow,           \* side, price and quantity of the orders that messages carry
  RecordedIds,    \* the ids in the recorded file
  OwnIdBase,      \* 1000000: the i-th message's own order is OwnIdBase + i
  max_position, order_size,
  Cost,           \* commission and market impact of a share, by price
  None

ASSUME MarketAssumption ==
  /\ MaxPrice \in Nat /\ Prices \subseteq 0..MaxPrice /\ Prices # {}
  /\ Flow \subseteq [side : {"Buy", "Sell"}, price : Prices, quantity : Nat \ {0}]
  /\ RecordedIds \subseteq Nat \ {0} /\ OwnIdBase \in Nat \ {0}
  /\ None \notin [id : Nat, side : {"Buy", "Sell"}, price : Prices, quantity : Nat]
ASSUME ConfigAssumption ==
  max_position \in Nat /\ order_size \in Nat \ {0} /\ Cost \in [Prices -> Nat]
ASSUME RunsAssumption ==
  Runs \in Seq([kind : {"ema", "replay", "benchmark"}, length : Nat]) \ {<<>>}

VARIABLES
  book, taker, tape,      \* the order book, see LimitOrderBook
  vwap,                   \* vwap_engine: [pv |-> cumulative_pv_, qty |-> cumulative_qty_]
  position,
  peak_equity_, current_drawdown_, equity_curve_,
  next_order_id_,         \* of the simulator
  run, i,                 \* the call, counted from 1, and its loop's index
  pc,
  ours,                   \* history: ids of the strategy's orders in the book
  holding,                \* history: what all their fills add up to
  cash, slack             \* history: what the account's fills were paid with, and the
                          \* ticks its averages may have lost

marketVars == <<book, taker, tape, ours>>
accountVars == <<position, cash, slack>>
memberVars == <<peak_equity_, current_drawdown_, equity_curve_>>
loopVars == <<next_order_id_, run, i>>
vars == <<marketVars, emaVars, vwap, accountVars, holding, memberVars, loopVars, pc>>

Book == INSTANCE LimitOrderBook WITH Ids <- Nat, Quantities <- Nat \ {0}

Kind == Runs[run].kind
Live(id) == \E k \in DOMAIN book : book[k].id = id
Own(k) == book[k].id \in ours
SidePrices(side) == {book[k].price : k \in {j \in DOMAIN book : book[j].side = side}}
BestPrice(side) ==
  CHOOSE p \in SidePrices(side) : \A q \in SidePrices(side) : ~Book!Better(side, q, p)

\* OrderBook::mid_price, when there is one.
HasMid == SidePrices("Buy") # {} /\ SidePrices("Sell") # {}
MidPrice == (BestPrice("Buy") + BestPrice("Sell")) \div 2

Init ==
  /\ Book!Init /\ EMAInit
  /\ vwap = [pv |-> 0, qty |-> 0] /\ position = Flat
  /\ ours = {} /\ holding = 0 /\ cash = 0 /\ slack = 0
  /\ peak_equity_ = 0 /\ current_drawdown_ = 0 /\ equity_curve_ = <<>>
  /\ next_order_id_ = 1 /\ run = 1 /\ i = 0 /\ pc = "message"

------------------------------------------------------------------------------
(* Messages.                                                               *)

Messages(ids, types) ==
  {[id |-> id, type |-> type, side |-> o.side, price |-> o.price,
    quantity |-> o.quantity] : id \in ids, type \in types, o \in Flow}

\* Slip: cancels and modifies aim at earlier orders.
SimulatedAiming == Messages(1..next_order_id_, {"Limit", "Cancel", "Modify"})
\* next_message: a new id each time, a price that wanders, no market orders.
Simulated == Messages({next_order_id_}, {"Limit", "Cancel", "Modify"})

\* What a recorded file may hold: any id, again and again.
Recorded == Messages(RecordedIds, {"Limit", "Market", "Cancel", "Modify"})

Received(msg) ==
  /\ pc = "message" /\ i < Runs[run].length
  /\ IF Kind = "replay"
     THEN msg \in Recorded /\ UNCHANGED next_order_id_
     ELSE msg \in Simulated /\ next_order_id_' = next_order_id_ + 1
  /\ UNCHANGED <<run, i, emaVars, vwap, accountVars, holding, memberVars>>

Order(msg, side) ==
  [id |-> msg.id, side |-> side, price |-> msg.price, quantity |-> msg.quantity]

LimitMessage(msg) ==
  /\ msg.type = "Limit"
  /\ Received(msg)
  /\ Book!Submit(Order(msg, msg.side))
  /\ pc' = "market"
  /\ UNCHANGED ours

CancelMessage(msg) ==
  /\ msg.type = "Cancel"
  /\ Received(msg)
  /\ \E k \in DOMAIN book : book[k].id = msg.id /\ Book!Cancel(k)
  /\ ours' = ours \ {msg.id}
  /\ pc' = "decide"

\* The order is cancelled and submitted again, on its own side.
ModifyMessage(msg) ==
  /\ msg.type = "Modify"
  /\ Received(msg)
  /\ \E k \in DOMAIN book :
       /\ book[k].id = msg.id
       /\ book' = Book!Without(k)
       /\ taker' = Order(msg, book[k].side)
  /\ pc' = "market"
  /\ UNCHANGED <<tape, ours>>

\* The book refuses an id that is live or, for the other types, one that is not.
\* The loops do nothing with market orders, nor benchmark_latency with modifies,
\* whose ids are not live in its book.
NoEffect(msg) ==
  /\ CASE msg.type = "Limit" -> Live(msg.id)
       [] msg.type = "Market" -> TRUE
       [] OTHER -> ~Live(msg.id)
  /\ Received(msg)
  /\ pc' = "decide"
  /\ UNCHANGED marketVars

\* A recorded message without id or quantity is passed over.
InvalidMessage ==
  /\ pc = "message" /\ i < Runs[run].length /\ Kind = "replay"
  /\ i' = i + 1
  /\ UNCHANGED <<marketVars, emaVars, vwap, accountVars, holding, memberVars,
                 next_order_id_, run, pc>>

Message == \E msg \in Simulated \cup Recorded :
  LimitMessage(msg) \/ CancelMessage(msg) \/ ModifyMessage(msg) \/ NoEffect(msg)

\* What the fill of a resting order means to the strategy, if the order is its own.
RestingFill(k, q) == IF Own(k) THEN Sign(book[k].side) * q ELSE 0
Matched(k) == Book!Lesser(taker.quantity, book[k].quantity)
OursAfter(k) ==
  IF Matched(k) = book[k].quantity THEN ours \ {book[k].id} ELSE ours

\* Slip: prices are not weighted.
OnTradeUnweighted(price, q) == [pv |-> vwap.pv + price, qty |-> vwap.qty + q]
\* VWAPSignalEngine::on_trade.
OnTrade(price, q) == [pv |-> vwap.pv + price * q, qty |-> vwap.qty + q]

MarketTrade ==
  /\ pc = "market"
  /\ \E k \in DOMAIN book :
       /\ Book!Trade(k)
       /\ vwap' = IF Kind = "ema" THEN OnTrade(book[k].price, Matched(k)) ELSE vwap
       /\ holding' = holding + RestingFill(k, Matched(k))
                       + (IF taker.id \in ours THEN Sign(taker.side) * Matched(k) ELSE 0)
       /\ ours' = OursAfter(k)
  /\ UNCHANGED <<emaVars, accountVars, memberVars, loopVars, pc>>

\* add_order returns; an order that is used up is nobody's any more.
Executed ==
  /\ Book!Done \/ Book!Rest
  /\ ours' = IF taker.quantity = 0 THEN ours \ {taker.id} ELSE ours

MarketEnd ==
  /\ pc = "market"
  /\ Executed
  /\ pc' = "decide"
  /\ UNCHANGED <<emaVars, vwap, accountVars, holding, memberVars, loopVars>>

------------------------------------------------------------------------------
(* The strategy.                                                           *)

\* Slip: the limit is not checked.
Unlimited(side) == signal' = side
\* The signal is acted on while the position is inside the limit.
Wanted(side) ==
  signal' = side /\ Sign(side) * position.qty < max_position

\* Slip: the best price of its own side.
CrossingNothing(side) ==
  [id |-> OwnIdBase + i, side |-> side, price |-> BestPrice(side), quantity |-> order_size]

\* The strategy's order: order_size at the best price of the other side.
Crossing(side) ==
  [id |-> OwnIdBase + i, side |-> side,
   price |-> BestPrice(IF side = "Buy" THEN "Sell" ELSE "Buy"),
   quantity |-> order_size]

Submitted(side) ==
  IF Live(OwnIdBase + i)
  THEN pc' = "account" /\ UNCHANGED marketVars
  ELSE /\ Book!Submit(Crossing(side))
       /\ pc' = "strategy"
       /\ ours' = ours \cup {OwnIdBase + i}

\* on_price and what run_ema_strategy does with the answer.
Decide ==
  /\ pc = "decide" /\ HasMid /\ Kind # "benchmark"
  /\ OnPrice(MidPrice)
  /\ IF Kind = "ema" /\ \E side \in {"Buy", "Sell"} : Wanted(side)
     THEN Submitted(signal')
     ELSE pc' = "account" /\ UNCHANGED marketVars
  /\ UNCHANGED <<vwap, accountVars, holding, memberVars, loopVars>>

NoSignal ==
  /\ pc = "decide" /\ (HasMid => Kind = "benchmark")
  /\ pc' = "account"
  /\ UNCHANGED <<marketVars, emaVars, vwap, accountVars, holding, memberVars, loopVars>>

\* A fill of the strategy's own order goes to the account at once: nothing looks at
\* it before add_order has returned.
StrategyTrade ==
  /\ pc = "strategy"
  /\ \E k \in DOMAIN book :
       LET q == Matched(k)
           price == book[k].price
           dir == Sign(taker.side) IN
       /\ Book!Trade(k)
       /\ position' = AddFill(position, taker.side, price, q, Cost[price])
       /\ cash' = cash - dir * price * q
                    - (IF Adds(position, taker.side) THEN 0 ELSE Cost[price] * q)
       /\ slack' = IF Adds(position, taker.side) /\ position.qty # 0
                   THEN slack + Abs(position'.qty) - 1 ELSE slack
       /\ holding' = holding + dir * q + RestingFill(k, q)
       /\ ours' = OursAfter(k)
  /\ UNCHANGED <<emaVars, vwap, memberVars, loopVars, pc>>

StrategyEnd ==
  /\ pc = "strategy"
  /\ Executed
  /\ pc' = "account"
  /\ UNCHANGED <<emaVars, vwap, accountVars, holding, memberVars, loopVars>>

------------------------------------------------------------------------------
(* The end of a pass, and of a call.                                       *)

Equity == position.realized_pnl + UnrealizedPnl(position, MidPrice)

\* Slip: the peak is not kept.
DrawdownFromLast(equity) ==
  /\ peak_equity_' = equity
  /\ current_drawdown_' = Max({current_drawdown_, peak_equity_ - equity})

UpdateDrawdown(equity) ==
  /\ peak_equity_' = Max({peak_equity_, equity})
  /\ current_drawdown_' = Max({current_drawdown_, peak_equity_' - equity})

Account ==
  /\ pc = "account"
  /\ IF Kind = "ema" /\ HasMid
     THEN /\ equity_curve_' = Append(equity_curve_, Equity)
          /\ UpdateDrawdown(Equity)
     ELSE UNCHANGED memberVars
  /\ i' = i + 1 /\ pc' = "message"
  /\ UNCHANGED <<marketVars, emaVars, vwap, accountVars, holding, next_order_id_, run>>

\* The next call, on the same Backtester and simulator; book, detector and account
\* are new.
NextRun ==
  /\ pc = "message" /\ i = Runs[run].length /\ run < Len(Runs)
  /\ book' = <<>> /\ taker' = None /\ tape' = <<>>
  /\ Reset
  /\ vwap' = [pv |-> 0, qty |-> 0] /\ position' = Flat
  /\ ours' = {} /\ holding' = 0 /\ cash' = 0 /\ slack' = 0
  /\ run' = run + 1 /\ i' = 0
  /\ UNCHANGED <<memberVars, next_order_id_, pc>>

Returned ==
  /\ pc = "message" /\ i = Runs[run].length /\ run = Len(Runs)
  /\ UNCHANGED vars

Next ==
  \/ Message \/ InvalidMessage \/ MarketTrade \/ MarketEnd
  \/ Decide \/ NoSignal \/ StrategyTrade \/ StrategyEnd
  \/ Account \/ NextRun \/ Returned

Spec == Init /\ [][Next]_vars

------------------------------------------------------------------------------
(* Properties.                                                             *)

\* Every variable has its type; the volume weighted price is a price of the book,
\* and the strategy's orders are in the book or executing.
TypeOK ==
  /\ \A k \in DOMAIN book :
       book[k].id > 0 /\ book[k].price \in Prices /\ book[k].quantity > 0
  /\ taker = None \/ taker.quantity >= 0
  /\ pc \in {"message", "market", "decide", "strategy", "account"}
  /\ taker = None <=> pc \notin {"market", "strategy"}
  /\ {fast_ema_, slow_ema_} \subseteq Nat /\ signal \in {"Buy", "Sell", "Hold"}
  /\ position \in [qty : Int, avg_entry_price : Nat, realized_pnl : Int]
  /\ Min(Prices) * vwap.qty <= vwap.pv /\ vwap.pv <= Max(Prices) * vwap.qty
  /\ \A id \in ours : Live(id) \/ (taker # None /\ taker.id = id)
  /\ run \in DOMAIN Runs /\ i \in 0..Runs[run].length

\* The limit is checked before an order of order_size is sent (backtester.cpp:181),
\* so the position may pass it, by less than one order.
PositionLimit == Abs(position.qty) < max_position + order_size

\* The average, the quantity and the realized profit account for what the fills
\* cost (backtester.cpp:11-52), up to what truncating the average loses.
EquityIsMarked ==
  Abs(position.realized_pnl - position.qty * position.avg_entry_price - cash) <= slack

PeakUpTo(k) == Max({0} \cup {equity_curve_[j] : j \in 1..k})

\* Peak and drawdown are members (backtester.cpp:120): they belong to the curves of
\* all calls on the same Backtester, joined.
DrawdownOfTheCurve ==
  current_drawdown_ =
    Max({0} \cup {PeakUpTo(k) - equity_curve_[k] : k \in DOMAIN equity_curve_})

\* The simulator numbers cancels and modifies like new orders, so that in a run on
\* it they hit nothing but an order of the strategy, whose ids the simulator reaches
\* after OwnIdBase messages (backtester.cpp:182, market_data.cpp:30): a market order
\* leaves the book only by a trade.
OnlyOwnAreCancelled ==
  [][pc = "message" /\ Kind = "ema" /\ run' = run =>
       \A k \in DOMAIN book : Own(k) \/ \E j \in DOMAIN book' : book'[j] = book[k]]_vars

\* An order of the strategy trades at once, and what is left of it rests as the
\* best of its side (backtester.cpp:182).
OwnOrderTrades ==
  [][StrategyEnd =>
       /\ tape # <<>>
       /\ taker.quantity > 0 =>
            \A k \in DOMAIN book :
              book[k].side = taker.side => Book!Better(taker.side, taker.price, book[k].price)]_vars

\* What the strategy's orders have filled is what its position says.  It is not:
\* the fills of an order that rests are never looked at.
PositionIsHolding == position.qty = holding
==============================================================================

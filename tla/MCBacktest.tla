------------------------------ MODULE MCBacktest ------------------------------
(***************************************************************************)
(* Values for model checking Backtest: a replay, a benchmark, a long run   *)
(* of the strategy and a short one after it.  Prices that are 12 ticks or  *)
(* dearer cost more to trade.                                              *)
(***************************************************************************)
EXTENDS Backtest

MCRuns == << [kind |-> "replay", length |-> 2],
             [kind |-> "benchmark", length |-> 1],
             [kind |-> "ema", length |-> 6],
             [kind |-> "ema", length |-> 2] >>
MCCost == [p \in Prices |-> IF p >= 12 THEN 2 ELSE 1]
MCFlow == [side : {"Buy"}, price : {13}, quantity : {1, 3}]
            \cup {[side |-> "Buy", price |-> 10, quantity |-> 1],
                  [side |-> "Sell", price |-> 13, quantity |-> 2],
                  [side |-> "Sell", price |-> 18, quantity |-> 2]}
MCMids == {(p + q) \div 2 : p, q \in Prices}
==============================================================================

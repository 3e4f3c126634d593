------------------------------ MODULE EMASignal ------------------------------
(***************************************************************************)
(* The crossover detector EMASignalEngine of market_data.cpp.  Averages    *)
(* are kept in whole ticks: each update computes                           *)
(* alpha * price + (1 - alpha) * average in doubles, with                  *)
(* alpha = 2 / (period + 1), and truncates the result.  When the exact     *)
(* value is a whole number and alpha is not a binary fraction, the double  *)
(* may come out just below it, and truncation then loses a tick: whether   *)
(* it does depends on the operands and on the compiler (fused multiply and *)
(* add), so it is a choice here.  Prices are not negative.                 *)
(***************************************************************************)
EXTENDS Integers

CONSTANTS FastPeriod, SlowPeriod,
          Threshold,    \* in whole ticks: the difference it is compared with is whole
          Mids          \* the prices that are fed

ASSUME PeriodAssumption ==
  FastPeriod \in Nat \ {0} /\ SlowPeriod \in Nat \ {0} /\ Threshold \in Nat
ASSUME MidsAssumption == Mids \subseteq Nat

VARIABLES fast_ema_, slow_ema_, last_signal_, initialized_,
          signal     \* what on_price returned

emaVars == <<fast_ema_, slow_ema_, last_signal_, initialized_, signal>>

\* A definition whose comment begins with "Slip:" is a bug the code does not have;
\* each shows that a property notices it.

\* period + 1 is a power of two (its only odd divisor is 1): the weights are binary
\* fractions, and the doubles exact.
Binary(period) == \A d \in 2..period + 1 : (period + 1) % d = 0 => d % 2 = 0

\* Slip: the weights are swapped.
SwappedAverages(period, mid, ema) ==
  {((period - 1) * mid + 2 * ema) \div (period + 1)}

\* What an update can make of an average.
Averages(period, mid, ema) ==
  LET sum == 2 * mid + (period - 1) * ema
      trunc == sum \div (period + 1) IN
  IF sum > 0 /\ sum % (period + 1) = 0 /\ ~Binary(period)
  THEN {trunc, trunc - 1}
  ELSE {trunc}

Crossover(diff) ==
  CASE diff > Threshold /\ last_signal_ # "Buy" -> "Buy"
    [] diff < -Threshold /\ last_signal_ # "Sell" -> "Sell"
    [] OTHER -> "Hold"

EMAInit ==
  /\ fast_ema_ = 0 /\ slow_ema_ = 0
  /\ last_signal_ = "Hold" /\ initialized_ = FALSE /\ signal = "Hold"

\* on_price of a new engine.
FirstPrice(mid) ==
  /\ ~initialized_
  /\ fast_ema_' = mid /\ slow_ema_' = mid
  /\ initialized_' = TRUE /\ signal' = "Hold"
  /\ UNCHANGED last_signal_

NextPrice(mid) ==
  /\ initialized_
  /\ fast_ema_' \in Averages(FastPeriod, mid, fast_ema_)
  /\ slow_ema_' \in Averages(SlowPeriod, mid, slow_ema_)
  /\ signal' = Crossover(fast_ema_' - slow_ema_')
  /\ last_signal_' = IF signal' = "Hold" THEN last_signal_ ELSE signal'
  /\ UNCHANGED initialized_

OnPrice(mid) == FirstPrice(mid) \/ NextPrice(mid)

Reset ==
  /\ fast_ema_' = 0 /\ slow_ema_' = 0
  /\ last_signal_' = "Hold" /\ initialized_' = FALSE /\ signal' = "Hold"

EMANext == (\E mid \in Mids : OnPrice(mid)) \/ Reset
EMASpec == EMAInit /\ [][EMANext]_emaVars

------------------------------------------------------------------------------
\* An average that is below the price rises, if it is more than half a period
\* away, and never rises past it; one that is above falls and never falls past it.
\* One that has arrived stays, or loses a tick to rounding.
Follows(period, mid, old, new) ==
  /\ old < mid => new \in old..mid /\ (new = old => 2 * (mid - old) <= period + 1)
  /\ old > mid => new \in mid..old - 1
  /\ old = mid => new \in {mid, mid - 1}

\* A price where both averages are already makes no crossover, but for the one a
\* lost tick makes when the threshold is 0.
QuietAt(mid) ==
  fast_ema_ = mid /\ slow_ema_ = mid /\ signal' # "Hold" =>
    Threshold = 0 /\ ~(Binary(FastPeriod) /\ Binary(SlowPeriod))

\* Truncated averages follow the price (market_data.cpp:125-126) from above all
\* the way, from below up to half a period, and a market that stands still makes
\* no crossover unless rounding does.
Followed(mid) ==
  /\ Follows(FastPeriod, mid, fast_ema_, fast_ema_')
  /\ Follows(SlowPeriod, mid, slow_ema_, slow_ema_')
  /\ QuietAt(mid)
AveragesFollow == [][\A mid \in Mids : NextPrice(mid) => Followed(mid)]_emaVars
==============================================================================

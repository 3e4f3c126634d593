---------------------------- MODULE Backtest_proofs ----------------------------
(***************************************************************************)
(* The strategy's position, account, orders and drawdown, for every book,  *)
(* stream of messages, order size, limit and cost of trading.              *)
(***************************************************************************)
EXTENDS Backtest, WellFoundedInduction, SequenceTheorems, TLAPS

------------------------------------------------------------------------------
(* The averages of EMASignal follow the price, for all periods, thresholds *)
(* and prices.  With old the average, n = period + 1 and q the quotient of *)
(* the update, an update moves the average by k = q - old, where n * k is  *)
(* twice the distance to the price less a remainder below n: everything    *)
(* else is linear in k.                                                    *)

LEMMA Division ==
  ASSUME NEW a \in Nat, NEW n \in Nat \ {0}
  PROVE  /\ a \div n \in Nat /\ a % n \in 0..n - 1
         /\ a = n * (a \div n) + (a % n)
<1>1. a = n * (a \div n) + (a % n) /\ a \div n \in Int /\ a % n \in 0..n - 1
  <2>1. a \in Int
    BY SMT
  <2>2. a = n * (a \div n) + (a % n) /\ a \div n \in Int
    BY SMT
  <2>3. a % n \in 0..n - 1
    BY SMT
  <2> QED BY <2>2, <2>3
<1>2. a \div n >= 0
  <2>1. CASE a \div n <= -1
    <3>1. n * (a \div n) <= -n
      BY <1>1, <2>1, SMT
    <3> QED BY <1>1, <3>1, SMT
  <2> QED BY <1>1, <2>1, SMT
<1> QED BY <1>1, <1>2, SMT

LEMMA Distributes ==
  ASSUME NEW a \in Int, NEW b \in Int, NEW c \in Int
  PROVE  (a - b) * c = a * c - b * c
BY SMT

\* A period of 1 has binary weights.
LEMMA OneIsBinary == Binary(1)
BY SMT DEF Binary

\* The old average and the new, k quotients and a remainder apart.
Moved(period, mid, ema, new, k, rest) ==
  /\ (period + 1) * k + rest = 2 * (mid - ema)
  /\ ema + k \in Nat
  /\ \/ new = ema + k
     \/ new = ema + k - 1 /\ rest = 0 /\ period >= 2 /\ ema + k >= 1 /\ ~Binary(period)

\* The quotient of an update, as a distance from the old average.
LEMMA Step ==
  ASSUME NEW period \in Nat \ {0}, NEW mid \in Nat, NEW ema \in Nat,
         NEW new \in Averages(period, mid, ema)
  PROVE  \E k \in Int, rest \in 0..period : Moved(period, mid, ema, new, k, rest)
  <1> DEFINE n == period + 1
             sum == 2 * mid + (period - 1) * ema
             q == sum \div n
             rest == sum % n
  <1>1. sum \in Nat /\ n \in Nat \ {0}
    <2>1. (period - 1) * ema \in Nat
      BY SMT
    <2> QED BY <2>1
  <1>2. q \in Nat /\ rest \in 0..n - 1 /\ sum = n * q + rest
    BY <1>1, Division
  <1>3. n * (q - ema) + rest = 2 * (mid - ema)
    <2>1. n * (q - ema) = n * q - n * ema
      BY <1>1, <1>2, SMT
    <2>2. (period - 1) * ema = n * ema - 2 * ema
      <3>1. (n - 2) * ema = n * ema - 2 * ema
        BY <1>1, Distributes, SMT
      <3>2. n - 2 = period - 1
        BY SMT
      <3>3. (n - 2) * ema = (period - 1) * ema
        BY <3>2
      <3> QED BY <3>1, <3>3, SMT
    <2>3. sum = 2 * mid + (n * ema - 2 * ema)
      BY <2>2
    <2>4. n * ema \in Int /\ n * q \in Int
      BY <1>1, <1>2, SMT
    <2> HIDE DEF n, sum, q, rest
    <2> QED BY <1>1, <1>2, <2>1, <2>3, <2>4, SMT
  <1>4. new = q \/ (new = q - 1 /\ rest = 0 /\ period >= 2 /\ q >= 1
                          /\ ~Binary(period))
    <2>1. CASE sum > 0 /\ rest = 0 /\ ~Binary(period)
      <3>1. period # 1
        BY <2>1, OneIsBinary
      <3>2. q # 0
        BY <2>1, <1>2, <1>1, SMT
      <3> QED BY <2>1, <3>1, <3>2, <1>2 DEF Averages
    <2>2. CASE ~(sum > 0 /\ rest = 0 /\ ~Binary(period))
      BY <2>2 DEF Averages
    <2> QED BY <2>1, <2>2
  <1> WITNESS q - ema \in Int, rest \in 0..period
  <1> QED BY <1>1, <1>2, <1>3, <1>4, SMT DEF Moved

\* An update of one average follows the price.
LEMMA Update ==
  ASSUME NEW period \in Nat \ {0}, NEW mid \in Nat, NEW ema \in Nat,
         NEW new \in Averages(period, mid, ema)
  PROVE  /\ new \in Nat /\ Follows(period, mid, ema, new)
         /\ ema = mid /\ Binary(period) => new = mid
<1>1. PICK k \in Int, rest \in 0..period : Moved(period, mid, ema, new, k, rest)
  BY Step
<1> USE <1>1 DEF Moved
<1>2. new \in Nat
  BY SMT
<1>3. CASE ema < mid
  <2>1. k >= 0
    BY <1>3, SMT
  <2>2. k <= mid - ema
    <3>1. (period + 1) * k >= 2 * k
      BY <2>1, SMT
    <3> QED BY <3>1, SMT
  <2>3. rest = 0 => k >= 1
    BY <1>3, <2>1, SMT
  <2>4. k = 0 \/ (k = 1 /\ rest = 0) => 2 * (mid - ema) <= period + 1
    BY SMT
  <2> QED BY <1>2, <1>3, <2>1, <2>2, <2>3, <2>4, SMT DEF Follows
<1>4. CASE ema > mid
  <2>1. k <= -1
    BY <1>4, SMT
  <2>2. k >= mid - ema
    <3>1. CASE k = -1
      BY <1>4, <3>1, SMT
    <3>2. CASE k <= -2
      <4>1. (period + 1) * (k + 1) <= 2 * (k + 1)
        BY <3>2, SMT
      <4>2. (period + 1) * (k + 1) = (period + 1) * k + period + 1
        BY SMT
      <4> QED BY <4>1, <4>2, SMT
    <3> QED BY <2>1, <3>1, <3>2, SMT
  <2>3. rest = 0 /\ period >= 2 => k - 1 >= mid - ema
    <3>1. period >= 2 => (period + 1) * k <= 3 * k
      BY <2>1, SMT
    <3> QED BY <2>1, <3>1, SMT
  <2> QED BY <1>2, <1>4, <2>1, <2>2, <2>3, SMT DEF Follows
<1>5. CASE ema = mid
  <2>1. k >= 1 => (period + 1) * k >= period + 1
    BY SMT
  <2>2. k <= -1 => (period + 1) * k <= -(period + 1)
    BY SMT
  <2>3. k = 0 /\ rest = 0
    BY <1>5, <2>1, <2>2, SMT
  <2> QED BY <1>5, <2>3, SMT DEF Follows
<1> QED BY <1>2, <1>3, <1>4, <1>5, SMT

------------------------------------------------------------------------------
(* The detector.                                                           *)

\* The averages are not negative.
EMAInv == fast_ema_ \in Nat /\ slow_ema_ \in Nat

LEMMA InvInit == EMAInit => EMAInv
BY DEF EMAInit, EMAInv

LEMMA InvStep == EMAInv /\ [EMANext]_emaVars => EMAInv'
<1> SUFFICES ASSUME EMAInv, [EMANext]_emaVars PROVE EMAInv'
  OBVIOUS
<1>1. ASSUME NEW mid \in Mids, FirstPrice(mid) PROVE EMAInv'
  BY <1>1, MidsAssumption DEF FirstPrice, EMAInv
<1>2. ASSUME NEW mid \in Mids, NextPrice(mid) PROVE EMAInv'
  BY <1>2, Update, MidsAssumption, PeriodAssumption DEF NextPrice, EMAInv
<1>3. CASE Reset
  BY <1>3 DEF Reset, EMAInv
<1>4. CASE UNCHANGED emaVars
  BY <1>4 DEF emaVars, EMAInv
<1> QED BY <1>1, <1>2, <1>3, <1>4 DEF EMANext, OnPrice

LEMMA Near ==
  ASSUME NEW m \in Nat, NEW a \in {m, m - 1}, NEW b \in {m, m - 1}
  PROVE  a - b \in -1..1
BY SMT

LEMMA StepFollows ==
  ASSUME EMAInv, NEW mid \in Mids, NextPrice(mid)
  PROVE  Followed(mid)
<1>1. mid \in Nat
  BY MidsAssumption
<1>2. /\ fast_ema_' \in Nat /\ Follows(FastPeriod, mid, fast_ema_, fast_ema_')
      /\ fast_ema_ = mid /\ Binary(FastPeriod) => fast_ema_' = mid
  BY <1>1, Update, PeriodAssumption DEF NextPrice, EMAInv
<1>3. /\ slow_ema_' \in Nat /\ Follows(SlowPeriod, mid, slow_ema_, slow_ema_')
      /\ slow_ema_ = mid /\ Binary(SlowPeriod) => slow_ema_' = mid
  BY <1>1, Update, PeriodAssumption DEF NextPrice, EMAInv
<1>4. QuietAt(mid)
  <2> SUFFICES ASSUME fast_ema_ = mid, slow_ema_ = mid, signal' # "Hold"
               PROVE  Threshold = 0 /\ ~(Binary(FastPeriod) /\ Binary(SlowPeriod))
    BY DEF QuietAt
  <2> DEFINE diff == fast_ema_' - slow_ema_'
  <2>1. fast_ema_' \in {mid, mid - 1} /\ slow_ema_' \in {mid, mid - 1}
    BY <1>2, <1>3 DEF Follows
  <2>2. diff > Threshold \/ diff < -Threshold
    BY DEF NextPrice, Crossover
  <2>3. Threshold = 0
    <3>1. diff \in -1..1
      BY <1>1, <2>1, Near
    <3>2. Threshold \in Nat
      BY PeriodAssumption
    <3> QED BY <2>2, <3>1, <3>2, SMT
  <2>4. fast_ema_' # mid \/ slow_ema_' # mid
    BY <1>1, <2>2, <2>3, SMT
  <2> QED BY <1>2, <1>3, <2>3, <2>4
<1> QED BY <1>2, <1>3, <1>4 DEF Followed

\* The averages follow every price that is fed, truncation and lost ticks included
\* (market_data.cpp:124-142), and a price that stands still is not taken for a
\* crossover unless it is the one a lost tick makes: for all periods and thresholds.
THEOREM Following == EMASpec => AveragesFollow
<1>1. EMAInv /\ [EMANext]_emaVars
        => [\A mid \in Mids : NextPrice(mid) => Followed(mid)]_emaVars
  BY StepFollows
<1> QED BY <1>1, InvInit, InvStep, PTL DEF EMASpec, AveragesFollow

------------------------------------------------------------------------------
(* The backtester.                                                         *)

Side == {"Buy", "Sell"}
Account_ == [qty : Int, avg_entry_price : Nat, realized_pnl : Int]

------------------------------------------------------------------------------
(* One fill.                                                               *)

LEMMA Signs == \A side \in Side : Sign(side) \in {1, -1}
BY DEF Side, Sign

\* What an account is worth besides the market: EquityIsMarked compares it with cash.
Booked(pos) == pos.realized_pnl - pos.qty * pos.avg_entry_price

\* A truncated average.
LEMMA Quotient ==
  ASSUME NEW a \in Nat, NEW n \in Nat \ {0}
  PROVE  /\ a \div n \in Nat
         /\ n * (a \div n) <= a /\ a - n * (a \div n) <= n - 1
<1>1. a = n * (a \div n) + (a % n) /\ a \div n \in Int
  BY SMT
<1>2. a % n \in 0..n - 1
  BY SMT
<1>3. a \div n >= 0
  <2>1. CASE a \div n <= -1
    <3>1. n * (a \div n) <= -n
      BY <1>1, <2>1, SMT
    <3> QED BY <1>1, <1>2, <3>1, SMT
  <2> QED BY <1>1, <2>1, SMT
<1> QED BY <1>1, <1>2, <1>3, SMT

\* A fill that opens the position or adds to it moves what is booked by its price,
\* up to the truncation of the average.
LEMMA OpenedBooks ==
  ASSUME NEW pos \in Account_, NEW side \in Side, NEW price \in Nat,
         NEW q \in Nat \ {0}, Adds(pos, side)
  PROVE  LET new == Opened(pos, side, price, q)
             off == Booked(new) - (Booked(pos) - Sign(side) * price * q) IN
         /\ new \in Account_
         /\ new.qty = pos.qty + Sign(side) * q
         /\ off \in Int /\ Abs(off) <= Abs(new.qty) - 1
         /\ pos.qty = 0 => off = 0
<1> DEFINE new == Opened(pos, side, price, q)
           avg == pos.avg_entry_price
           held == Abs(pos.qty)
           n == held + q
           total == avg * held + price * q
           mean == total \div n
<1>1. /\ avg \in Nat /\ held \in Nat /\ n \in Nat \ {0} /\ pos.qty \in Int
      /\ pos.realized_pnl \in Int
  BY SMT DEF Account_, Abs
<1>2. total \in Nat /\ avg * held \in Nat /\ price * q \in Nat
  BY <1>1, SMT
<1>3. mean \in Nat /\ n * mean <= total /\ total - n * mean <= n - 1
  BY <1>1, <1>2, Quotient
<1>4. held = 0 => total - n * mean = 0
  <2> SUFFICES ASSUME held = 0 PROVE total = n * mean
    BY <1>1, <1>2, <1>3
  <2>1. total = n * price
    BY <1>1, <1>2, SMT
  <2>2. n * (price - mean) = n * price - n * mean
    BY <1>1, <1>3, SMT
  <2>3. price - mean >= 1 => n * (price - mean) >= n
    BY <1>1, <1>3, SMT
  <2>4. price - mean <= -1 => n * (price - mean) <= -n
    BY <1>1, <1>3, SMT
  <2>5. mean = price
    <3> HIDE DEF mean, n, total
    <3> QED BY <1>1, <1>3, <2>1, <2>2, <2>3, <2>4, SMT
  <2> QED BY <2>1, <2>5
<1> DEFINE off == Booked(new) - (Booked(pos) - Sign(side) * price * q)
<1>5. /\ new \in Account_
      /\ new.qty = pos.qty + Sign(side) * q
      /\ off \in Int /\ Abs(off) <= Abs(new.qty) - 1
      /\ pos.qty = 0 => off = 0
  <2>1. CASE side = "Buy"
    <3>1. Sign(side) = 1 /\ pos.qty = held
      BY <2>1, <1>1, SMT DEF Sign, Adds, Abs
    <3>2. new.qty = n /\ Abs(new.qty) = n
      BY <1>1, <3>1, SMT DEF Opened, Abs, Account_
    <3>3. new.avg_entry_price = mean /\ new.realized_pnl = pos.realized_pnl
      BY <3>1, <3>2, SMT DEF Opened, Account_
    <3>4. Booked(new) = pos.realized_pnl - n * mean
      BY <1>1, <1>3, <3>2, <3>3, SMT DEF Booked
    <3>5. Booked(pos) = pos.realized_pnl - avg * held
      BY <1>1, <3>1, SMT DEF Booked
    <3>6. off = total - n * mean
      <4> HIDE DEF new, mean, n
      <4> QED BY <1>1, <1>2, <1>3, <3>1, <3>4, <3>5, SMT
    <3>7. new \in Account_
      BY <1>1, <1>3, <3>2, <3>3, SMT DEF Opened, Account_
    <3>8. off \in Int /\ Abs(off) <= n - 1
      <4> HIDE DEF new, mean, n, total, off
      <4> QED BY <1>1, <1>2, <1>3, <3>6, SMT DEF Abs
    <3>9. pos.qty = 0 => off = 0
      <4> HIDE DEF new, mean, n, total, off
      <4> QED BY <1>1, <1>2, <1>3, <1>4, <3>1, <3>6, SMT
    <3> QED BY <1>1, <3>1, <3>2, <3>7, <3>8, <3>9
  <2>2. CASE side = "Sell"
    <3>1. Sign(side) = -1 /\ pos.qty = -held
      BY <2>2, <1>1, SMT DEF Sign, Adds, Abs
    <3>2. new.qty = -n /\ Abs(new.qty) = n
      BY <1>1, <3>1, SMT DEF Opened, Abs, Account_
    <3>3. new.avg_entry_price = mean /\ new.realized_pnl = pos.realized_pnl
      BY <3>1, <3>2, SMT DEF Opened, Account_
    <3>4. Booked(new) = pos.realized_pnl + n * mean
      BY <1>1, <1>3, <3>2, <3>3, SMT DEF Booked
    <3>5. Booked(pos) = pos.realized_pnl + avg * held
      BY <1>1, <3>1, SMT DEF Booked
    <3>6. off = n * mean - total
      <4> HIDE DEF new, mean, n
      <4> QED BY <1>1, <1>2, <1>3, <3>1, <3>4, <3>5, SMT
    <3>7. new \in Account_
      BY <1>1, <1>3, <3>2, <3>3, SMT DEF Opened, Account_
    <3>8. off \in Int /\ Abs(off) <= n - 1
      <4> HIDE DEF new, mean, n, total, off
      <4> QED BY <1>1, <1>2, <1>3, <3>6, SMT DEF Abs
    <3>9. pos.qty = 0 => off = 0
      <4> HIDE DEF new, mean, n, total, off
      <4> QED BY <1>1, <1>2, <1>3, <1>4, <3>1, <3>6, SMT
    <3> QED BY <1>1, <3>1, <3>2, <3>7, <3>8, <3>9
  <2> QED BY <2>1, <2>2 DEF Side
<1> QED BY <1>5

LEMMA NegatedProduct ==
  ASSUME NEW a \in Int, NEW b \in Int, NEW c \in Int
  PROVE  (a - b) * (-c) = b * c - a * c
<1>1. (a - b) * (-c) = -((a - b) * c)
  BY SMT
<1>2. (a - b) * c = a * c - b * c
  BY SMT
<1> QED BY <1>1, <1>2, SMT

\* A fill that closes the position, or turns it over, books its price and its cost.
LEMMA ClosedBooks ==
  ASSUME NEW pos \in Account_, NEW side \in Side, NEW price \in Nat,
         NEW q \in Nat \ {0}, NEW cost \in Nat, ~Adds(pos, side)
  PROVE  LET new == Closed(pos, side, price, q, cost) IN
         /\ new \in Account_
         /\ new.qty = pos.qty + Sign(side) * q
         /\ Booked(new) = Booked(pos) - Sign(side) * price * q - cost * q
<1> DEFINE new == Closed(pos, side, price, q, cost)
           avg == pos.avg_entry_price
           qty == pos.qty
           shares == Smaller(q, Abs(pos.qty))
<1>1. /\ avg \in Nat /\ qty \in Int /\ pos.realized_pnl \in Int /\ shares \in Nat
      /\ cost * q \in Nat /\ price * q \in Nat
  BY SMT DEF Account_, Abs, Smaller
<1>2. CASE side = "Buy"
  <2>1. Sign(side) = 1 /\ qty < 0
    BY <1>2, <1>1, SMT DEF Sign, Adds
  <2>2. new.qty = qty + q
    BY <2>1, <1>1, SMT DEF Closed
  <2>3. new.realized_pnl = pos.realized_pnl + (avg - price) * shares - cost * q
    BY <2>1, <1>1, SMT DEF Closed
  <2>4. new.avg_entry_price = IF qty + q > 0 THEN price ELSE avg
    BY <2>1, <1>1, SMT DEF Closed
  <2>5. shares = IF qty + q > 0 THEN -qty ELSE q
    BY <2>1, <1>1, SMT DEF Smaller, Abs
  <2>6. Booked(new) = Booked(pos) - price * q - cost * q
    <3> HIDE DEF new, shares
    <3>1. CASE qty + q > 0
      <4>1. (avg - price) * (-qty) = price * qty - avg * qty
        BY <1>1, NegatedProduct
      <4>2. (qty + q) * price = price * qty + price * q
        BY <1>1, SMT
      <4>3. Booked(new) = pos.realized_pnl + (price * qty - avg * qty) - cost * q
                            - (price * qty + price * q)
        BY <3>1, <1>1, <2>2, <2>3, <2>4, <2>5, <4>1, <4>2, SMT DEF Booked
      <4>4. price * qty \in Int /\ avg * qty \in Int /\ qty * avg = avg * qty
        BY <1>1, SMT
      <4> QED BY <1>1, <4>3, <4>4, SMT DEF Booked
    <3>2. CASE ~(qty + q > 0)
      BY <3>2, <1>1, <2>2, <2>3, <2>4, <2>5, SMT DEF Booked
    <3> QED BY <3>1, <3>2
  <2>7. new \in Account_
    <3>1. new.qty \in Int /\ new.avg_entry_price \in Nat
      BY <1>1, <2>2, <2>4, SMT
    <3>2. new.realized_pnl \in Int
      <4>1. (avg - price) * shares \in Int /\ (price - avg) * shares \in Int
        BY <1>1, SMT
      <4> HIDE DEF new, shares
      <4> QED BY <1>1, <2>3, <4>1, SMT
    <3> QED BY <3>1, <3>2 DEF Closed, Account_
  <2>8. Sign(side) * price * q = price * q /\ Sign(side) * q = q
    <3> HIDE DEF new, shares
    <3> QED BY <1>1, <2>1, SMT
  <2>9. Booked(pos) \in Int
    BY <1>1, SMT DEF Booked
  <2>10. /\ new \in Account_
         /\ new.qty = pos.qty + Sign(side) * q
         /\ Booked(new) = Booked(pos) - Sign(side) * price * q - cost * q
    <3> HIDE DEF new, shares
    <3> QED BY <1>1, <2>2, <2>6, <2>7, <2>8, <2>9, SMT
  <2> QED BY <2>10
<1>3. CASE side = "Sell"
  <2>1. Sign(side) = -1 /\ qty > 0
    BY <1>3, <1>1, SMT DEF Sign, Adds
  <2>2. new.qty = qty - q
    BY <2>1, <1>1, SMT DEF Closed
  <2>3. new.realized_pnl = pos.realized_pnl + (price - avg) * shares - cost * q
    BY <2>1, <1>1, SMT DEF Closed
  <2>4. new.avg_entry_price = IF qty - q < 0 THEN price ELSE avg
    BY <2>1, <1>1, SMT DEF Closed
  <2>5. shares = IF qty - q < 0 THEN qty ELSE q
    BY <2>1, <1>1, SMT DEF Smaller, Abs
  <2>6. Booked(new) = Booked(pos) + price * q - cost * q
    <3> HIDE DEF new, shares
    <3>1. CASE qty - q < 0
      BY <3>1, <1>1, <2>2, <2>3, <2>4, <2>5, SMT DEF Booked
    <3>2. CASE ~(qty - q < 0)
      BY <3>2, <1>1, <2>2, <2>3, <2>4, <2>5, SMT DEF Booked
    <3> QED BY <3>1, <3>2
  <2>7. new \in Account_
    <3>1. new.qty \in Int /\ new.avg_entry_price \in Nat
      BY <1>1, <2>2, <2>4, SMT
    <3>2. new.realized_pnl \in Int
      <4>1. (avg - price) * shares \in Int /\ (price - avg) * shares \in Int
        BY <1>1, SMT
      <4> HIDE DEF new, shares
      <4> QED BY <1>1, <2>3, <4>1, SMT
    <3> QED BY <3>1, <3>2 DEF Closed, Account_
  <2>8. Sign(side) * price * q = -(price * q) /\ Sign(side) * q = -q
    <3> HIDE DEF new, shares
    <3> QED BY <1>1, <2>1, SMT
  <2>9. Booked(pos) \in Int
    BY <1>1, SMT DEF Booked
  <2>10. /\ new \in Account_
         /\ new.qty = pos.qty + Sign(side) * q
         /\ Booked(new) = Booked(pos) - Sign(side) * price * q - cost * q
    <3> HIDE DEF new, shares
    <3>1. new.qty = pos.qty + Sign(side) * q
      BY <1>1, <2>2, <2>8, SMT
    <3>2. Booked(new) = Booked(pos) - Sign(side) * price * q - cost * q
      BY <1>1, <2>6, <2>8, <2>9, SMT
    <3> QED BY <2>7, <3>1, <3>2
  <2> QED BY <2>10
<1> QED BY <1>2, <1>3 DEF Side
\* What a fill costs, and the ticks that the average loses by it.
Paid(pos, side, price, q, cost) ==
  Sign(side) * price * q + (IF Adds(pos, side) THEN 0 ELSE cost * q)
Lost(pos, side, new) ==
  IF Adds(pos, side) /\ pos.qty # 0 THEN Abs(new.qty) - 1 ELSE 0

LEMMA FillBooks ==
  ASSUME NEW pos \in Account_, NEW side \in Side, NEW price \in Nat,
         NEW q \in Nat, NEW cost \in Nat
  PROVE  LET new == AddFill(pos, side, price, q, cost)
             paid == Paid(pos, side, price, q, cost) IN
         /\ new \in Account_
         /\ new.qty = pos.qty + Sign(side) * q
         /\ paid \in Int
         /\ Lost(pos, side, new) \in Nat
         /\ Abs(Booked(new) - (Booked(pos) - paid)) <= Lost(pos, side, new)
<1> DEFINE new == AddFill(pos, side, price, q, cost)
           paid == Paid(pos, side, price, q, cost)
<1>1. /\ pos.qty \in Int /\ Booked(pos) \in Int /\ cost * q \in Nat
      /\ Sign(side) \in {1, -1} /\ Sign(side) * price * q \in Int
      /\ Sign(side) * q \in Int
  <2>1. /\ pos.qty \in Int /\ pos.avg_entry_price \in Nat /\ pos.realized_pnl \in Int
        /\ cost * q \in Nat
    BY SMT DEF Account_
  <2>2. Booked(pos) \in Int
    BY <2>1, SMT DEF Booked
  <2>3. Sign(side) \in {1, -1}
    BY Signs
  <2>4. Sign(side) * price * q \in Int /\ Sign(side) * q \in Int
    BY <2>3, SMT
  <2> QED BY <2>1, <2>2, <2>3, <2>4
<1>2. paid \in Int
  BY <1>1 DEF Paid
<1>3. CASE q = 0
  <2>1. new = pos
    BY <1>3 DEF AddFill
  <2>2. Sign(side) * price * q = 0 /\ Sign(side) * q = 0 /\ cost * q = 0
    BY <1>1, <1>3, SMT
  <2>3. paid = 0
    BY <2>2 DEF Paid
  <2>4. Lost(pos, side, new) \in Nat
    <3>1. pos.qty # 0 => Abs(pos.qty) - 1 \in Nat
      BY <1>1, SMT DEF Abs
    <3> QED BY <2>1, <3>1 DEF Lost
  <2>5. Abs(Booked(pos) - (Booked(pos) - 0)) = 0
    BY <1>1, SMT DEF Abs
  <2>6. new \in Account_ /\ new.qty = pos.qty + Sign(side) * q
    BY <1>1, <2>1, <2>2
  <2> QED BY <1>2, <2>1, <2>3, <2>4, <2>5, <2>6
<1>4. CASE q > 0 /\ Adds(pos, side)
  <2>1. new = Opened(pos, side, price, q)
    BY <1>4 DEF AddFill
  <2> DEFINE off == Booked(new) - (Booked(pos) - Sign(side) * price * q)
  <2>2. /\ new \in Account_
        /\ new.qty = pos.qty + Sign(side) * q
        /\ off \in Int /\ Abs(off) <= Abs(new.qty) - 1
        /\ pos.qty = 0 => off = 0
    BY <1>4, <2>1, OpenedBooks
  <2>3. paid = Sign(side) * price * q
    BY <1>1, <1>4 DEF Paid
  <2>4. Abs(off) \in Nat /\ Abs(new.qty) \in Nat
    BY <2>2, SMT DEF Abs, Account_
  <2>5. pos.qty = 0 => Abs(off) = 0
    BY <2>2 DEF Abs
  <2>6. Lost(pos, side, new) \in Nat /\ Abs(off) <= Lost(pos, side, new)
    <3> HIDE DEF off
    <3> QED BY <1>4, <2>2, <2>4, <2>5, SMT DEF Lost
  <2> QED BY <1>2, <2>2, <2>3, <2>6
<1>5. CASE q > 0 /\ ~Adds(pos, side)
  <2>1. new = Closed(pos, side, price, q, cost)
    BY <1>5 DEF AddFill
  <2>2. /\ new \in Account_
        /\ new.qty = pos.qty + Sign(side) * q
        /\ Booked(new) = Booked(pos) - Sign(side) * price * q - cost * q
    <3>1. q \in Nat \ {0}
      BY <1>5
    <3>2. LET c == Closed(pos, side, price, q, cost) IN
          /\ c \in Account_
          /\ c.qty = pos.qty + Sign(side) * q
          /\ Booked(c) = Booked(pos) - Sign(side) * price * q - cost * q
      BY <1>5, <3>1, ClosedBooks
    <3> QED BY <2>1, <3>2
  <2>3. paid = Sign(side) * price * q + cost * q
    BY <1>5 DEF Paid
  <2>4. Booked(new) - (Booked(pos) - paid) = 0
    <3> HIDE DEF paid
    <3> QED BY <1>1, <2>2, <2>3, SMT
  <2>5. Lost(pos, side, new) = 0
    BY <1>5 DEF Lost
  <2> QED BY <1>2, <2>2, <2>4, <2>5 DEF Abs
<1> QED BY <1>3, <1>4, <1>5

------------------------------------------------------------------------------
(* Orders and best prices.                                                 *)

Resting == [id : Nat, side : Side, price : Prices, quantity : Nat]

LEMMA Least ==
  ASSUME NEW S, S \subseteq Nat, S # {}
  PROVE  \E x \in S : \A y \in S : ~(y < x)
<1>1. \E x \in S : \A y \in S : ~(<<y, x>> \in OpToRel(<, Nat))
  BY WFMin, NatLessThanWellFounded
<1>2. \A x, y \in Nat : y < x => <<y, x>> \in OpToRel(<, Nat)
  BY DEF OpToRel
<1> QED BY <1>1, <1>2

LEMMA Greatest ==
  ASSUME NEW b \in Nat, NEW S, S \subseteq 0..b, S # {}
  PROVE  \E x \in S : \A y \in S : ~(y > x)
<1> DEFINE T == {b - x : x \in S}
<1>1. T \subseteq Nat
  BY SMT
<1>2. T # {}
  OBVIOUS
<1>3. PICK t \in T : \A y \in T : ~(y < t)
  <2> HIDE DEF T
  <2> QED BY <1>1, <1>2, Least
<1>4. PICK x \in S : t = b - x
  BY <1>3
<1>5. ASSUME NEW y \in S, y > x PROVE FALSE
  <2>1. b - y \in T
    OBVIOUS
  <2>2. b - y < t
    BY <1>4, <1>5, SMT
  <2> QED BY <1>3, <2>1, <2>2
<1> QED BY <1>4, <1>5

\* A side of the book that is not empty has a best price.
LEMMA BestIsAPrice ==
  ASSUME book \in Seq(Resting), NEW side \in Side, SidePrices(side) # {}
  PROVE  BestPrice(side) \in SidePrices(side) /\ BestPrice(side) \in Prices
<1> DEFINE S == SidePrices(side)
<1>1. S \subseteq Prices
  <2> SUFFICES ASSUME NEW p \in S PROVE p \in Prices
    OBVIOUS
  <2>1. PICK k \in DOMAIN book : p = book[k].price
    BY DEF SidePrices
  <2>2. book[k] \in Resting
    OBVIOUS
  <2> QED BY <2>1, <2>2 DEF Resting
<1>2. S \subseteq 0..MaxPrice /\ MaxPrice \in Nat /\ S # {}
  BY <1>1, MarketAssumption
<1>3. \E p \in S : \A q \in S : ~Book!Better(side, q, p)
  <2>1. CASE side = "Buy"
    <3> HIDE DEF S
    <3>1. \E p \in S : \A q \in S : ~(q > p)
      BY <1>2, Greatest
    <3> QED BY <2>1, <3>1 DEF Book!Better
  <2>2. CASE side = "Sell"
    <3>1. S \subseteq Nat
      <4> HIDE DEF S
      <4> QED BY <1>2, SMT
    <3> HIDE DEF S
    <3>2. \E p \in S : \A q \in S : ~(q < p)
      BY <1>2, <3>1, Least
    <3> QED BY <2>2, <3>2 DEF Book!Better
  <2> QED BY <2>1, <2>2 DEF Side
<1>4. BestPrice(side) \in S
  BY <1>3 DEF BestPrice
<1> QED BY <1>1, <1>4

LEMMA WithoutType ==
  ASSUME book \in Seq(Resting), NEW k \in DOMAIN book
  PROVE  Book!Without(k) \in Seq(Resting)
<1>1. k \in 1..Len(book) /\ Len(book) \in Nat
  OBVIOUS
<1>2. SubSeq(book, 1, k - 1) \in Seq(Resting)
  BY <1>1, SubSeqProperties
<1>3. SubSeq(book, k + 1, Len(book)) \in Seq(Resting)
  BY <1>1, SubSeqProperties
<1> QED BY <1>2, <1>3, ConcatProperties DEF Book!Without

LEMMA Reduced ==
  ASSUME NEW o \in Resting, NEW q \in 0..o.quantity,
         NEW new, new = [o EXCEPT !.quantity = @ - q]
  PROVE  new \in Resting /\ new.side = o.side /\ new.quantity = o.quantity - q
<1>1. o.quantity \in Nat
  BY DEF Resting
<1>2. o.quantity - q \in Nat
  BY <1>1, SMT
<1>3. new = [o EXCEPT !.quantity = o.quantity - q]
  OBVIOUS
<1> QED BY <1>2, <1>3 DEF Resting

\* A trade takes the same quantity from both orders.
LEMMA TradeTypes ==
  ASSUME book \in Seq(Resting), taker \in Resting, NEW k \in DOMAIN book,
         Book!Trade(k)
  PROVE  /\ book[k] \in Resting /\ book' \in Seq(Resting)
         /\ taker' \in Resting /\ taker'.side = taker.side
         /\ Matched(k) \in 0..taker.quantity
         /\ taker'.quantity = taker.quantity - Matched(k)
<1> DEFINE q == Matched(k)
<1>1. book[k] \in Resting
  OBVIOUS
<1>2. q \in 0..taker.quantity /\ q \in 0..book[k].quantity
  BY <1>1, SMT DEF Matched, Book!Lesser, Resting
<1>3. taker' = [taker EXCEPT !.quantity = @ - q]
  BY DEF Book!Trade, Matched
<1>4. /\ taker' \in Resting /\ taker'.side = taker.side
      /\ taker'.quantity = taker.quantity - q
  <2> HIDE DEF q
  <2> QED BY <1>2, <1>3, Reduced
<1>5. book' \in Seq(Resting)
  <2>1. \/ book' = Book!Without(k)
        \/ book' = [book EXCEPT ![k].quantity = @ - q]
    BY DEF Book!Trade, Matched
  <2>2. CASE book' = [book EXCEPT ![k].quantity = @ - q]
    <3>1. [book[k] EXCEPT !.quantity = @ - q] \in Resting
      <4> HIDE DEF q
      <4> QED BY <1>1, <1>2, Reduced
    <3>2. book' = [book EXCEPT ![k] = [book[k] EXCEPT !.quantity = @ - q]]
      BY <2>2
    <3> HIDE DEF q
    <3> QED BY <3>1, <3>2, ExceptSeq
  <2> QED BY <2>1, <2>2, WithoutType
<1> QED BY <1>1, <1>2, <1>4, <1>5
------------------------------------------------------------------------------
(* The inductive invariant.  The limit is compared with the position when  *)
(* an order is sent, so while the order executes it is the position and    *)
(* what is left of the order together that stay inside.                    *)

Steps == {"message", "market", "decide", "strategy", "account"}

MarketTyped ==
  /\ book \in Seq(Resting)
  /\ pc \in Steps
  /\ pc \in {"market", "strategy"} => taker \in Resting
  /\ next_order_id_ \in Nat /\ i \in Nat

AccountTyped == position \in Account_ /\ cash \in Int /\ slack \in Nat

OrderInsideLimit ==
  pc = "strategy" =>
    Sign(taker.side) * position.qty + taker.quantity < max_position + order_size

IInv ==
  /\ MarketTyped /\ AccountTyped
  /\ OrderInsideLimit /\ PositionLimit /\ EquityIsMarked

LEMMA InitInv == Init => IInv
<1> SUFFICES ASSUME Init PROVE IInv
  OBVIOUS
<1>1. MarketTyped
  <2>1. book = <<>> /\ pc = "message" /\ next_order_id_ = 1 /\ i = 0
    BY DEF Init, Book!Init
  <2> QED BY <2>1, EmptySeq DEF MarketTyped, Steps
<1>2. position = Flat /\ cash = 0 /\ slack = 0 /\ pc = "message"
  BY DEF Init
<1>3. AccountTyped
  BY <1>2 DEF AccountTyped, Account_, Flat
<1>4. PositionLimit
  BY <1>2, ConfigAssumption, SMT DEF PositionLimit, Flat, Abs
<1>5. EquityIsMarked
  BY <1>2, SMT DEF EquityIsMarked, Flat, Abs
<1>6. OrderInsideLimit
  BY <1>2 DEF OrderInsideLimit
<1> QED BY <1>1, <1>3, <1>4, <1>5, <1>6 DEF IInv

\* A step that no fill of the strategy's belongs to.
LEMMA QuietStep ==
  ASSUME IInv, UNCHANGED accountVars, MarketTyped', OrderInsideLimit'
  PROVE  IInv'
BY DEF IInv, accountVars, AccountTyped, PositionLimit, EquityIsMarked

LEMMA ReceivedKeeps ==
  ASSUME IInv, NEW msg \in Simulated \cup Recorded, Received(msg)
  PROVE  /\ next_order_id_' \in Nat /\ i' \in Nat /\ UNCHANGED accountVars
         /\ msg.id \in Nat /\ msg.side \in Side /\ msg.price \in Prices
         /\ msg.quantity \in Nat
<1>1. next_order_id_ \in Nat /\ i \in Nat
  BY DEF IInv, MarketTyped
<1>2. next_order_id_' \in Nat /\ i' \in Nat /\ UNCHANGED accountVars
  BY <1>1, SMT DEF Received
<1>3. PICK id \in Nat, o \in Flow :
        /\ msg.id = id /\ msg.side = o.side
        /\ msg.price = o.price /\ msg.quantity = o.quantity
  BY <1>1, MarketAssumption DEF Simulated, Recorded, Messages
<1>4. o.side \in Side /\ o.price \in Prices /\ o.quantity \in Nat
  BY MarketAssumption DEF Side
<1> QED BY <1>2, <1>3, <1>4

LEMMA MessageStep == IInv /\ Message => IInv'
<1> SUFFICES ASSUME IInv, NEW msg \in Simulated \cup Recorded,
                    LimitMessage(msg) \/ CancelMessage(msg)
                      \/ ModifyMessage(msg) \/ NoEffect(msg)
             PROVE  IInv'
  BY DEF Message
<1>1. Received(msg)
  BY DEF LimitMessage, CancelMessage, ModifyMessage, NoEffect
<1>2. /\ next_order_id_' \in Nat /\ i' \in Nat /\ UNCHANGED accountVars
      /\ msg.id \in Nat /\ msg.side \in Side /\ msg.price \in Prices
      /\ msg.quantity \in Nat
  BY <1>1, ReceivedKeeps
<1>3. book \in Seq(Resting)
  BY DEF IInv, MarketTyped
<1>4. pc' \in {"market", "decide"}
  BY DEF LimitMessage, CancelMessage, ModifyMessage, NoEffect
<1>5. book' \in Seq(Resting) /\ (pc' = "market" => taker' \in Resting)
  <2>1. CASE LimitMessage(msg)
    <3>1. book' = book /\ taker' = Order(msg, msg.side)
      BY <2>1 DEF LimitMessage, Book!Submit
    <3> QED BY <1>2, <1>3, <3>1 DEF Order, Resting
  <2>2. CASE CancelMessage(msg)
    <3>1. pc' = "decide" /\ \E k \in DOMAIN book : book' = Book!Without(k)
      BY <2>2 DEF CancelMessage, Book!Cancel
    <3> QED BY <1>3, <3>1, WithoutType
  <2>3. CASE ModifyMessage(msg)
    <3>1. PICK k \in DOMAIN book :
            book' = Book!Without(k) /\ taker' = Order(msg, book[k].side)
      BY <2>3 DEF ModifyMessage
    <3>2. book[k] \in Resting
      BY <1>3
    <3>3. book[k].side \in Side
      BY <3>2 DEF Resting
    <3>4. taker' \in Resting
      BY <1>2, <3>1, <3>3 DEF Order, Resting
    <3> QED BY <1>3, <3>1, <3>4, WithoutType
  <2>4. CASE NoEffect(msg)
    BY <1>3, <2>4 DEF NoEffect, marketVars
  <2> QED BY <2>1, <2>2, <2>3, <2>4
<1>6. MarketTyped' /\ OrderInsideLimit'
  BY <1>2, <1>4, <1>5 DEF MarketTyped, OrderInsideLimit, Steps
<1> QED BY <1>2, <1>6, QuietStep

LEMMA InvalidStep == IInv /\ InvalidMessage => IInv'
<1> SUFFICES ASSUME IInv, InvalidMessage PROVE IInv'
  OBVIOUS
<1>1. UNCHANGED <<book, taker, pc, next_order_id_, accountVars>> /\ i' = i + 1
      /\ pc = "message"
  BY DEF InvalidMessage, marketVars, loopVars
<1>2. MarketTyped' /\ OrderInsideLimit'
  BY <1>1 DEF IInv, MarketTyped, OrderInsideLimit
<1> QED BY <1>1, <1>2, QuietStep

LEMMA MarketTradeStep == IInv /\ MarketTrade => IInv'
<1> SUFFICES ASSUME IInv, MarketTrade PROVE IInv'
  OBVIOUS
<1>1. /\ UNCHANGED <<pc, next_order_id_, i, accountVars>>
      /\ pc = "market"
  BY DEF MarketTrade, loopVars
<1>2. PICK k \in DOMAIN book : Book!Trade(k)
  BY DEF MarketTrade
<1>3. book \in Seq(Resting) /\ taker \in Resting
  BY <1>1 DEF IInv, MarketTyped
<1>4. book' \in Seq(Resting) /\ taker' \in Resting
  BY <1>2, <1>3, TradeTypes
<1>5. MarketTyped' /\ OrderInsideLimit'
  BY <1>1, <1>4 DEF IInv, MarketTyped, OrderInsideLimit
<1> QED BY <1>1, <1>5, QuietStep

\* What is left of an order is one more order of the book, or nothing.
LEMMA ExecutedType ==
  ASSUME book \in Seq(Resting), taker \in Resting, Executed
  PROVE  book' \in Seq(Resting)
<1>1. book' = book \/ book' = Append(book, taker)
  BY DEF Executed, Book!Done, Book!Rest
<1> QED BY <1>1, AppendProperties

LEMMA EndStep == IInv /\ (MarketEnd \/ StrategyEnd) => IInv'
<1> SUFFICES ASSUME IInv, MarketEnd \/ StrategyEnd PROVE IInv'
  OBVIOUS
<1>1. /\ UNCHANGED <<next_order_id_, i, accountVars>>
      /\ pc \in {"market", "strategy"} /\ pc' \in {"decide", "account"}
      /\ Executed
  BY DEF MarketEnd, StrategyEnd, loopVars
<1>2. book' \in Seq(Resting)
  BY <1>1, ExecutedType DEF IInv, MarketTyped
<1>3. MarketTyped' /\ OrderInsideLimit'
  BY <1>1, <1>2 DEF IInv, MarketTyped, OrderInsideLimit, Steps
<1> QED BY <1>1, <1>3, QuietStep

\* An order that is sent has a price of the book and fits beside the position.
LEMMA DecideStep == IInv /\ Decide => IInv'
<1> SUFFICES ASSUME IInv, Decide PROVE IInv'
  OBVIOUS
<1>1. /\ UNCHANGED <<next_order_id_, i, accountVars>>
      /\ book \in Seq(Resting) /\ i \in Nat /\ HasMid
  BY DEF Decide, loopVars, IInv, MarketTyped
<1>2. CASE pc' = "account" /\ UNCHANGED marketVars
  <2>1. MarketTyped' /\ OrderInsideLimit'
    BY <1>1, <1>2 DEF IInv, MarketTyped, OrderInsideLimit, Steps, marketVars
  <2> QED BY <1>1, <2>1, QuietStep
<1>3. CASE \E side \in Side : Wanted(side) /\ Submitted(side)
               /\ ~Live(OwnIdBase + i)
  <2>1. PICK side \in Side : Wanted(side) /\ Submitted(side)
               /\ ~Live(OwnIdBase + i)
    BY <1>3
  <2>2. pc' = "strategy" /\ book' = book /\ taker' = Crossing(side)
    BY <2>1 DEF Submitted, Book!Submit
  <2>3. BestPrice("Buy") \in Prices /\ BestPrice("Sell") \in Prices
    BY <1>1, BestIsAPrice DEF HasMid, Side
  <2>4. OwnIdBase + i \in Nat /\ order_size \in Nat
    BY <1>1, MarketAssumption, ConfigAssumption
  <2>5. taker' \in Resting /\ taker'.side = side /\ taker'.quantity = order_size
    BY <2>2, <2>3, <2>4 DEF Crossing, Resting
  <2>6. MarketTyped'
    BY <1>1, <2>2, <2>5 DEF IInv, MarketTyped, Steps
  <2>7. OrderInsideLimit'
    <3>1. Sign(side) * position.qty < max_position
      BY <2>1 DEF Wanted
    <3>2. Sign(side) * position.qty \in Int
      BY Signs, SMT DEF IInv, AccountTyped, Account_
    <3>3. Sign(side) * position.qty + order_size < max_position + order_size
      BY <2>4, <3>1, <3>2, ConfigAssumption, SMT
    <3> QED BY <1>1, <2>5, <3>3 DEF OrderInsideLimit, accountVars
  <2> QED BY <1>1, <2>6, <2>7, QuietStep
<1>4. \/ pc' = "account" /\ UNCHANGED marketVars
      \/ \E side \in Side : Wanted(side) /\ Submitted(side)
               /\ ~Live(OwnIdBase + i)
  <2>1. CASE Kind = "ema" /\ \E side \in {"Buy", "Sell"} : Wanted(side)
    <3>1. PICK side \in {"Buy", "Sell"} : Wanted(side)
      BY <2>1
    <3>2. signal' = side
      BY <3>1 DEF Wanted
    <3>3. Submitted(side)
      BY <2>1, <3>2 DEF Decide
    <3>4. CASE Live(OwnIdBase + i)
      BY <3>3, <3>4 DEF Submitted
    <3> QED BY <3>1, <3>3, <3>4 DEF Side
  <2>2. CASE ~(Kind = "ema" /\ \E side \in {"Buy", "Sell"} : Wanted(side))
    BY <2>2 DEF Decide
  <2> QED BY <2>1, <2>2
<1> QED BY <1>2, <1>3, <1>4

LEMMA NoSignalStep == IInv /\ NoSignal => IInv'
<1> SUFFICES ASSUME IInv, NoSignal PROVE IInv'
  OBVIOUS
<1>1. UNCHANGED <<book, next_order_id_, i, accountVars>> /\ pc' = "account"
  BY DEF NoSignal, loopVars, marketVars
<1>2. MarketTyped' /\ OrderInsideLimit'
  BY <1>1 DEF IInv, MarketTyped, OrderInsideLimit, Steps
<1> QED BY <1>1, <1>2, QuietStep

\* Arithmetic of a fill of the strategy's order: s is the side's sign, l the limit.
LEMMA FillInside ==
  ASSUME NEW s \in {1, -1}, NEW qty \in Int, NEW left \in Nat, NEW q \in 0..left,
         NEW l \in Nat, s * qty + left < l, Abs(qty) < l,
         NEW new, new = qty + s * q
  PROVE  Abs(new) < l /\ s * new + (left - q) < l
<1>1. CASE s = 1
  <2>1. s * qty = qty /\ s * q = q /\ s * new = new
    BY <1>1, SMT
  <2> QED BY <1>1, <2>1, SMT DEF Abs
<1>2. CASE s = -1
  <2>1. s * qty = -qty /\ s * q = -q /\ new \in Int
    BY <1>2, SMT
  <2>2. s * new = -new
    BY <1>2, <2>1, SMT
  <2> QED BY <1>2, <2>1, <2>2, SMT DEF Abs
<1> QED BY <1>1, <1>2

\* Two distances add up.
LEMMA Triangle ==
  ASSUME NEW was \in Int, NEW is \in Int, NEW c \in Int, NEW paid \in Int,
         NEW a \in Nat, NEW b \in Nat,
         Abs(was - c) <= a, Abs(is - (was - paid)) <= b
  PROVE  Abs(is - (c - paid)) <= a + b
BY SMT DEF Abs

LEMMA StrategyTradeStep == IInv /\ StrategyTrade => IInv'
<1> SUFFICES ASSUME IInv, StrategyTrade PROVE IInv'
  OBVIOUS
<1>1. UNCHANGED <<pc, next_order_id_, i>> /\ pc = "strategy"
  BY DEF StrategyTrade, loopVars
<1>2. PICK k \in DOMAIN book :
        LET q == Matched(k)
            price == book[k].price
            dir == Sign(taker.side) IN
        /\ Book!Trade(k)
        /\ position' = AddFill(position, taker.side, price, q, Cost[price])
        /\ cash' = cash - dir * price * q
                     - (IF Adds(position, taker.side) THEN 0 ELSE Cost[price] * q)
        /\ slack' = IF Adds(position, taker.side) /\ position.qty # 0
                    THEN slack + Abs(position'.qty) - 1 ELSE slack
  BY DEF StrategyTrade
<1> DEFINE q == Matched(k)
           price == book[k].price
           side == taker.side
           paid == Paid(position, side, price, q, Cost[price])
           lost == Lost(position, side, position')
<1>3. book \in Seq(Resting) /\ taker \in Resting /\ AccountTyped
  BY <1>1 DEF IInv, MarketTyped
<1>4. /\ book[k] \in Resting /\ book' \in Seq(Resting)
      /\ taker' \in Resting /\ taker'.side = side
      /\ q \in 0..taker.quantity /\ taker'.quantity = taker.quantity - q
  BY <1>2, <1>3, TradeTypes
<1>5. /\ price \in Prices /\ price \in Nat /\ q \in Nat /\ side \in Side
      /\ Cost[price] \in Nat /\ taker.quantity \in Nat
  <2>1. price \in Prices /\ side \in Side /\ taker.quantity \in Nat
    BY <1>3, <1>4 DEF Resting
  <2>2. price \in Nat
    <3>1. price \in 0..MaxPrice /\ MaxPrice \in Nat
      BY <2>1, MarketAssumption
    <3> HIDE DEF price
    <3> QED BY <3>1, SMT
  <2>3. Cost[price] \in Nat
    BY <2>1, ConfigAssumption
  <2> QED BY <1>4, <2>1, <2>2, <2>3
<1>6. position \in Account_ /\ cash \in Int /\ slack \in Nat
  BY <1>3 DEF AccountTyped
<1>7. /\ position' \in Account_
      /\ position'.qty = position.qty + Sign(side) * q
      /\ paid \in Int /\ lost \in Nat
      /\ Abs(Booked(position') - (Booked(position) - paid)) <= lost
  <2> DEFINE new == position'
             cost == Cost[price]
  <2>1. new = AddFill(position, side, price, q, cost) /\ cost \in Nat
    BY <1>2, <1>5
  <2> HIDE DEF new, cost, q, price, side
  <2>2. LET a == AddFill(position, side, price, q, cost)
            p == Paid(position, side, price, q, cost) IN
        /\ a \in Account_
        /\ a.qty = position.qty + Sign(side) * q
        /\ p \in Int
        /\ Lost(position, side, a) \in Nat
        /\ Abs(Booked(a) - (Booked(position) - p)) <= Lost(position, side, a)
    BY <1>5, <1>6, <2>1, FillBooks
  <2> QED BY <2>1, <2>2 DEF new, cost
<1>8. cash' = cash - paid /\ slack' = slack + lost
  <2>1. Sign(side) * price * q \in Int /\ Cost[price] * q \in Int
    BY <1>5, Signs, SMT
  <2>2. Adds(position, side) /\ position.qty # 0 =>
          lost = Abs(position'.qty) - 1 /\ Abs(position'.qty) \in Int
    BY <1>7, SMT DEF Lost, Abs, Account_
  <2>3. cash' = cash - paid
    BY <1>2, <1>6, <2>1, SMT DEF Paid
  <2>4. slack' = slack + lost
    BY <1>2, <1>6, <2>2, SMT DEF Lost
  <2> QED BY <2>3, <2>4
<1>9. PositionLimit' /\ OrderInsideLimit'
  <2> DEFINE l == max_position + order_size
  <2>1. l \in Nat
    BY ConfigAssumption
  <2>2. Abs(position.qty) < l /\ Sign(side) * position.qty + taker.quantity < l
    BY <1>1 DEF IInv, PositionLimit, OrderInsideLimit
  <2>3. Sign(side) \in {1, -1} /\ position.qty \in Int
    BY <1>5, <1>6, Signs DEF Account_
  <2>4. /\ Abs(position'.qty) < l
        /\ Sign(side) * position'.qty + (taker.quantity - q) < l
    <3> HIDE DEF l, q, side
    <3> QED BY <1>4, <1>5, <1>7, <2>1, <2>2, <2>3, FillInside
  <2> QED BY <1>4, <2>4 DEF PositionLimit, OrderInsideLimit
<1>10. EquityIsMarked'
  <2>1. Booked(position) \in Int /\ Booked(position') \in Int
    BY <1>6, <1>7, SMT DEF Booked, Account_
  <2>2. Abs(Booked(position) - cash) <= slack
    BY DEF IInv, EquityIsMarked, Booked
  <2>3. Abs(Booked(position') - (cash - paid)) <= slack + lost
    <3> HIDE DEF paid, lost
    <3> QED BY <1>6, <1>7, <2>1, <2>2, Triangle
  <2> QED BY <1>8, <2>3 DEF EquityIsMarked, Booked
<1>11. AccountTyped'
  BY <1>6, <1>7, <1>8 DEF AccountTyped
<1>12. MarketTyped'
  BY <1>1, <1>4 DEF IInv, MarketTyped
<1> QED BY <1>9, <1>10, <1>11, <1>12 DEF IInv

LEMMA LoopStep == IInv /\ (Account \/ Returned) => IInv'
<1> SUFFICES ASSUME IInv, Account \/ Returned PROVE IInv'
  OBVIOUS
<1>1. /\ UNCHANGED <<book, next_order_id_, accountVars>>
      /\ pc' = "message" /\ i' \in {i, i + 1}
  BY DEF Account, Returned, vars, marketVars, loopVars
<1>2. MarketTyped' /\ OrderInsideLimit'
  BY <1>1 DEF IInv, MarketTyped, OrderInsideLimit, Steps
<1> QED BY <1>1, <1>2, QuietStep

LEMMA NextRunStep == IInv /\ NextRun => IInv'
<1> SUFFICES ASSUME IInv, NextRun PROVE IInv'
  OBVIOUS
<1>1. /\ book' = <<>> /\ pc' = "message" /\ i' = 0 /\ next_order_id_' = next_order_id_
      /\ position' = Flat /\ cash' = 0 /\ slack' = 0
  BY DEF NextRun
<1>2. MarketTyped'
  BY <1>1, EmptySeq DEF IInv, MarketTyped, Steps
<1>3. AccountTyped'
  BY <1>1 DEF AccountTyped, Account_, Flat
<1>4. PositionLimit'
  BY <1>1, ConfigAssumption, SMT DEF PositionLimit, Flat, Abs
<1>5. EquityIsMarked'
  BY <1>1, SMT DEF EquityIsMarked, Flat, Abs
<1>6. OrderInsideLimit'
  BY <1>1 DEF OrderInsideLimit
<1> QED BY <1>2, <1>3, <1>4, <1>5, <1>6 DEF IInv

LEMMA NextInv == IInv /\ [Next]_vars => IInv'
<1> SUFFICES ASSUME IInv, [Next]_vars PROVE IInv'
  OBVIOUS
<1>1. CASE UNCHANGED vars
  BY <1>1 DEF IInv, MarketTyped, AccountTyped, OrderInsideLimit, PositionLimit,
              EquityIsMarked, vars, marketVars, accountVars, loopVars
<1>2. CASE Next
  BY <1>2, MessageStep, InvalidStep, MarketTradeStep, EndStep, DecideStep, NoSignalStep,
     StrategyTradeStep, LoopStep, NextRunStep DEF Next
<1> QED BY <1>1, <1>2

------------------------------------------------------------------------------

LEMMA Invariance == Spec => []IInv
BY InitInv, NextInv, PTL DEF Spec

\* The strategy's position stays within its limit and one order
\* (backtester.cpp:181): whatever the market does, partial fills and positions
\* that turn over included.
THEOREM LimitIsKept == Spec => []PositionLimit
<1>1. IInv => PositionLimit
  BY DEF IInv
<1> QED BY <1>1, Invariance, PTL

\* Profit and average entry price account for what the fills cost, but for the ticks
\* the truncated average loses (backtester.cpp:11-52).
THEOREM AccountBalances == Spec => []EquityIsMarked
<1>1. IInv => EquityIsMarked
  BY DEF IInv
<1> QED BY <1>1, Invariance, PTL

------------------------------------------------------------------------------
(* The strategy's orders: they trade, and on the simulator nothing else is *)
(* ever cancelled.                                                         *)

Report == [price : Prices, quantity : Nat, aggressor_side : Side]
Executing == pc \in {"market", "strategy"}

------------------------------------------------------------------------------
(* What a trade or a cancel leaves of the book.                            *)

SameOrder(o, p) == o.id = p.id /\ o.side = p.side /\ o.price = p.price

\* Each order of the new book is one of the old book that is not gone.
Traces(new, gone, f) ==
  /\ f \in [DOMAIN new -> DOMAIN book \ gone]
  /\ \A j, k \in DOMAIN new : f[j] = f[k] => j = k
  /\ \A j \in DOMAIN new : SameOrder(new[j], book[f[j]])
LeftOver(new, gone) == \E f : Traces(new, gone, f)

LEMMA WithoutElements ==
  ASSUME book \in Seq(Resting), NEW k \in DOMAIN book
  PROVE  /\ Len(Book!Without(k)) = Len(book) - 1
         /\ DOMAIN Book!Without(k) = 1..Len(book) - 1
         /\ \A j \in 1..Len(book) - 1 :
              Book!Without(k)[j] = book[IF j < k THEN j ELSE j + 1]
<1> DEFINE n == Len(book)
           front == SubSeq(book, 1, k - 1)
           back == SubSeq(book, k + 1, n)
<1>1. k \in 1..n /\ n \in Nat
  OBVIOUS
<1>2. /\ front \in Seq(Resting) /\ Len(front) = k - 1
      /\ \A j \in 1..k - 1 : front[j] = book[j]
  <2>1. 1 \in 1..n + 1 /\ k - 1 \in 0..n
    BY <1>1, SMT
  <2>2. k - 1 = 0 => front = <<>> 
    BY <1>1, SMT
  <2> QED BY <1>1, <2>1, <2>2, SubSeqProperties, SMT
<1>3. /\ back \in Seq(Resting) /\ Len(back) = n - k
      /\ \A j \in 1..n - k : back[j] = book[k + j]
  BY <1>1, SubSeqProperties, SMT
<1>4. /\ Len(front \o back) = n - 1
      /\ \A j \in 1..n - 1 : (front \o back)[j] =
           IF j <= k - 1 THEN front[j] ELSE back[j - (k - 1)]
  <2> HIDE DEF front, back
  <2>1. /\ Len(front \o back) = Len(front) + Len(back)
        /\ \A j \in 1..Len(front) + Len(back) : (front \o back)[j] =
             IF j <= Len(front) THEN front[j] ELSE back[j - Len(front)]
    BY <1>2, <1>3, ConcatProperties
  <2>2. Len(front) = k - 1 /\ Len(front) + Len(back) = n - 1
    BY <1>1, <1>2, <1>3, SMT
  <2> QED BY <2>1, <2>2
<1>5. front \o back \in Seq(Resting)
  <2> HIDE DEF front, back
  <2> QED BY <1>2, <1>3, ConcatProperties
<1>6. ASSUME NEW j \in 1..n - 1
      PROVE  (front \o back)[j] = book[IF j < k THEN j ELSE j + 1]
  <2>1. CASE j < k
    <3>1. j \in 1..k - 1
      BY <1>1, <2>1, SMT
    <3> QED BY <1>2, <1>4, <2>1, <3>1
  <2>2. CASE ~(j < k)
    <3>1. ~(j <= k - 1) /\ j - (k - 1) \in 1..n - k /\ k + (j - (k - 1)) = j + 1
      BY <1>1, <2>2, SMT
    <3> HIDE DEF front, back
    <3> QED BY <1>3, <1>4, <2>2, <3>1
  <2> QED BY <2>1, <2>2
<1>7. DOMAIN (front \o back) = 1..n - 1
  <2> HIDE DEF front, back, n
  <2> QED BY <1>4, <1>5
<1> QED BY <1>4, <1>6, <1>7 DEF Book!Without

LEMMA WithoutLeaves ==
  ASSUME book \in Seq(Resting), NEW k \in DOMAIN book
  PROVE  /\ LeftOver(Book!Without(k), {k})
         /\ \A j \in DOMAIN book \ {k} :
              \E l \in DOMAIN Book!Without(k) : Book!Without(k)[l] = book[j]
<1> DEFINE w == Book!Without(k)
           f == [j \in DOMAIN w |-> IF j < k THEN j ELSE j + 1]
<1>1. /\ k \in 1..Len(book) /\ Len(book) \in Nat /\ DOMAIN book = 1..Len(book)
      /\ DOMAIN w = 1..Len(book) - 1
      /\ \A j \in DOMAIN w : w[j] = book[IF j < k THEN j ELSE j + 1]
  <2>1. k \in 1..Len(book) /\ Len(book) \in Nat /\ DOMAIN book = 1..Len(book)
    OBVIOUS
  <2> QED BY <2>1, WithoutElements
<1> HIDE DEF w
<1>2. f \in [DOMAIN w -> DOMAIN book \ {k}]
  BY <1>1, SMT
<1>3. \A j, l \in DOMAIN w : f[j] = f[l] => j = l
  BY <1>1, SMT
<1>4. \A j \in DOMAIN w : SameOrder(w[j], book[f[j]])
  BY <1>1 DEF SameOrder
<1>5. LeftOver(w, {k})
  BY <1>2, <1>3, <1>4 DEF LeftOver, Traces
<1>6. ASSUME NEW j \in DOMAIN book \ {k}
      PROVE  \E l \in DOMAIN w : w[l] = book[j]
  <2>1. CASE j < k
    <3>1. j \in DOMAIN w
      BY <1>1, <2>1, SMT
    <3> QED BY <1>1, <2>1, <3>1
  <2>2. CASE ~(j < k)
    <3>1. j - 1 \in DOMAIN w /\ ~(j - 1 < k) /\ (j - 1) + 1 = j
      BY <1>1, <2>2, SMT
    <3> QED BY <1>1, <3>1
  <2> QED BY <2>1, <2>2
<1> QED BY <1>5, <1>6 DEF w

LEMMA TradeLeaves ==
  ASSUME book \in Seq(Resting), taker \in Resting, tape \in Seq(Report),
         NEW k \in DOMAIN book, Book!Trade(k)
  PROVE  /\ LeftOver(book', IF Matched(k) = book[k].quantity THEN {k} ELSE {})
         /\ SameOrder(taker', taker)
         /\ tape' \in Seq(Report) /\ tape' # <<>>
<1>1. /\ book[k] \in Resting /\ Matched(k) \in Nat
  <2>1. Matched(k) \in 0..taker.quantity /\ book[k] \in Resting
    BY TradeTypes
  <2>2. taker.quantity \in Nat
    BY DEF Resting
  <2> QED BY <2>1, <2>2
<1>2. SameOrder(taker', taker)
  <2>1. \E q : taker' = [taker EXCEPT !.quantity = q]
    BY DEF Book!Trade
  <2> QED BY <2>1 DEF Resting, SameOrder
<1>3. tape' \in Seq(Report) /\ tape' # <<>>
  <2>1. tape' = Append(tape, [price |-> book[k].price, quantity |-> Matched(k),
                              aggressor_side |-> taker.side])
    BY DEF Book!Trade, Matched
  <2>2. [price |-> book[k].price, quantity |-> Matched(k),
         aggressor_side |-> taker.side] \in Report
    BY <1>1 DEF Report, Resting
  <2> QED BY <2>1, <2>2, AppendProperties
<1>4. CASE Matched(k) = book[k].quantity
  <2>1. book' = Book!Without(k)
    BY <1>4 DEF Book!Trade, Matched
  <2> QED BY <1>2, <1>3, <1>4, <2>1, WithoutLeaves
<1>5. CASE Matched(k) # book[k].quantity
  <2>1. PICK q : book' = [book EXCEPT ![k].quantity = q]
    BY <1>5 DEF Book!Trade, Matched
  <2> DEFINE f == [j \in DOMAIN book |-> j]
  <2>2. DOMAIN book' = DOMAIN book
    BY <2>1
  <2>3. ASSUME NEW j \in DOMAIN book PROVE SameOrder(book'[j], book[j])
    <3>1. book'[j] = IF j = k THEN [book[k] EXCEPT !.quantity = q] ELSE book[j]
      BY <2>1
    <3> QED BY <1>1, <3>1 DEF SameOrder, Resting
  <2>4. Traces(book', {}, f)
    BY <2>2, <2>3 DEF Traces
  <2>5. LeftOver(book', {})
    BY <2>4 DEF LeftOver
  <2> QED BY <1>2, <1>3, <1>5, <2>5
<1> QED BY <1>4, <1>5

------------------------------------------------------------------------------
(* The inductive invariant on top of IInv.                                 *)

Distinct(b) == \A j, k \in DOMAIN b : b[j].id = b[k].id => j = k
Uncrossed(b) == \A j, k \in DOMAIN b :
  b[j].side = "Buy" /\ b[k].side = "Sell" => b[j].price < b[k].price

\* The simulator has not given out the id yet, unless the order is the strategy's.
KnownId(id, next, own) == id < next \/ id \in own
KnownIds ==
  Kind = "ema" =>
    /\ \A k \in DOMAIN book : KnownId(book[k].id, next_order_id_, ours)
    /\ Executing => KnownId(taker.id, next_order_id_, ours)

TakerApart == Executing => \A k \in DOMAIN book : book[k].id # taker.id
TakerFresh == Executing => tape # <<>> \/ taker.quantity > 0

\* An order of the strategy that has not traded reaches an order of the other side;
\* its price is better than any on its own side.
Inside(b, o) == \A k \in DOMAIN b :
  b[k].side = o.side => Book!Better(o.side, o.price, b[k].price)
OwnInside ==
  pc = "strategy" =>
    /\ tape = <<>> => \E k \in DOMAIN book : Book!Crosses(book[k])
    /\ Inside(book, taker)

OInv ==
  /\ run \in Nat /\ tape \in Seq(Report)
  /\ Distinct(book) /\ Uncrossed(book) /\ KnownIds
  /\ TakerApart /\ TakerFresh /\ OwnInside

LEMMA OInvInit == Init => OInv
<1> SUFFICES ASSUME Init PROVE OInv
  OBVIOUS
<1>1. book = <<>> /\ tape = <<>> /\ pc = "message" /\ run = 1
  BY DEF Init, Book!Init
<1>2. Distinct(<<>>) /\ Uncrossed(<<>>)
  BY DEF Distinct, Uncrossed
<1>3. <<>> \in Seq(Report) /\ DOMAIN <<>> = {}
  BY EmptySeq
<1> QED BY <1>1, <1>2, <1>3 DEF OInv, KnownIds, TakerApart, TakerFresh, OwnInside, Executing

\* A book that is left over keeps what holds of each order or pair of orders.
LEMMA LeftOverKeeps ==
  ASSUME NEW b, NEW gone, LeftOver(b, gone)
  PROVE  /\ Distinct(book) => Distinct(b)
         /\ Uncrossed(book) => Uncrossed(b)
         /\ \A o : Inside(book, o) => Inside(b, o)
         /\ \A id : (\A k \in DOMAIN book : book[k].id # id)
                      => (\A k \in DOMAIN b : b[k].id # id)
         /\ \A k \in DOMAIN b : \E j \in DOMAIN book \ gone : b[k].id = book[j].id
<1>1. PICK f : Traces(b, gone, f)
  BY DEF LeftOver
<1>2. ASSUME NEW k \in DOMAIN b
      PROVE  f[k] \in DOMAIN book \ gone /\ SameOrder(b[k], book[f[k]])
  BY <1>1 DEF Traces
<1>3. Distinct(book) => Distinct(b)
  <2> SUFFICES ASSUME Distinct(book), NEW j \in DOMAIN b, NEW k \in DOMAIN b,
                      b[j].id = b[k].id
               PROVE  j = k
    BY DEF Distinct
  <2>1. book[f[j]].id = book[f[k]].id
    BY <1>2 DEF SameOrder
  <2>2. f[j] = f[k]
    BY <1>2, <2>1 DEF Distinct
  <2> QED BY <1>1, <2>2 DEF Traces
<1>4. Uncrossed(book) => Uncrossed(b)
  BY <1>2 DEF Uncrossed, SameOrder
<1>5. ASSUME NEW o, Inside(book, o) PROVE Inside(b, o)
  BY <1>2, <1>5 DEF Inside, SameOrder
<1>6. ASSUME NEW id, \A k \in DOMAIN book : book[k].id # id, NEW k \in DOMAIN b
      PROVE  b[k].id # id
  BY <1>2, <1>6 DEF SameOrder
<1>7. ASSUME NEW k \in DOMAIN b
      PROVE  \E j \in DOMAIN book \ gone : b[k].id = book[j].id
  BY <1>2 DEF SameOrder
<1> QED BY <1>3, <1>4, <1>5, <1>6, <1>7

\* The order that leaves the book takes its id out of the strategy's, no other's.
LEMMA KnownAfter ==
  ASSUME Distinct(book), NEW k \in DOMAIN book, NEW b, LeftOver(b, {k}),
         NEW next,
         \A j \in DOMAIN book : KnownId(book[j].id, next, ours)
  PROVE  \A j \in DOMAIN b : KnownId(b[j].id, next, ours \ {book[k].id})
<1> SUFFICES ASSUME NEW j \in DOMAIN b
             PROVE  KnownId(b[j].id, next, ours \ {book[k].id})
  OBVIOUS
<1>1. PICK l \in DOMAIN book \ {k} : b[j].id = book[l].id
  BY LeftOverKeeps
<1>2. book[l].id # book[k].id
  BY <1>1 DEF Distinct
<1> QED BY <1>1, <1>2 DEF KnownId

------------------------------------------------------------------------------
(* Each step keeps it.                                                     *)

LEMMA KnownLater ==
  ASSUME NEW id \in Nat, NEW next \in Nat, NEW later \in {next, next + 1}, NEW own,
         KnownId(id, next, own)
  PROVE  KnownId(id, later, own)
BY SMT DEF KnownId

\* The ids of the book and of the order that executes are numbers.
LEMMA Numbers ==
  ASSUME IInv
  PROVE  /\ \A k \in DOMAIN book : book[k] \in Resting /\ book[k].id \in Nat
         /\ Executing => taker \in Resting /\ taker.id \in Nat
         /\ book \in Seq(Resting) /\ next_order_id_ \in Nat
<1>1. /\ book \in Seq(Resting) /\ next_order_id_ \in Nat
      /\ Executing => taker \in Resting
  BY DEF IInv, MarketTyped, Executing
<1>2. \A k \in DOMAIN book : book[k] \in Resting
  BY <1>1
<1>3. \A o \in Resting : o.id \in Nat
  BY DEF Resting
<1> QED BY <1>1, <1>2, <1>3

\* No order is executing after the step, and the book is as it was.
LEMMA BookAtRest ==
  ASSUME IInv, OInv, UNCHANGED <<marketVars, run>>,
         next_order_id_' \in {next_order_id_, next_order_id_ + 1}, ~Executing'
  PROVE  OInv'
<1>1. book' = book /\ tape' = tape /\ ours' = ours /\ run' = run
  BY DEF marketVars
<1>2. KnownIds'
  <2> SUFFICES ASSUME Kind = "ema", NEW k \in DOMAIN book
               PROVE  KnownId(book[k].id, next_order_id_', ours)
    BY <1>1 DEF KnownIds, Kind
  <2>1. KnownId(book[k].id, next_order_id_, ours)
    BY DEF OInv, KnownIds
  <2> QED BY <2>1, Numbers, KnownLater
<1>3. TakerApart' /\ TakerFresh' /\ OwnInside'
  BY DEF TakerApart, TakerFresh, OwnInside, Executing
<1> QED BY <1>1, <1>2, <1>3 DEF OInv

LEMMA RestStep ==
  IInv /\ OInv /\ (InvalidMessage \/ NoSignal \/ Account \/ Returned) => OInv'
<1> SUFFICES ASSUME IInv, OInv, InvalidMessage \/ NoSignal \/ Account \/ Returned
             PROVE  OInv'
  OBVIOUS
<1>1. UNCHANGED <<marketVars, run>> /\ next_order_id_' = next_order_id_ /\ ~Executing'
  BY DEF InvalidMessage, NoSignal, Account, Returned, vars, loopVars, Executing
<1> QED BY <1>1, BookAtRest

LEMMA NewRunStep == OInv /\ NextRun => OInv'
<1> SUFFICES ASSUME OInv, NextRun PROVE OInv'
  OBVIOUS
<1>1. book' = <<>> /\ tape' = <<>> /\ pc' = "message" /\ run' = run + 1
  BY DEF NextRun
<1>2. <<>> \in Seq(Report) /\ DOMAIN <<>> = {} /\ run + 1 \in Nat
  BY EmptySeq, SMT DEF OInv
<1>3. Distinct(<<>>) /\ Uncrossed(<<>>)
  BY <1>2 DEF Distinct, Uncrossed
<1> QED BY <1>1, <1>2, <1>3
        DEF OInv, KnownIds, TakerApart, TakerFresh, OwnInside, Executing

\* A message of the simulator has the next id.
LEMMA Numbered ==
  ASSUME IInv, NEW msg \in Simulated \cup Recorded, Received(msg)
  PROVE  /\ pc = "message" /\ run' = run
         /\ next_order_id_' \in {next_order_id_, next_order_id_ + 1}
         /\ Kind = "ema" =>
              msg.id = next_order_id_ /\ next_order_id_' = next_order_id_ + 1
         /\ msg.id \in Nat /\ msg.quantity > 0
<1>1. /\ pc = "message" /\ run' = run
      /\ next_order_id_' \in {next_order_id_, next_order_id_ + 1}
      /\ Kind = "ema" => msg \in Simulated /\ next_order_id_' = next_order_id_ + 1
  BY DEF Received
<1>2. msg \in Simulated => msg.id = next_order_id_
  BY DEF Simulated, Messages
<1>3. \E o \in Flow : msg.quantity = o.quantity
  BY DEF Simulated, Recorded, Messages
<1>4. msg.quantity > 0
  <2>1. msg.quantity \in Nat \ {0}
    BY <1>3, MarketAssumption
  <2> QED BY <2>1, SMT
<1>5. msg.id \in Nat
  BY ReceivedKeeps
<1> QED BY <1>1, <1>2, <1>4, <1>5

\* In a run on the simulator a message's order is new, or the strategy's.
LEMMA MessageOrders == IInv /\ OInv /\ Message => OInv'
<1> SUFFICES ASSUME IInv, OInv, NEW msg \in Simulated \cup Recorded,
                    LimitMessage(msg) \/ CancelMessage(msg)
                      \/ ModifyMessage(msg) \/ NoEffect(msg)
             PROVE  OInv'
  BY DEF Message
<1>1. Received(msg)
  BY DEF LimitMessage, CancelMessage, ModifyMessage, NoEffect
<1>2. /\ pc = "message" /\ run' = run
      /\ next_order_id_' \in {next_order_id_, next_order_id_ + 1}
      /\ Kind = "ema" => msg.id = next_order_id_ /\ next_order_id_' = next_order_id_ + 1
      /\ msg.id \in Nat /\ msg.quantity > 0
  BY <1>1, Numbered
<1>3. book \in Seq(Resting) /\ tape \in Seq(Report) /\ next_order_id_ \in Nat
  BY Numbers DEF OInv
<1>4. ASSUME Kind = "ema", NEW own PROVE KnownId(msg.id, next_order_id_', own)
  BY <1>2, <1>3, <1>4, SMT DEF KnownId
<1>5. ASSUME Kind = "ema", NEW k \in DOMAIN book
      PROVE  KnownId(book[k].id, next_order_id_', ours)
  <2>1. KnownId(book[k].id, next_order_id_, ours)
    BY <1>5 DEF OInv, KnownIds
  <2> QED BY <1>2, <2>1, Numbers, KnownLater
<1>6. CASE LimitMessage(msg)
  <2>1. /\ book' = book /\ tape' = tape /\ ours' = ours /\ pc' = "market"
        /\ taker' = Order(msg, msg.side) /\ \A k \in DOMAIN book : book[k].id # msg.id
    BY <1>6 DEF LimitMessage, Book!Submit, Order
  <2>2. taker'.id = msg.id /\ taker'.quantity = msg.quantity
    BY <2>1 DEF Order
  <2>3. KnownIds'
    BY <1>2, <1>4, <1>5, <2>1, <2>2 DEF KnownIds, Kind
  <2>4. TakerApart' /\ TakerFresh' /\ OwnInside'
    BY <1>2, <2>1, <2>2 DEF TakerApart, TakerFresh, OwnInside
  <2> QED BY <1>2, <2>1, <2>3, <2>4 DEF OInv
<1>7. CASE CancelMessage(msg)
  <2>1. PICK k \in DOMAIN book : book[k].id = msg.id /\ book' = Book!Without(k)
    BY <1>7 DEF CancelMessage, Book!Cancel
  <2>2. ours' = ours \ {msg.id} /\ tape' = tape /\ pc' = "decide"
    BY <1>7 DEF CancelMessage, Book!Cancel
  <2>3. LeftOver(book', {k})
    BY <1>3, <2>1, WithoutLeaves
  <2>4. Distinct(book') /\ Uncrossed(book')
    BY <2>3, LeftOverKeeps DEF OInv
  <2>5. KnownIds'
    <3>1. ASSUME Kind = "ema"
          PROVE  \A j \in DOMAIN book' : KnownId(book'[j].id, next_order_id_', ours')
      <4>1. \A j \in DOMAIN book : KnownId(book[j].id, next_order_id_', ours)
        BY <1>5, <3>1
      <4> DEFINE b == book'
                 next == next_order_id_'
      <4> HIDE DEF b, next
      <4>2. \A j \in DOMAIN b : KnownId(b[j].id, next, ours \ {book[k].id})
        BY <2>3, <4>1, KnownAfter DEF OInv, b, next
      <4> QED BY <2>1, <2>2, <4>2 DEF b, next
    <3> QED BY <1>2, <2>2, <3>1 DEF KnownIds, Kind, Executing
  <2>6. TakerApart' /\ TakerFresh' /\ OwnInside'
    BY <2>2 DEF TakerApart, TakerFresh, OwnInside, Executing
  <2> QED BY <1>2, <2>2, <2>4, <2>5, <2>6 DEF OInv
<1>8. CASE ModifyMessage(msg)
  <2>1. PICK k \in DOMAIN book :
          /\ book[k].id = msg.id /\ book' = Book!Without(k)
          /\ taker' = Order(msg, book[k].side)
    BY <1>8 DEF ModifyMessage
  <2>2. ours' = ours /\ tape' = tape /\ pc' = "market"
    BY <1>8 DEF ModifyMessage
  <2>3. taker'.id = msg.id /\ taker'.quantity = msg.quantity
    BY <2>1 DEF Order
  <2>4. LeftOver(book', {k})
    BY <1>3, <2>1, WithoutLeaves
  <2>5. Distinct(book') /\ Uncrossed(book')
    BY <2>4, LeftOverKeeps DEF OInv
  <2>6. \A j \in DOMAIN book' : \E l \in DOMAIN book \ {k} : book'[j].id = book[l].id
    BY <2>4, LeftOverKeeps
  <2>7. KnownIds'
    BY <1>2, <1>4, <1>5, <2>2, <2>3, <2>6 DEF KnownIds, Kind
  <2>8. TakerApart'
    BY <2>1, <2>3, <2>6 DEF OInv, TakerApart, Distinct
  <2>9. TakerFresh' /\ OwnInside'
    BY <1>2, <2>2, <2>3 DEF TakerFresh, OwnInside
  <2> QED BY <1>2, <2>2, <2>5, <2>7, <2>8, <2>9 DEF OInv
<1>9. CASE NoEffect(msg)
  <2>1. UNCHANGED <<marketVars, run>> /\ ~Executing'
    BY <1>2, <1>9 DEF NoEffect, Executing
  <2> QED BY <1>2, <2>1, BookAtRest
<1> QED BY <1>6, <1>7, <1>8, <1>9

------------------------------------------------------------------------------
LEMMA TradeOrders == IInv /\ OInv /\ (MarketTrade \/ StrategyTrade) => OInv'
<1> SUFFICES ASSUME IInv, OInv, MarketTrade \/ StrategyTrade PROVE OInv'
  OBVIOUS
<1>1. /\ Executing /\ UNCHANGED <<pc, run, next_order_id_>>
      /\ \E k \in DOMAIN book : Book!Trade(k) /\ ours' = OursAfter(k)
  BY DEF MarketTrade, StrategyTrade, Executing, loopVars
<1>2. PICK k \in DOMAIN book : Book!Trade(k) /\ ours' = OursAfter(k)
  BY <1>1
<1> DEFINE gone == IF Matched(k) = book[k].quantity THEN {k} ELSE {}
<1>3. /\ LeftOver(book', gone) /\ SameOrder(taker', taker)
      /\ tape' \in Seq(Report) /\ tape' # <<>>
  BY <1>1, <1>2, Numbers, TradeLeaves DEF OInv
<1>4. /\ Distinct(book') /\ Uncrossed(book')
      /\ \A o : Inside(book, o) => Inside(book', o)
      /\ \A id : (\A j \in DOMAIN book : book[j].id # id)
                   => (\A j \in DOMAIN book' : book'[j].id # id)
      /\ \A j \in DOMAIN book' : \E l \in DOMAIN book \ gone : book'[j].id = book[l].id
  <2> HIDE DEF gone
  <2> QED BY <1>3, LeftOverKeeps DEF OInv
<1>5. KnownIds'
  <2> SUFFICES ASSUME Kind = "ema"
               PROVE  /\ \A j \in DOMAIN book' :
                           KnownId(book'[j].id, next_order_id_, ours')
                      /\ KnownId(taker.id, next_order_id_, ours')
    BY <1>1, <1>3 DEF KnownIds, Kind, SameOrder
  <2>1. /\ \A j \in DOMAIN book : KnownId(book[j].id, next_order_id_, ours)
        /\ KnownId(taker.id, next_order_id_, ours) /\ book[k].id # taker.id
    BY <1>1 DEF OInv, KnownIds, TakerApart
  <2>2. CASE Matched(k) = book[k].quantity
    <3>1. ours' = ours \ {book[k].id} /\ LeftOver(book', {k})
      BY <1>2, <1>3, <2>2 DEF OursAfter
    <3> DEFINE b == book'
    <3> HIDE DEF b
    <3>2. \A j \in DOMAIN b : KnownId(b[j].id, next_order_id_, ours \ {book[k].id})
      BY <2>1, <3>1, KnownAfter DEF OInv, b
    <3> QED BY <2>1, <3>1, <3>2 DEF b, KnownId
  <2>3. CASE Matched(k) # book[k].quantity
    BY <1>2, <1>4, <2>1, <2>3 DEF OursAfter
  <2> QED BY <2>2, <2>3
<1>6. TakerApart' /\ TakerFresh'
  BY <1>1, <1>3, <1>4 DEF OInv, TakerApart, TakerFresh, SameOrder
<1>7. OwnInside'
  BY <1>1, <1>3, <1>4 DEF OInv, OwnInside, Inside, SameOrder
<1> QED BY <1>1, <1>3, <1>4, <1>5, <1>6, <1>7 DEF OInv

\* What is left of an order rests where nothing of the other side is in its reach.
LEMMA EndOrders == IInv /\ OInv /\ (MarketEnd \/ StrategyEnd) => OInv'
<1> SUFFICES ASSUME IInv, OInv, MarketEnd \/ StrategyEnd PROVE OInv'
  OBVIOUS
<1>1. /\ Executing /\ ~Executing' /\ UNCHANGED <<run, next_order_id_>>
      /\ Executed
  BY DEF MarketEnd, StrategyEnd, Executing, loopVars
<1>2. /\ tape' = <<>> /\ <<>> \in Seq(Report)
      /\ ours' = IF taker.quantity = 0 THEN ours \ {taker.id} ELSE ours
  BY <1>1, EmptySeq DEF Executed, Book!Done, Book!Rest
<1>3. book \in Seq(Resting) /\ taker \in Resting /\ taker.quantity \in Nat
  BY <1>1, Numbers DEF Resting
<1>4. /\ \A k \in DOMAIN book : book[k].id # taker.id
      /\ Distinct(book) /\ Uncrossed(book)
  BY <1>1 DEF OInv, TakerApart
<1>5. ASSUME Kind = "ema"
      PROVE  /\ \A k \in DOMAIN book : KnownId(book[k].id, next_order_id_, ours')
             /\ taker.quantity # 0 => KnownId(taker.id, next_order_id_, ours')
  <2>1. /\ \A k \in DOMAIN book : KnownId(book[k].id, next_order_id_, ours)
        /\ KnownId(taker.id, next_order_id_, ours)
    BY <1>1, <1>5 DEF OInv, KnownIds
  <2> QED BY <1>2, <1>4, <2>1 DEF KnownId
<1>6. /\ Distinct(book') /\ Uncrossed(book')
      /\ Kind = "ema" =>
           \A k \in DOMAIN book' : KnownId(book'[k].id, next_order_id_, ours')
  <2>1. CASE book' = book
    BY <1>4, <1>5, <2>1
  <2>2. CASE Book!Rest
    <3>1. /\ book' = Append(book, taker)
          /\ \A k \in DOMAIN book : ~Book!Crosses(book[k])
      BY <2>2 DEF Book!Rest
    <3> DEFINE n == Len(book) + 1
    <3>2. /\ DOMAIN book' = DOMAIN book \cup {n} /\ book'[n] = taker
          /\ \A k \in DOMAIN book : book'[k] = book[k]
      BY <1>3, <3>1, AppendProperties
    <3> HIDE DEF n
    <3>3. ASSUME NEW k \in DOMAIN book
          PROVE  /\ taker.side = "Buy" /\ book[k].side = "Sell"
                      => taker.price < book[k].price
                 /\ taker.side = "Sell" /\ book[k].side = "Buy"
                      => book[k].price < taker.price
      BY <3>1, <1>3 DEF Book!Crosses, Book!Better
    <3>4. Distinct(book')
      BY <1>4, <3>2 DEF Distinct
    <3>5. Uncrossed(book')
      BY <1>4, <3>2, <3>3 DEF Uncrossed
    <3>6. ASSUME Kind = "ema", NEW k \in DOMAIN book'
          PROVE  KnownId(book'[k].id, next_order_id_, ours')
      <4>1. CASE taker.quantity # 0
        BY <1>5, <3>2, <3>6, <4>1
      <4>2. CASE taker.quantity = 0
        BY <1>1, <1>5, <2>2, <3>2, <3>6, <4>2 DEF Book!Rest, OInv, TakerFresh
      <4> QED BY <4>1, <4>2
    <3> QED BY <3>4, <3>5, <3>6
  <2> QED BY <1>1, <2>1, <2>2 DEF Executed, Book!Done
<1>7. KnownIds' /\ TakerApart' /\ TakerFresh' /\ OwnInside'
  BY <1>1, <1>6 DEF KnownIds, Kind, TakerApart, TakerFresh, OwnInside, Executing
<1> QED BY <1>1, <1>2, <1>6, <1>7 DEF OInv

\* The strategy's order is priced at the best of the other side: it reaches the
\* order there, and its own side ends below.
LEMMA CrossingIsInside ==
  ASSUME book \in Seq(Resting), Uncrossed(book), HasMid, NEW side \in Side
  PROVE  /\ Inside(book, Crossing(side))
         /\ \E k \in DOMAIN book :
              /\ book[k].side # side
              /\ ~Book!Better(book[k].side, Crossing(side).price, book[k].price)
<1> DEFINE other == IF side = "Buy" THEN "Sell" ELSE "Buy"
           price == BestPrice(other)
<1>1. Crossing(side).side = side /\ Crossing(side).price = price /\ other \in Side
  BY DEF Crossing, Side
<1>2. price \in SidePrices(other) /\ price \in Prices
  <2>1. SidePrices(other) # {}
    BY DEF HasMid
  <2> QED BY <1>1, <2>1, BestIsAPrice
<1>3. PICK k \in DOMAIN book : book[k].side = other /\ book[k].price = price
  BY <1>2 DEF SidePrices
<1>4. price \in Nat
  <2>1. price \in 0..MaxPrice /\ MaxPrice \in Nat
    BY <1>2, MarketAssumption
  <2> HIDE DEF price
  <2> QED BY <2>1, SMT
<1>5. other # side /\ ~Book!Better(other, price, price)
  <2> HIDE DEF price
  <2> QED BY <1>4, SMT DEF Book!Better, Side
<1>6. ASSUME NEW j \in DOMAIN book, book[j].side = side
      PROVE  Book!Better(side, price, book[j].price)
  <2>1. CASE side = "Buy"
    <3>1. book[j].price < price
      BY <1>3, <1>6, <2>1 DEF Uncrossed
    <3> HIDE DEF price
    <3>2. book[j] \in Resting
      OBVIOUS
    <3> QED BY <2>1, <3>1 DEF Book!Better
  <2>2. CASE side = "Sell"
    <3>1. price < book[j].price
      BY <1>3, <1>6, <2>2 DEF Uncrossed
    <3> HIDE DEF price
    <3> QED BY <2>2, <3>1 DEF Book!Better
  <2> QED BY <2>1, <2>2 DEF Side
<1>7. Inside(book, Crossing(side))
  BY <1>1, <1>6 DEF Inside
<1> QED BY <1>1, <1>3, <1>5, <1>7

LEMMA DecideOrders == IInv /\ OInv /\ Decide => OInv'
<1> SUFFICES ASSUME IInv, OInv, Decide PROVE OInv'
  OBVIOUS
<1>1. /\ UNCHANGED <<run, next_order_id_>> /\ HasMid
      /\ book \in Seq(Resting) /\ Uncrossed(book)
  BY Numbers DEF Decide, loopVars, OInv
<1>2. CASE pc' = "account" /\ UNCHANGED marketVars
  <2>1. ~Executing'
    BY <1>2 DEF Executing
  <2> QED BY <1>1, <1>2, <2>1, BookAtRest
<1>3. CASE \E side \in Side : Submitted(side) /\ ~Live(OwnIdBase + i)
  <2>1. PICK side \in Side : Submitted(side) /\ ~Live(OwnIdBase + i)
    BY <1>3
  <2> DEFINE own == OwnIdBase + i
  <2>2. /\ pc' = "strategy" /\ book' = book /\ tape' = tape
        /\ taker' = Crossing(side) /\ ours' = ours \cup {own}
    BY <2>1 DEF Submitted, Book!Submit
  <2>3. /\ taker'.id = own /\ taker'.side = side /\ taker'.quantity > 0
    BY <2>2, ConfigAssumption, SMT DEF Crossing
  <2>4. /\ Inside(book, taker')
        /\ \E k \in DOMAIN book :
             /\ book[k].side # side
             /\ ~Book!Better(book[k].side, taker'.price, book[k].price)
    BY <1>1, <2>2, CrossingIsInside
  <2>5. OwnInside'
    BY <2>2, <2>3, <2>4 DEF OwnInside, Inside, Book!Crosses
  <2>6. KnownIds'
    BY <1>1, <2>2, <2>3 DEF OInv, KnownIds, KnownId, Kind
  <2>7. TakerApart' /\ TakerFresh'
    BY <2>1, <2>2, <2>3 DEF TakerApart, TakerFresh, Live
  <2> QED BY <1>1, <2>2, <2>5, <2>6, <2>7 DEF OInv
<1>4. \/ pc' = "account" /\ UNCHANGED marketVars
      \/ \E side \in Side : Submitted(side) /\ ~Live(OwnIdBase + i)
  <2>1. CASE Kind = "ema" /\ \E side \in {"Buy", "Sell"} : Wanted(side)
    <3>1. PICK side \in {"Buy", "Sell"} : Wanted(side)
      BY <2>1
    <3>2. signal' = side
      BY <3>1 DEF Wanted
    <3>3. Submitted(side)
      BY <2>1, <3>2 DEF Decide
    <3>4. CASE Live(OwnIdBase + i)
      BY <3>3, <3>4 DEF Submitted
    <3> QED BY <3>3, <3>4 DEF Side
  <2>2. CASE ~(Kind = "ema" /\ \E side \in {"Buy", "Sell"} : Wanted(side))
    BY <2>2 DEF Decide
  <2> QED BY <2>1, <2>2
<1> QED BY <1>2, <1>3, <1>4

LEMMA NextOrders == IInv /\ OInv /\ [Next]_vars => OInv'
<1> SUFFICES ASSUME IInv, OInv, [Next]_vars PROVE OInv'
  OBVIOUS
<1>1. CASE UNCHANGED vars
  BY <1>1 DEF OInv, KnownIds, Kind, TakerApart, TakerFresh, OwnInside, Executing,
              Inside, Book!Crosses, vars, marketVars, loopVars
<1>2. CASE Next
  BY <1>2, MessageOrders, RestStep, TradeOrders, EndOrders, DecideOrders, NewRunStep
     DEF Next
<1> QED BY <1>1, <1>2

LEMMA OrdersInvariant == Spec => [](IInv /\ OInv)
BY OInvInit, NextOrders, Invariance, PTL DEF Spec

------------------------------------------------------------------------------

\* In a run on the simulator nothing but an order of the strategy is cancelled or
\* modified (backtester.cpp:182, market_data.cpp:30), however long the run.
THEOREM CancelsAreOwn == Spec => OnlyOwnAreCancelled
<1> DEFINE Kept == \A k \in DOMAIN book :
                    Own(k) \/ \E j \in DOMAIN book' : book'[j] = book[k]
<1>1. IInv /\ OInv /\ [Next]_vars =>
        [pc = "message" /\ Kind = "ema" /\ run' = run => Kept]_vars
  <2> SUFFICES ASSUME IInv, OInv, Next, pc = "message", Kind = "ema", run' = run
               PROVE  Kept
    OBVIOUS
  <2>1. CASE book' = book
    BY <2>1
  <2>2. CASE \E msg \in Simulated \cup Recorded :
               CancelMessage(msg) \/ ModifyMessage(msg)
    <3>1. PICK msg \in Simulated \cup Recorded :
                 CancelMessage(msg) \/ ModifyMessage(msg)
      BY <2>2
    <3>2. msg.id = next_order_id_
      BY <3>1, Numbered DEF CancelMessage, ModifyMessage
    <3>3. PICK k \in DOMAIN book : book[k].id = msg.id /\ book' = Book!Without(k)
      BY <3>1 DEF CancelMessage, ModifyMessage, Book!Cancel
    <3>4. \A j \in DOMAIN book \ {k} : \E l \in DOMAIN book' : book'[l] = book[j]
      BY <3>3, Numbers, WithoutLeaves
    <3>5. KnownId(book[k].id, next_order_id_, ours)
      BY DEF OInv, KnownIds
    <3>6. Own(k)
      <4>1. ~(next_order_id_ < next_order_id_)
        BY Numbers, SMT
      <4> QED BY <3>2, <3>3, <3>5, <4>1 DEF KnownId, Own
    <3> QED BY <3>4, <3>6
  <2>3. CASE NextRun
    <3>1. run' = run + 1 /\ run \in Nat
      BY <2>3 DEF NextRun, OInv
    <3> QED BY <3>1, SMT
  <2>4. \/ book' = book \/ NextRun
        \/ \E msg \in Simulated \cup Recorded :
             CancelMessage(msg) \/ ModifyMessage(msg)
    BY DEF Next, Message, LimitMessage, NoEffect, InvalidMessage, MarketTrade, MarketEnd,
           Decide, NoSignal, StrategyTrade, StrategyEnd, Account, Returned,
           vars, marketVars, Book!Submit
  <2> QED BY <2>1, <2>2, <2>3, <2>4
<1> QED BY <1>1, OrdersInvariant, PTL DEF Spec, OnlyOwnAreCancelled

\* Every order that the strategy sends trades at once, and what is left of it rests
\* as the best of its side (backtester.cpp:182).
THEOREM OrdersTrade == Spec => OwnOrderTrades
<1> DEFINE Traded == /\ tape # <<>>
                     /\ taker.quantity > 0 =>
                          \A k \in DOMAIN book : book[k].side = taker.side =>
                            Book!Better(taker.side, taker.price, book[k].price)
<1>1. IInv /\ OInv /\ [Next]_vars => [StrategyEnd => Traded]_vars
  <2> SUFFICES ASSUME IInv, OInv, StrategyEnd PROVE Traded
    OBVIOUS
  <2>1. pc = "strategy" /\ Executed /\ Executing
    BY DEF StrategyEnd, Executing
  <2>2. Inside(book, taker) /\ (tape = <<>> => \E k \in DOMAIN book : Book!Crosses(book[k]))
    BY <2>1 DEF OInv, OwnInside
  <2>3. tape # <<>> \/ taker.quantity > 0
    BY <2>1 DEF OInv, TakerFresh
  <2>4. CASE Book!Done
    <3>1. ~(taker.quantity > 0)
      BY <2>4 DEF Book!Done
    <3> QED BY <2>2, <2>3, <3>1 DEF Inside
  <2>5. CASE Book!Rest
    BY <2>2, <2>5 DEF Book!Rest, Inside
  <2> QED BY <2>1, <2>4, <2>5 DEF Executed
<1> QED BY <1>1, OrdersInvariant, PTL DEF Spec, OwnOrderTrades

------------------------------------------------------------------------------
(* Peak and drawdown.                                                      *)

IsMax(m, S) == m \in S /\ \A y \in S : m >= y

LEMMA MaxIs ==
  ASSUME NEW S \in SUBSET Int, NEW m, IsMax(m, S)
  PROVE  Max(S) = m
<1>1. m \in S /\ \A y \in S : m >= y
  BY DEF IsMax
<1>2. PICK x \in S : x = Max(S) /\ \A y \in S : x >= y
  BY <1>1 DEF Max
<1>3. m >= x /\ x >= m /\ m \in Int /\ x \in Int
  BY <1>1, <1>2
<1> QED BY <1>2, <1>3

LEMMA MaxOfTwo ==
  ASSUME NEW a \in Int, NEW b \in Int
  PROVE  /\ Max({a, b}) \in Int /\ Max({a, b}) \in {a, b}
         /\ Max({a, b}) >= a /\ Max({a, b}) >= b
<1>1. \E m \in {a, b} : IsMax(m, {a, b})
  BY DEF IsMax
<1>2. PICK m \in {a, b} : IsMax(m, {a, b})
  BY <1>1
<1>3. Max({a, b}) = m
  BY <1>2, MaxIs
<1> QED BY <1>2, <1>3 DEF IsMax

\* The equities up to the k-th, and how far each lies below the peak before it.
Equities(k) == {0} \cup {equity_curve_[j] : j \in 1..k}
Falls == {0} \cup {PeakUpTo(k) - equity_curve_[k] : k \in DOMAIN equity_curve_}

CurveInv ==
  /\ equity_curve_ \in Seq(Int)
  /\ \A k \in DOMAIN equity_curve_ : IsMax(PeakUpTo(k), Equities(k))
  /\ IsMax(peak_equity_, Equities(Len(equity_curve_)))
  /\ IsMax(current_drawdown_, Falls)

LEMMA EquitiesAreInts ==
  ASSUME equity_curve_ \in Seq(Int), NEW k \in 0..Len(equity_curve_)
  PROVE  Equities(k) \in SUBSET Int
<1>1. Len(equity_curve_) \in Nat
  BY LenProperties
<1>2. \A j \in 1..k : equity_curve_[j] \in Int
  BY <1>1, ElementOfSeq
<1> QED BY <1>2 DEF Equities

LEMMA CurveInit == Init => CurveInv
<1> SUFFICES ASSUME Init PROVE CurveInv
  OBVIOUS
<1>1. equity_curve_ = <<>> /\ peak_equity_ = 0 /\ current_drawdown_ = 0
  BY DEF Init
<1>2. equity_curve_ \in Seq(Int) /\ Len(equity_curve_) = 0 /\ DOMAIN equity_curve_ = {}
  BY <1>1, EmptySeq
<1>3. Equities(0) = {0} /\ Falls = {0}
  BY <1>2 DEF Equities, Falls
<1> QED BY <1>1, <1>2, <1>3 DEF CurveInv, IsMax

LEMMA EquityIsInt ==
  ASSUME IInv, HasMid
  PROVE  Equity \in Int
<1>1. BestPrice("Buy") \in Prices /\ BestPrice("Sell") \in Prices
  BY BestIsAPrice DEF HasMid, IInv, MarketTyped, Side
<1>2. BestPrice("Buy") + BestPrice("Sell") \in Int
  <2>1. \A p \in Prices : p \in Int
    BY MarketAssumption
  <2>2. BestPrice("Buy") \in Int /\ BestPrice("Sell") \in Int
    BY <1>1, <2>1
  <2> QED BY <2>2
<1>3. MidPrice \in Int
  BY <1>2 DEF MidPrice
<1>4. position.qty \in Int /\ position.avg_entry_price \in Int /\ position.realized_pnl \in Int
  BY DEF IInv, AccountTyped, Account_
<1> HIDE DEF MidPrice
<1>5. MidPrice - position.avg_entry_price \in Int
  BY <1>3, <1>4
<1>6. UnrealizedPnl(position, MidPrice) \in Int
  BY <1>4, <1>5 DEF UnrealizedPnl
<1> QED BY <1>4, <1>6 DEF Equity

\* The curve is longer by one.
LEMMA CurveGrows ==
  ASSUME CurveInv, NEW e \in Int, equity_curve_' = Append(equity_curve_, e),
         UpdateDrawdown(e)
  PROVE  CurveInv'
<1>0. PICK n \in Nat : n = Len(equity_curve_)
  BY LenProperties DEF CurveInv
<1>1. /\ n \in Nat /\ equity_curve_ \in Seq(Int) /\ DOMAIN equity_curve_ = 1..n
      /\ \A k \in 1..n : equity_curve_[k] \in Int
  BY <1>0, LenProperties, ElementOfSeq DEF CurveInv
<1>2. /\ equity_curve_' \in Seq(Int) /\ Len(equity_curve_') = n + 1
      /\ \A k \in 1..n : equity_curve_'[k] = equity_curve_[k]
      /\ equity_curve_'[n + 1] = e
  BY <1>0, <1>1, AppendProperties
<1>3. DOMAIN equity_curve_' = 1..n + 1
  BY <1>2, LenProperties
<1>4. ASSUME NEW k \in 1..n
      PROVE  Equities(k)' = Equities(k) /\ PeakUpTo(k)' = PeakUpTo(k)
  <2>1. \A j \in 1..k : equity_curve_'[j] = equity_curve_[j]
    BY <1>1, <1>2
  <2> QED BY <2>1 DEF Equities, PeakUpTo
<1>5. Equities(n + 1)' = Equities(n) \cup {e}
  <2>1. \A j \in 1..n + 1 : j \in 1..n \/ j = n + 1
    BY <1>1
  <2>2. 1..n \subseteq 1..n + 1 /\ n + 1 \in 1..n + 1
    BY <1>1
  <2>3. {equity_curve_'[j] : j \in 1..n + 1} = {equity_curve_[j] : j \in 1..n} \cup {e}
    BY <1>2, <2>1, <2>2
  <2> QED BY <2>3 DEF Equities
<1>6. IsMax(peak_equity_, Equities(n)) /\ Equities(n) \in SUBSET Int /\ peak_equity_ \in Int
  <2>1. n \in 0..n
    BY <1>1
  <2> QED BY <1>0, <1>1, <2>1, EquitiesAreInts DEF CurveInv, IsMax
<1>7. /\ peak_equity_' \in {peak_equity_, e} /\ peak_equity_' \in Int
      /\ peak_equity_' >= peak_equity_ /\ peak_equity_' >= e
  BY <1>6, MaxOfTwo DEF UpdateDrawdown
<1>8. IsMax(peak_equity_', Equities(n + 1)')
  <2>1. ASSUME NEW y \in Equities(n) PROVE peak_equity_' >= y
    <3>1. peak_equity_ >= y /\ y \in Int
      BY <1>6 DEF IsMax
    <3> QED BY <1>6, <1>7, <3>1
  <2> QED BY <1>5, <1>6, <1>7, <2>1 DEF IsMax
<1>9. PeakUpTo(n + 1)' = peak_equity_'
  <2>1. Equities(n + 1)' \in SUBSET Int
    BY <1>5, <1>6
  <2>2. Max(Equities(n + 1)') = peak_equity_'
    BY <1>8, <2>1, MaxIs
  <2> QED BY <2>2 DEF Equities, PeakUpTo
<1>10. Falls' = Falls \cup {peak_equity_' - e}
  <2>1. Falls' = {0} \cup {(PeakUpTo(k) - equity_curve_[k])' : k \in 1..n + 1}
    BY <1>3 DEF Falls
  <2>2. \A k \in 1..n : (PeakUpTo(k) - equity_curve_[k])' = PeakUpTo(k) - equity_curve_[k]
    BY <1>2, <1>4
  <2>3. (PeakUpTo(n + 1) - equity_curve_[n + 1])' = peak_equity_' - e
    BY <1>2, <1>9
  <2>4. \A k \in 1..n + 1 : k \in 1..n \/ k = n + 1
    BY <1>1
  <2>5. 1..n \subseteq 1..n + 1 /\ n + 1 \in 1..n + 1
    BY <1>1
  <2>6. {(PeakUpTo(k) - equity_curve_[k])' : k \in 1..n + 1}
          = {PeakUpTo(k) - equity_curve_[k] : k \in 1..n} \cup {peak_equity_' - e}
    <3> DEFINE F == {(PeakUpTo(k) - equity_curve_[k])' : k \in 1..n + 1}
               G == {PeakUpTo(k) - equity_curve_[k] : k \in 1..n}
    <3>1. ASSUME NEW x \in F PROVE x \in G \cup {peak_equity_' - e}
      <4>1. PICK k \in 1..n + 1 : x = (PeakUpTo(k) - equity_curve_[k])'
        OBVIOUS
      <4>2. CASE k \in 1..n
        BY <2>2, <4>1, <4>2
      <4>3. CASE k = n + 1
        BY <2>3, <4>1, <4>3
      <4> QED BY <2>4, <4>2, <4>3
    <3>2. ASSUME NEW x \in G PROVE x \in F
      <4>1. PICK k \in 1..n : x = PeakUpTo(k) - equity_curve_[k]
        OBVIOUS
      <4>2. x = (PeakUpTo(k) - equity_curve_[k])' /\ k \in 1..n + 1
        BY <2>2, <2>5, <4>1
      <4> QED BY <4>2
    <3>3. peak_equity_' - e \in F
      BY <2>3, <2>5
    <3> HIDE DEF F, G
    <3>4. F = G \cup {peak_equity_' - e}
      BY <3>1, <3>2, <3>3
    <3> QED BY <3>4 DEF F, G
  <2> QED BY <1>1, <2>1, <2>6 DEF Falls
<1>11. Falls \in SUBSET Int /\ current_drawdown_ \in Int
  <2>1. ASSUME NEW k \in 1..n PROVE PeakUpTo(k) - equity_curve_[k] \in Int
    <3>1. PeakUpTo(k) \in Int
      <4>1. k \in 0..Len(equity_curve_)
        BY <1>0, <1>1
      <4> QED BY <1>1, <4>1, EquitiesAreInts DEF CurveInv, IsMax
    <3> QED BY <1>1, <3>1
  <2> QED BY <1>1, <2>1 DEF Falls, CurveInv, IsMax
<1>12. IsMax(current_drawdown_', Falls')
  <2> DEFINE fall == peak_equity_' - e
  <2>1. fall \in Int
    BY <1>7
  <2>2. current_drawdown_' = Max({current_drawdown_, fall})
    BY DEF UpdateDrawdown
  <2> HIDE DEF fall
  <2>3. /\ current_drawdown_' \in {current_drawdown_, fall} /\ current_drawdown_' \in Int
        /\ current_drawdown_' >= current_drawdown_ /\ current_drawdown_' >= fall
    BY <1>11, <2>1, <2>2, MaxOfTwo
  <2>4. ASSUME NEW y \in Falls PROVE current_drawdown_' >= y
    <3>1. current_drawdown_ >= y /\ y \in Int
      BY <1>11 DEF CurveInv, IsMax
    <3> QED BY <1>11, <2>3, <3>1
  <2>5. current_drawdown_ \in Falls
    BY DEF CurveInv, IsMax
  <2> QED BY <1>10, <2>3, <2>4, <2>5 DEF IsMax, fall
<1>13. \A k \in 1..n + 1 : IsMax(PeakUpTo(k), Equities(k))'
  <2>1. \A k \in 1..n : IsMax(PeakUpTo(k), Equities(k))
    BY <1>1 DEF CurveInv
  <2>2. \A k \in 1..n : IsMax(PeakUpTo(k), Equities(k))'
    BY <1>4, <2>1 DEF IsMax
  <2>3. IsMax(PeakUpTo(n + 1), Equities(n + 1))'
    BY <1>8, <1>9 DEF IsMax
  <2>4. \A k \in 1..n + 1 : k \in 1..n \/ k = n + 1
    BY <1>1
  <2> QED BY <2>2, <2>3, <2>4
<1>14. IsMax(peak_equity_, Equities(Len(equity_curve_)))'
  BY <1>2, <1>8
<1> QED BY <1>2, <1>3, <1>12, <1>13, <1>14 DEF CurveInv

LEMMA CurveStep == IInv /\ CurveInv /\ [Next]_vars => CurveInv'
<1> SUFFICES ASSUME IInv, CurveInv, [Next]_vars PROVE CurveInv'
  OBVIOUS
<1>1. CASE UNCHANGED memberVars
  <2>1. /\ peak_equity_' = peak_equity_ /\ current_drawdown_' = current_drawdown_
        /\ equity_curve_' = equity_curve_
    BY <1>1 DEF memberVars
  <2>2. \A k : Equities(k)' = Equities(k) /\ PeakUpTo(k)' = PeakUpTo(k)
    BY <2>1 DEF Equities, PeakUpTo
  <2>3. Falls' = Falls
    BY <2>1, <2>2 DEF Falls
  <2>4. \A k \in DOMAIN equity_curve_' : IsMax(PeakUpTo(k), Equities(k))'
    BY <2>1, <2>2 DEF CurveInv, IsMax
  <2>5. Equities(Len(equity_curve_))' = Equities(Len(equity_curve_))
    BY <2>1, <2>2 DEF Equities
  <2> QED BY <2>1, <2>3, <2>4, <2>5 DEF CurveInv, IsMax
<1>2. CASE Account
  <2>1. CASE Kind = "ema" /\ HasMid
    BY <1>2, <2>1, EquityIsInt, CurveGrows DEF Account
  <2>2. CASE ~(Kind = "ema" /\ HasMid)
    BY <1>1, <1>2, <2>2 DEF Account
  <2> QED BY <2>1, <2>2
<1> QED BY <1>1, <1>2
        DEF Next, Message, LimitMessage, CancelMessage, ModifyMessage, NoEffect, Received,
            InvalidMessage, MarketTrade, MarketEnd, Decide, NoSignal, StrategyTrade,
            StrategyEnd, NextRun, Returned, vars

\* max_drawdown is the deepest fall of the equity curve below its peak, the curves of
\* all calls on one Backtester joined, because peak and drawdown are members
\* (backtester.cpp:120).
THEOREM DrawdownIsOfTheCurve == Spec => []DrawdownOfTheCurve
<1>1. CurveInv => DrawdownOfTheCurve
  <2> SUFFICES ASSUME CurveInv PROVE DrawdownOfTheCurve
    OBVIOUS
  <2>1. Falls \in SUBSET Int
    <3>1. /\ Len(equity_curve_) \in Nat /\ DOMAIN equity_curve_ = 1..Len(equity_curve_)
          /\ equity_curve_ \in Seq(Int)
      BY LenProperties DEF CurveInv
    <3>2. \A k \in DOMAIN equity_curve_ : k \in 0..Len(equity_curve_)
      BY <3>1
    <3>3. \A k \in DOMAIN equity_curve_ : PeakUpTo(k) \in Int
      BY <3>1, <3>2, EquitiesAreInts DEF CurveInv, IsMax
    <3>4. \A k \in DOMAIN equity_curve_ : equity_curve_[k] \in Int
      BY <3>1, ElementOfSeq
    <3> QED BY <3>3, <3>4 DEF Falls
  <2> QED BY <2>1, MaxIs DEF CurveInv, Falls, DrawdownOfTheCurve
<1> QED BY <1>1, CurveInit, CurveStep, Invariance, PTL DEF Spec

------------------------------------------------------------------------------
(* The rest of the types.                                                  *)

\* Ids and quantities of the orders are positive.
Positive ==
  /\ \A k \in DOMAIN book : book[k].id > 0 /\ book[k].quantity > 0
  /\ Executing => taker.id > 0
  /\ next_order_id_ > 0

\* There is an order to execute only while it executes, and an order of the strategy
\* that is not executing is in the book.
TakerThere == ~Executing => taker = None
OursThere == \A id \in ours : Live(id) \/ (Executing /\ taker.id = id)

\* The volume weighted price lies between any bounds of the prices.
Weighted ==
  /\ vwap.pv \in Int /\ vwap.qty \in Nat
  /\ \A b \in Prices :
       /\ (\A p \in Prices : b <= p) => b * vwap.qty <= vwap.pv
       /\ (\A p \in Prices : b >= p) => vwap.pv <= b * vwap.qty

Averaged == EMAInv /\ signal \in {"Buy", "Sell", "Hold"}

\* A pass is begun only if a message is left.
Looping ==
  /\ run \in DOMAIN Runs /\ i \in 0..Runs[run].length
  /\ pc # "message" => i < Runs[run].length

TInv == Positive /\ TakerThere /\ OursThere /\ Weighted /\ Averaged /\ Looping

LEMMA RunFacts ==
  /\ Len(Runs) \in Nat /\ Len(Runs) > 0 /\ DOMAIN Runs = 1..Len(Runs)
  /\ \A r \in DOMAIN Runs : Runs[r].length \in Nat
<1>1. /\ Runs \in Seq([kind : {"ema", "replay", "benchmark"}, length : Nat])
      /\ Runs # <<>>
  BY RunsAssumption
<1>2. Len(Runs) \in Nat /\ DOMAIN Runs = 1..Len(Runs)
  BY <1>1, LenProperties
<1>3. Len(Runs) # 0
  BY <1>1, EmptySeq
<1>4. \A r \in DOMAIN Runs : Runs[r] \in [kind : {"ema", "replay", "benchmark"}, length : Nat]
  BY <1>1, <1>2, ElementOfSeq
<1> QED BY <1>2, <1>3, <1>4

LEMMA PricesAreNumbers ==
  /\ Prices \subseteq 0..MaxPrice /\ Prices \subseteq Nat /\ Prices # {} /\ MaxPrice \in Nat
BY MarketAssumption

LEMMA NoneIsNoOrder == None \notin Resting
BY MarketAssumption DEF Resting, Side

LEMMA LoopingStep == Looping /\ [Next]_vars => Looping'
<1> SUFFICES ASSUME Looping, [Next]_vars PROVE Looping'
  OBVIOUS
<1>1. /\ run \in DOMAIN Runs /\ Runs[run].length \in Nat /\ i \in 0..Runs[run].length
      /\ DOMAIN Runs = 1..Len(Runs) /\ Len(Runs) \in Nat
      /\ pc # "message" => i < Runs[run].length
  BY RunFacts DEF Looping
<1>2. CASE UNCHANGED loopVars /\ (pc # "message" \/ pc' = pc)
  BY <1>1, <1>2 DEF Looping, loopVars
<1>3. CASE Message
  <2>1. PICK msg \in Simulated \cup Recorded : Received(msg)
    BY <1>3 DEF Message, LimitMessage, CancelMessage, ModifyMessage, NoEffect
  <2>2. run' = run /\ i' = i /\ i < Runs[run].length
    BY <2>1 DEF Received
  <2> QED BY <1>1, <2>2 DEF Looping
<1>4. CASE InvalidMessage \/ Account
  <2>1. run' = run /\ i' = i + 1 /\ i < Runs[run].length /\ pc' = "message"
    BY <1>1, <1>4 DEF InvalidMessage, Account
  <2>2. i + 1 \in 0..Runs[run].length
    BY <1>1, <2>1
  <2> QED BY <1>1, <2>1, <2>2 DEF Looping
<1>5. CASE NextRun
  <2>1. run' = run + 1 /\ i' = 0 /\ pc' = "message" /\ run < Len(Runs)
    BY <1>5 DEF NextRun
  <2>2. run + 1 \in DOMAIN Runs
    BY <1>1, <2>1
  <2>3. Runs[run + 1].length \in Nat
    BY <2>2, RunFacts
  <2> QED BY <2>1, <2>2, <2>3 DEF Looping
<1> QED BY <1>2, <1>3, <1>4, <1>5
        DEF Next, MarketTrade, MarketEnd, Decide, NoSignal, StrategyTrade, StrategyEnd,
            Returned, vars

\* The mid price is a price again, if rounded down.
LEMMA MidIsNat ==
  ASSUME IInv, HasMid
  PROVE  MidPrice \in Nat
<1>1. BestPrice("Buy") \in Prices /\ BestPrice("Sell") \in Prices
  BY BestIsAPrice DEF HasMid, IInv, MarketTyped, Side
<1>2. PICK a, b \in Nat : a = BestPrice("Buy") /\ b = BestPrice("Sell")
  BY <1>1, PricesAreNumbers
<1>3. a + b \in Nat
  OBVIOUS
<1>4. (a + b) \div 2 \in Nat
  BY <1>3, Quotient
<1> QED BY <1>2, <1>4 DEF MidPrice

LEMMA AveragedStep == IInv /\ Averaged /\ [Next]_vars => Averaged'
<1> SUFFICES ASSUME IInv, Averaged, [Next]_vars PROVE Averaged'
  OBVIOUS
<1>1. CASE UNCHANGED emaVars
  BY <1>1 DEF emaVars, Averaged, EMAInv
<1>2. CASE NextRun
  BY <1>2 DEF NextRun, Reset, Averaged, EMAInv
<1>3. CASE Decide
  <2>1. PICK mid \in Nat : OnPrice(mid)
    BY <1>3, MidIsNat DEF Decide
  <2>2. CASE FirstPrice(mid)
    BY <2>2 DEF FirstPrice, Averaged, EMAInv
  <2>3. CASE NextPrice(mid)
    <3>1. fast_ema_' \in Nat /\ slow_ema_' \in Nat
      BY <2>3, Update, PeriodAssumption DEF NextPrice, Averaged, EMAInv
    <3>2. signal' \in {"Buy", "Sell", "Hold"}
      BY <2>3 DEF NextPrice, Crossover
    <3> QED BY <3>1, <3>2 DEF Averaged, EMAInv
  <2> QED BY <2>1, <2>2, <2>3 DEF OnPrice
<1> QED BY <1>1, <1>2, <1>3
        DEF Next, Message, LimitMessage, CancelMessage, ModifyMessage, NoEffect, Received,
            InvalidMessage, MarketTrade, MarketEnd, NoSignal, StrategyTrade, StrategyEnd,
            Account, Returned, vars

\* A trade moves the sums by its price, which is between the bounds.
LEMMA WeightedTrade ==
  ASSUME NEW pv \in Int, NEW qty \in Nat, NEW q \in Nat, NEW price \in Nat, NEW b \in Nat
  PROVE  /\ pv + price * q \in Int /\ qty + q \in Nat
         /\ b <= price /\ b * qty <= pv => b * (qty + q) <= pv + price * q
         /\ price <= b /\ pv <= b * qty => pv + price * q <= b * (qty + q)
<1>1. /\ b * (qty + q) = b * qty + b * q
      /\ b * qty \in Int /\ b * q \in Int /\ price * q \in Int
  BY SMT
<1>2. b <= price => b * q <= price * q
  BY SMT
<1>3. price <= b => price * q <= b * q
  BY SMT
<1> QED BY <1>1, <1>2, <1>3, SMT

LEMMA WeightedStep == IInv /\ Weighted /\ [Next]_vars => Weighted'
<1> SUFFICES ASSUME IInv, Weighted, [Next]_vars PROVE Weighted'
  OBVIOUS
<1>1. CASE UNCHANGED vwap
  BY <1>1 DEF Weighted
<1>2. CASE NextRun
  <2>1. vwap'.pv = 0 /\ vwap'.qty = 0
    BY <1>2 DEF NextRun
  <2>2. \A b \in Prices : b * 0 = 0
    BY PricesAreNumbers
  <2> QED BY <2>1, <2>2 DEF Weighted
<1>3. CASE MarketTrade
  <2>1. PICK k \in DOMAIN book :
          /\ Book!Trade(k)
          /\ vwap' = IF Kind = "ema" THEN OnTrade(book[k].price, Matched(k)) ELSE vwap
    BY <1>3 DEF MarketTrade
  <2>2. book \in Seq(Resting) /\ taker \in Resting
    BY <1>3 DEF MarketTrade, IInv, MarketTyped
  <2>3. book[k] \in Resting /\ Matched(k) \in 0..taker.quantity
    BY <2>1, <2>2, TradeTypes
  <2>4. PICK price \in Prices, q \in Nat : price = book[k].price /\ q = Matched(k)
    BY <2>2, <2>3 DEF Resting
  <2>5. CASE vwap' = OnTrade(price, q)
    <3>1. vwap'.pv = vwap.pv + price * q /\ vwap'.qty = vwap.qty + q
      BY <2>5 DEF OnTrade
    <3>2. PICK pv \in Int, qty \in Nat : pv = vwap.pv /\ qty = vwap.qty
      BY DEF Weighted
    <3>3. price \in Nat /\ \A b \in Prices : b \in Nat
      BY PricesAreNumbers
    <3>4. ASSUME NEW b \in Prices
          PROVE  /\ (\A p \in Prices : b <= p) => b * (qty + q) <= pv + price * q
                 /\ (\A p \in Prices : b >= p) => pv + price * q <= b * (qty + q)
      <4>1. /\ (\A p \in Prices : b <= p) => b * qty <= pv
            /\ (\A p \in Prices : b >= p) => pv <= b * qty
        BY <3>2 DEF Weighted
      <4>2. /\ b <= price /\ b * qty <= pv => b * (qty + q) <= pv + price * q
            /\ price <= b /\ pv <= b * qty => pv + price * q <= b * (qty + q)
        BY <3>3, WeightedTrade
      <4>3. b >= price => price <= b
        BY <3>3
      <4> QED BY <4>1, <4>2, <4>3
    <3>5. pv + price * q \in Int /\ qty + q \in Nat
      BY <3>3, WeightedTrade
    <3> QED BY <3>1, <3>2, <3>4, <3>5 DEF Weighted
  <2> QED BY <1>1, <2>1, <2>4, <2>5
<1> QED BY <1>1, <1>2, <1>3
        DEF Next, Message, LimitMessage, CancelMessage, ModifyMessage, NoEffect, Received,
            InvalidMessage, MarketEnd, Decide, NoSignal, StrategyTrade, StrategyEnd,
            Account, Returned, vars

\* Positive, TakerThere and OursThere are about the book and the order that executes.
Kept == Positive /\ TakerThere /\ OursThere

\* Ids of a book that has lost no order but those of gone, and what is left in it.
LEMMA TradeKeepsIds ==
  ASSUME IInv, OInv, Positive, Executing, NEW k \in DOMAIN book, Book!Trade(k)
  PROVE  /\ \A j \in DOMAIN book' : book'[j].id > 0 /\ book'[j].quantity > 0
         /\ \A j \in DOMAIN book :
              \/ \E l \in DOMAIN book' : book'[l].id = book[j].id
              \/ j = k /\ Matched(k) = book[k].quantity
         /\ taker' \in Resting /\ taker'.id = taker.id
<1>1. book \in Seq(Resting) /\ taker \in Resting /\ tape \in Seq(Report)
  BY Numbers DEF OInv
<1>2. /\ book[k] \in Resting /\ Matched(k) \in 0..taker.quantity
      /\ taker' \in Resting /\ SameOrder(taker', taker)
  BY <1>1, TradeTypes, TradeLeaves
<1>3. CASE Matched(k) = book[k].quantity
  <2>1. book' = Book!Without(k)
    BY <1>3 DEF Book!Trade, Matched
  <2>2. /\ DOMAIN book' = 1..Len(book) - 1
        /\ \A j \in 1..Len(book) - 1 : book'[j] = book[IF j < k THEN j ELSE j + 1]
        /\ \A j \in DOMAIN book \ {k} : \E l \in DOMAIN book' : book'[l] = book[j]
    BY <1>1, <2>1, WithoutElements, WithoutLeaves
  <2>3. \A j \in 1..Len(book) - 1 : (IF j < k THEN j ELSE j + 1) \in DOMAIN book
    BY <1>1
  <2>4. \A j \in DOMAIN book' : book'[j].id > 0 /\ book'[j].quantity > 0
    BY <2>2, <2>3 DEF Positive
  <2> QED BY <1>2, <1>3, <2>2, <2>4 DEF SameOrder
<1>4. CASE Matched(k) # book[k].quantity
  <2>1. PICK left : /\ book' = [book EXCEPT ![k].quantity = left]
                    /\ left = book[k].quantity - Matched(k)
    BY <1>4 DEF Book!Trade, Matched
  <2>2. left > 0
    <3>1. book[k].quantity \in Nat /\ taker.quantity \in Nat
      BY <1>1, <1>2 DEF Resting
    <3> QED BY <1>4, <2>1, <3>1 DEF Matched, Book!Lesser
  <2>3. DOMAIN book' = DOMAIN book
    BY <2>1
  <2>4. ASSUME NEW j \in DOMAIN book
        PROVE  book'[j].id = book[j].id /\ book'[j].quantity > 0
    <3>1. CASE j = k
      <4>1. book'[j] = [book[k] EXCEPT !.quantity = left]
        BY <2>1, <3>1
      <4>2. book'[j].id = book[k].id /\ book'[j].quantity = left
        BY <1>2, <4>1 DEF Resting
      <4> QED BY <2>2, <3>1, <4>2
    <3>2. CASE j # k
      BY <2>1, <3>2 DEF Positive
    <3> QED BY <3>1, <3>2
  <2> QED BY <1>2, <2>3, <2>4 DEF Positive, SameOrder
<1> QED BY <1>3, <1>4

LEMMA KeptTrade == IInv /\ OInv /\ Kept /\ (MarketTrade \/ StrategyTrade) => Kept'
<1> SUFFICES ASSUME IInv, OInv, Kept, MarketTrade \/ StrategyTrade PROVE Kept'
  OBVIOUS
<1>1. /\ Executing /\ Executing' /\ UNCHANGED next_order_id_
      /\ \E k \in DOMAIN book : Book!Trade(k) /\ ours' = OursAfter(k)
  BY DEF MarketTrade, StrategyTrade, Executing, loopVars
<1>2. PICK k \in DOMAIN book : Book!Trade(k) /\ ours' = OursAfter(k)
  BY <1>1
<1>3. /\ \A j \in DOMAIN book' : book'[j].id > 0 /\ book'[j].quantity > 0
      /\ \A j \in DOMAIN book :
           \/ \E l \in DOMAIN book' : book'[l].id = book[j].id
           \/ j = k /\ Matched(k) = book[k].quantity
      /\ taker' \in Resting /\ taker'.id = taker.id
  BY <1>1, <1>2, TradeKeepsIds DEF Kept
<1>4. Positive' /\ TakerThere'
  BY <1>1, <1>3 DEF Kept, Positive, TakerThere
<1>5. ASSUME NEW id \in ours'
      PROVE  (\E l \in DOMAIN book' : book'[l].id = id) \/ taker.id = id
  <2>1. id \in ours
    BY <1>2 DEF OursAfter
  <2>2. Live(id) \/ taker.id = id
    BY <2>1 DEF Kept, OursThere
  <2>3. CASE Live(id)
    <3>1. PICK j \in DOMAIN book : book[j].id = id
      BY <2>3 DEF Live
    <3>2. ~(j = k /\ Matched(k) = book[k].quantity)
      BY <1>2, <3>1 DEF OursAfter
    <3> QED BY <1>3, <3>1, <3>2
  <2> QED BY <2>2, <2>3
<1>6. OursThere'
  BY <1>1, <1>3, <1>5 DEF OursThere, Live
<1> QED BY <1>4, <1>6 DEF Kept

LEMMA KeptEnd == IInv /\ OInv /\ Kept /\ (MarketEnd \/ StrategyEnd) => Kept'
<1> SUFFICES ASSUME IInv, OInv, Kept, MarketEnd \/ StrategyEnd PROVE Kept'
  OBVIOUS
<1>1. /\ Executing /\ ~Executing' /\ UNCHANGED next_order_id_
      /\ Executed
  BY DEF MarketEnd, StrategyEnd, Executing, loopVars
<1>2. /\ taker' = None
      /\ ours' = IF taker.quantity = 0 THEN ours \ {taker.id} ELSE ours
  BY <1>1 DEF Executed, Book!Done, Book!Rest
<1>3. book \in Seq(Resting) /\ taker \in Resting /\ taker.quantity \in Nat
  BY <1>1, Numbers DEF Resting
<1>4. /\ \A k \in DOMAIN book : book[k].id > 0 /\ book[k].quantity > 0
      /\ taker.id > 0 /\ next_order_id_ > 0
      /\ \A id \in ours : Live(id) \/ taker.id = id
  BY <1>1 DEF Kept, Positive, OursThere
<1>5. CASE Book!Done
  <2>1. book' = book /\ taker.quantity = 0
    BY <1>5 DEF Book!Done
  <2>2. \A id \in ours' : Live(id)
    BY <1>2, <1>4, <2>1
  <2>3. \A id \in ours' : Live(id)'
    BY <2>1, <2>2 DEF Live
  <2> QED BY <1>1, <1>2, <1>4, <2>1, <2>3 DEF Kept, Positive, TakerThere, OursThere
<1>6. CASE Book!Rest
  <2>1. book' = Append(book, taker) /\ (taker.quantity > 0 \/ tape = <<>>)
    BY <1>6 DEF Book!Rest
  <2>2. taker.quantity > 0
    BY <1>1, <2>1 DEF OInv, TakerFresh
  <2> DEFINE n == Len(book) + 1
  <2>3. /\ DOMAIN book' = DOMAIN book \cup {n} /\ book'[n] = taker
        /\ \A k \in DOMAIN book : book'[k] = book[k]
    BY <1>3, <2>1, AppendProperties
  <2> HIDE DEF n
  <2>4. \A id \in ours' : Live(id)'
    <3>1. \A id \in ours' : Live(id) \/ taker.id = id
      BY <1>2, <1>4
    <3> QED BY <2>3, <3>1 DEF Live
  <2>5. \A k \in DOMAIN book' : book'[k].id > 0 /\ book'[k].quantity > 0
    BY <1>4, <2>2, <2>3
  <2> QED BY <1>1, <1>2, <1>4, <2>4, <2>5 DEF Kept, Positive, TakerThere, OursThere
<1> QED BY <1>1, <1>5, <1>6 DEF Executed

LEMMA KeptMessage == IInv /\ OInv /\ Kept /\ Message => Kept'
<1> SUFFICES ASSUME IInv, OInv, Kept, NEW msg \in Simulated \cup Recorded,
                    LimitMessage(msg) \/ CancelMessage(msg)
                      \/ ModifyMessage(msg) \/ NoEffect(msg)
             PROVE  Kept'
  BY DEF Message
<1>1. Received(msg)
  BY DEF LimitMessage, CancelMessage, ModifyMessage, NoEffect
<1>2. /\ ~Executing /\ next_order_id_' \in {next_order_id_, next_order_id_ + 1}
  BY <1>1, Numbered DEF Executing
<1>3. /\ book \in Seq(Resting) /\ next_order_id_ \in Nat
      /\ \A k \in DOMAIN book : book[k].id > 0 /\ book[k].quantity > 0
      /\ next_order_id_ > 0 /\ next_order_id_' > 0 /\ taker = None
      /\ \A id \in ours : Live(id)
  BY <1>2, Numbers DEF Kept, Positive, TakerThere, OursThere
<1>4. msg.id > 0
  <2>1. msg.id = next_order_id_ \/ msg.id \in RecordedIds
    BY DEF Simulated, Recorded, Messages
  <2>2. \A id \in RecordedIds : id > 0
    BY MarketAssumption
  <2> QED BY <1>3, <2>1, <2>2
<1>5. CASE LimitMessage(msg)
  <2>1. book' = book /\ ours' = ours /\ pc' = "market" /\ taker' = Order(msg, msg.side)
    BY <1>5 DEF LimitMessage, Book!Submit
  <2>2. taker'.id = msg.id
    BY <2>1 DEF Order
  <2>3. \A id \in ours' : Live(id)'
    BY <1>3, <2>1 DEF Live
  <2> QED BY <1>3, <1>4, <2>1, <2>2, <2>3 DEF Kept, Positive, TakerThere, OursThere, Executing
<1>6. ASSUME NEW k \in DOMAIN book, book[k].id = msg.id, book' = Book!Without(k)
      PROVE  /\ \A j \in DOMAIN book' : book'[j].id > 0 /\ book'[j].quantity > 0
             /\ \A id \in ours : id # msg.id => Live(id)'
  <2> DEFINE w == Book!Without(k)
  <2>1. /\ DOMAIN w = 1..Len(book) - 1
        /\ \A j \in 1..Len(book) - 1 : w[j] = book[IF j < k THEN j ELSE j + 1]
        /\ \A j \in DOMAIN book \ {k} : \E l \in DOMAIN w : w[l] = book[j]
    BY <1>3, WithoutElements, WithoutLeaves
  <2> HIDE DEF w
  <2>2. book' = w
    BY <1>6 DEF w
  <2>3. /\ DOMAIN book' = 1..Len(book) - 1
        /\ \A j \in 1..Len(book) - 1 : book'[j] = book[IF j < k THEN j ELSE j + 1]
        /\ \A j \in DOMAIN book \ {k} : \E l \in DOMAIN book' : book'[l] = book[j]
    BY <2>1, <2>2
  <2>4. \A j \in 1..Len(book) - 1 : (IF j < k THEN j ELSE j + 1) \in DOMAIN book
    BY <1>3
  <2>5. \A j \in DOMAIN book' : book'[j].id > 0 /\ book'[j].quantity > 0
    BY <1>3, <2>3, <2>4
  <2>6. ASSUME NEW id \in ours, id # msg.id
        PROVE  \E l \in DOMAIN book' : book'[l].id = id
    <3>1. PICK j \in DOMAIN book : book[j].id = id
      BY <1>3 DEF Live
    <3>2. j \in DOMAIN book \ {k}
      BY <1>6, <2>6, <3>1
    <3> QED BY <2>3, <3>1, <3>2
  <2> QED BY <2>5, <2>6 DEF Live
<1>7. CASE CancelMessage(msg)
  <2>1. /\ \E k \in DOMAIN book : book[k].id = msg.id /\ book' = Book!Without(k)
        /\ taker' = taker /\ ours' = ours \ {msg.id} /\ pc' = "decide"
    BY <1>7 DEF CancelMessage, Book!Cancel
  <2>2. /\ \A j \in DOMAIN book' : book'[j].id > 0 /\ book'[j].quantity > 0
        /\ \A id \in ours' : Live(id)'
    BY <1>6, <2>1
  <2> QED BY <1>3, <2>1, <2>2 DEF Kept, Positive, TakerThere, OursThere, Executing
<1>8. CASE ModifyMessage(msg)
  <2>1. PICK k \in DOMAIN book :
          /\ book[k].id = msg.id /\ book' = Book!Without(k)
          /\ taker' = Order(msg, book[k].side)
    BY <1>8 DEF ModifyMessage
  <2>2. ours' = ours /\ pc' = "market" /\ taker'.id = msg.id
    BY <1>8, <2>1 DEF ModifyMessage, Order
  <2>3. /\ \A j \in DOMAIN book' : book'[j].id > 0 /\ book'[j].quantity > 0
        /\ \A id \in ours' : Live(id)' \/ taker'.id = id
    BY <1>6, <2>1, <2>2
  <2> QED BY <1>3, <1>4, <2>2, <2>3 DEF Kept, Positive, TakerThere, OursThere, Executing
<1>9. CASE NoEffect(msg)
  <2>1. book' = book /\ taker' = taker /\ ours' = ours /\ pc' = "decide"
    BY <1>9 DEF NoEffect, marketVars
  <2>2. \A id \in ours' : Live(id)'
    BY <1>3, <2>1 DEF Live
  <2> QED BY <1>3, <2>1, <2>2 DEF Kept, Positive, TakerThere, OursThere, Executing
<1> QED BY <1>5, <1>7, <1>8, <1>9

\* Where the book stays as it is and no order executes.
LEMMA KeptAtRest ==
  ASSUME Kept, UNCHANGED <<marketVars, next_order_id_>>, ~Executing, ~Executing'
  PROVE  Kept'
<1>1. book' = book /\ taker' = taker /\ ours' = ours /\ next_order_id_' = next_order_id_
  BY DEF marketVars
<1> QED BY <1>1 DEF Kept, Positive, TakerThere, OursThere, Live

LEMMA KeptDecide == IInv /\ Kept /\ Decide => Kept'
<1> SUFFICES ASSUME IInv, Kept, Decide PROVE Kept'
  OBVIOUS
<1>1. ~Executing /\ next_order_id_' = next_order_id_ /\ i \in Nat
  BY DEF Decide, Executing, loopVars, IInv, MarketTyped
<1>2. CASE pc' = "account" /\ UNCHANGED marketVars
  BY <1>1, <1>2, KeptAtRest DEF Executing
<1>3. CASE \E side \in Side : Submitted(side) /\ ~Live(OwnIdBase + i)
  <2>1. PICK side \in Side : Submitted(side) /\ ~Live(OwnIdBase + i)
    BY <1>3
  <2>2. /\ pc' = "strategy" /\ book' = book
        /\ taker' = Crossing(side) /\ ours' = ours \cup {OwnIdBase + i}
    BY <2>1 DEF Submitted, Book!Submit
  <2>3. taker'.id = OwnIdBase + i
    BY <2>2 DEF Crossing
  <2>4. OwnIdBase + i > 0
    BY <1>1, MarketAssumption
  <2>5. \A id \in ours' : Live(id)' \/ taker'.id = id
    BY <1>1, <2>2, <2>3 DEF Kept, OursThere, Live
  <2> QED BY <1>1, <2>2, <2>3, <2>4, <2>5
          DEF Kept, Positive, TakerThere, OursThere, Executing
<1>4. \/ pc' = "account" /\ UNCHANGED marketVars
      \/ \E side \in Side : Submitted(side) /\ ~Live(OwnIdBase + i)
  <2>1. CASE Kind = "ema" /\ \E side \in {"Buy", "Sell"} : Wanted(side)
    <3>1. PICK side \in {"Buy", "Sell"} : Wanted(side)
      BY <2>1
    <3>2. signal' = side
      BY <3>1 DEF Wanted
    <3>3. Submitted(side)
      BY <2>1, <3>2 DEF Decide
    <3>4. CASE Live(OwnIdBase + i)
      BY <3>3, <3>4 DEF Submitted
    <3> QED BY <3>3, <3>4 DEF Side
  <2>2. CASE ~(Kind = "ema" /\ \E side \in {"Buy", "Sell"} : Wanted(side))
    BY <2>2 DEF Decide
  <2> QED BY <2>1, <2>2
<1> QED BY <1>2, <1>3, <1>4

LEMMA KeptStep == IInv /\ OInv /\ Kept /\ [Next]_vars => Kept'
<1> SUFFICES ASSUME IInv, OInv, Kept, [Next]_vars PROVE Kept'
  OBVIOUS
<1>1. CASE UNCHANGED vars
  BY <1>1 DEF Kept, Positive, TakerThere, OursThere, Live, Executing, vars, marketVars,
              loopVars
<1>2. CASE InvalidMessage \/ NoSignal \/ Account
  <2>1. UNCHANGED <<marketVars, next_order_id_>> /\ ~Executing /\ ~Executing'
    BY <1>2 DEF InvalidMessage, NoSignal, Account, Executing, loopVars
  <2> QED BY <2>1, KeptAtRest
<1>3. CASE NextRun
  <2>1. /\ book' = <<>> /\ taker' = None /\ ours' = {} /\ pc' = "message"
        /\ next_order_id_' = next_order_id_
    BY <1>3 DEF NextRun
  <2> QED BY <2>1 DEF Kept, Positive, TakerThere, OursThere, Executing
<1> QED BY <1>1, <1>2, <1>3, KeptMessage, KeptTrade, KeptEnd, KeptDecide DEF Next, Returned

LEMMA TInvInit == Init => TInv
<1> SUFFICES ASSUME Init PROVE TInv
  OBVIOUS
<1>1. /\ book = <<>> /\ taker = None /\ ours = {} /\ pc = "message" /\ next_order_id_ = 1
      /\ run = 1 /\ i = 0 /\ vwap.pv = 0 /\ vwap.qty = 0
      /\ fast_ema_ = 0 /\ slow_ema_ = 0 /\ signal = "Hold"
  BY DEF Init, Book!Init, EMAInit
<1>2. Positive /\ TakerThere /\ OursThere
  BY <1>1 DEF Positive, TakerThere, OursThere, Executing
<1>3. Weighted
  <2>1. \A b \in Prices : b * 0 = 0
    BY PricesAreNumbers
  <2> QED BY <1>1, <2>1 DEF Weighted
<1>4. Looping
  <2>1. 1 \in DOMAIN Runs
    BY RunFacts
  <2>2. Runs[1].length \in Nat
    BY <2>1, RunFacts
  <2> QED BY <1>1, <2>1, <2>2 DEF Looping
<1> QED BY <1>1, <1>2, <1>3, <1>4 DEF TInv, Averaged, EMAInv

LEMMA TypesInvariant == Spec => [](IInv /\ OInv /\ TInv)
<1>1. IInv /\ OInv /\ TInv /\ [Next]_vars => TInv'
  BY KeptStep, WeightedStep, AveragedStep, LoopingStep DEF TInv, Kept
<1> QED BY <1>1, TInvInit, OrdersInvariant, PTL DEF Spec

\* The least and the greatest price.
LEMMA PriceBounds ==
  /\ Min(Prices) \in Prices /\ \A p \in Prices : Min(Prices) <= p
  /\ Max(Prices) \in Prices /\ \A p \in Prices : Max(Prices) >= p
<1>1. \E x \in Prices : \A y \in Prices : x <= y
  <2>1. PICK x \in Prices : \A y \in Prices : ~(y < x)
    BY PricesAreNumbers, Least
  <2>2. \A y \in Prices : x <= y
    BY <2>1, PricesAreNumbers
  <2> QED BY <2>2
<1>2. \E x \in Prices : \A y \in Prices : x >= y
  <2>1. PICK x \in Prices : \A y \in Prices : ~(y > x)
    BY PricesAreNumbers, Greatest
  <2>2. \A y \in Prices : x >= y
    BY <2>1, PricesAreNumbers
  <2> QED BY <2>2
<1> QED BY <1>1, <1>2 DEF Min, Max

\* Every variable keeps its type; the volume weighted price lies among the prices, an
\* order of the strategy that has not left is in the book, and no call's loop runs
\* past its messages (backtester.cpp:87-341, market_data.cpp:144-172).
THEOREM TypeCorrect == Spec => []TypeOK
<1>1. IInv /\ OInv /\ TInv => TypeOK
  <2> SUFFICES ASSUME IInv, OInv, TInv PROVE TypeOK
    OBVIOUS
  <2>1. \A k \in DOMAIN book :
          book[k].id > 0 /\ book[k].price \in Prices /\ book[k].quantity > 0
    <3>1. \A k \in DOMAIN book : book[k] \in Resting
      BY Numbers
    <3> QED BY <3>1 DEF TInv, Positive, Resting
  <2>2. /\ taker = None <=> ~Executing
        /\ taker = None \/ taker.quantity >= 0
    <3>1. Executing => taker \in Resting
      BY Numbers
    <3>2. \A o \in Resting : o.quantity >= 0
      BY DEF Resting
    <3> QED BY <3>1, <3>2, NoneIsNoOrder DEF TInv, TakerThere
  <2>3. taker = None <=> pc \notin {"market", "strategy"}
    BY <2>2 DEF Executing
  <2>4. pc \in {"message", "market", "decide", "strategy", "account"}
    BY DEF IInv, MarketTyped, Steps
  <2>5. {fast_ema_, slow_ema_} \subseteq Nat /\ signal \in {"Buy", "Sell", "Hold"}
    BY DEF TInv, Averaged, EMAInv
  <2>6. position \in [qty : Int, avg_entry_price : Nat, realized_pnl : Int]
    BY DEF IInv, AccountTyped, Account_
  <2>7. Min(Prices) * vwap.qty <= vwap.pv /\ vwap.pv <= Max(Prices) * vwap.qty
    BY PriceBounds DEF TInv, Weighted
  <2>8. \A id \in ours : Live(id) \/ (taker # None /\ taker.id = id)
    BY <2>2 DEF TInv, OursThere
  <2>9. run \in DOMAIN Runs /\ i \in 0..Runs[run].length
    BY DEF TInv, Looping
  <2> QED BY <2>1, <2>2, <2>3, <2>4, <2>5, <2>6, <2>7, <2>8, <2>9 DEF TypeOK
<1> QED BY <1>1, TypesInvariant, PTL

\* The strategy's averages follow the mid prices of the book in every call
\* (backtester.cpp:175, market_data.cpp:124-142).
THEOREM MidsAreFollowed == Spec => AveragesFollow
<1>1. Averaged => [\A mid \in Mids : NextPrice(mid) => Followed(mid)]_emaVars
  BY StepFollows DEF Averaged
<1> QED BY <1>1, TypesInvariant, PTL DEF AveragesFollow, TInv
==============================================================================

--------------------------- MODULE RingArithmetic ----------------------------
(***************************************************************************)
(* Facts about counters taken modulo the size of a ring.  A queue index is *)
(* the number of operations so far modulo N (spsc_queue.hpp masks it with  *)
(* Capacity - 1): these lemmas say when two such indices can be confused.  *)
(***************************************************************************)
EXTENDS Integers, TLAPS

\* A masked index lies on the ring.
LEMMA ModRange ==
  ASSUME NEW N \in Nat \ {0}, NEW a \in Int
  PROVE  a % N \in 0..N - 1
OBVIOUS

\* Euclidean division.
LEMMA DivMod ==
  ASSUME NEW N \in Nat \ {0}, NEW a \in Int
  PROVE  a = N * (a \div N) + (a % N) /\ a \div N \in Int
OBVIOUS

\* Quotient and remainder are unique.
LEMMA QuotientUnique ==
  ASSUME NEW N \in Nat \ {0}, NEW q \in Int, NEW r \in 0..N - 1,
         NEW p \in Int, NEW s \in 0..N - 1, N * q + r = N * p + s
  PROVE  q = p /\ r = s
<1>1. CASE q > p
  <2>1. N * (q - p) >= N
    BY <1>1, SMT
  <2> QED
    BY <2>1, <1>1, SMT
<1>2. CASE p > q
  <2>1. N * (p - q) >= N
    BY <1>2, SMT
  <2> QED
    BY <2>1, <1>2, SMT
<1>3. CASE q = p
  BY <1>3, SMT
<1> QED
  BY <1>1, <1>2, <1>3

\* The remainder of a number given by quotient and remainder.
LEMMA ModUnique ==
  ASSUME NEW N \in Nat \ {0}, NEW q \in Int, NEW r \in 0..N - 1, NEW x \in Int,
         x = N * q + r
  PROVE  x % N = r
<1>1. x = N * (x \div N) + (x % N) /\ x \div N \in Int
  BY DivMod
<1>2. x % N \in 0..N - 1
  BY ModRange
<1>3. N * q + r = N * (x \div N) + (x % N)
  BY <1>1
<1> QED
  BY <1>1, <1>2, <1>3, QuotientUnique

\* Two counters less than a round apart have the same index only if equal.
LEMMA ModInjective ==
  ASSUME NEW N \in Nat \ {0}, NEW a \in Int, NEW b \in Int,
         a <= b, b - a < N, a % N = b % N
  PROVE  a = b
<1>1. a = N * (a \div N) + (a % N) /\ a \div N \in Int
  BY DivMod
<1>2. b = N * (b \div N) + (b % N) /\ b \div N \in Int
  BY DivMod
<1> DEFINE q == a \div N
           p == b \div N
<1>3. b - a = N * (p - q)
  BY <1>1, <1>2, SMT
<1> QED
  BY <1>1, <1>2, <1>3

\* Masking before an addition changes nothing: (i & MASK) + c keeps its index.
LEMMA ModAdd ==
  ASSUME NEW N \in Nat \ {0}, NEW a \in Int, NEW c \in Int
  PROVE  ((a % N) + c) % N = (a + c) % N
<1> DEFINE q == a \div N
           x == (a % N) + c
<1>1. a = N * q + (a % N) /\ q \in Int
  BY DivMod
<1>2. x \in Int
  BY ModRange
<1>3. x = N * (x \div N) + (x % N) /\ x \div N \in Int
  BY <1>2, DivMod
<1>4. a + c = N * (q + (x \div N)) + (x % N)
  BY <1>1, <1>3, SMT
<1>5. x % N \in 0..N - 1 /\ q + (x \div N) \in Int
  BY <1>1, <1>2, <1>3, ModRange
<1> HIDE DEF q, x
<1>6. (a + c) % N = x % N
  BY <1>4, <1>5, ModUnique
<1> QED
  BY <1>6 DEF x

\* Counters a whole round apart share an index: a full ring looks empty.
LEMMA ModRound ==
  ASSUME NEW N \in Nat \ {0}, NEW a \in Int
  PROVE  (a + N) % N = a % N
<1> DEFINE q == a \div N
           r == a % N
<1>1. a = N * q + r /\ q \in Int /\ r \in 0..N - 1
  BY DivMod, ModRange
<1>2. a + N = N * (q + 1) + r /\ q + 1 \in Int
  BY <1>1, SMT
<1> HIDE DEF q, r
<1>3. (a + N) % N = r
  BY <1>1, <1>2, ModUnique
<1> QED
  BY <1>3 DEF r

\* A number already on the ring is its own index.
LEMMA ModSmall ==
  ASSUME NEW N \in Nat \ {0}, NEW a \in 0..N - 1
  PROVE  a % N = a
OBVIOUS

\* The masked difference of two indices is the distance of their counters,
\* when they are less than a round apart.
LEMMA ModDistance ==
  ASSUME NEW N \in Nat \ {0}, NEW a \in Int, NEW b \in Int, a <= b, b - a < N
  PROVE  ((b % N) - (a % N)) % N = b - a
<1> DEFINE c == -(a % N)
           q == a \div N
           d == b - a
           y == b + c
<1>1. a % N \in 0..N - 1 /\ b % N \in 0..N - 1 /\ c \in Int
  BY ModRange
<1>2. a = N * q + (a % N) /\ q \in Int
  BY DivMod
<1>3. y = N * q + d /\ d \in 0..N - 1 /\ y \in Int /\ q \in Int
  BY <1>1, <1>2, SMT
<1>4. (b % N) - (a % N) = (b % N) + c
  BY <1>1
<1> HIDE DEF c, q, d, y
<1>5. ((b % N) + c) % N = y % N
  BY <1>1, ModAdd DEF y
<1>6. y % N = d
  BY <1>3, ModUnique
<1> QED
  BY <1>4, <1>5, <1>6 DEF d
==============================================================================

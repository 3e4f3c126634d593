--------------------------- MODULE OrderPool_proofs ---------------------------
(***************************************************************************)
(* The object pool and the lists threaded through its objects, for every   *)
(* size of the pool, every set of levels and every number of them.         *)
(*                                                                         *)
(* Pointers say what a list is only by where they lead.  The invariant is  *)
(* stated of sequences instead, one for the free list and one for each     *)
(* level, whose successive elements the pointers join: each step is then a *)
(* step of the sequences, and following the pointers finds them again.     *)
(***************************************************************************)
EXTENDS OrderPool, FiniteSetTheorems, SequenceTheorems, WellFoundedInduction, TLAPS

\* What stands at position i of a list; nullptr before its front and behind its back.
At(q, i) == IF i \in 1..Len(q) THEN q[i] ELSE NULL

\* Pointers that lead through a list from its front, or from its back.
Forward(q, first, next) ==
  first = At(q, 1) /\ \A i \in 1..Len(q) : next[q[i]] = At(q, i + 1)
Backward(q, last, prev) ==
  last = At(q, Len(q)) /\ \A i \in 1..Len(q) : prev[q[i]] = At(q, i - 1)

Word(memory) == [s \in Slots |-> memory[s].word]
Next_(memory) == [s \in Slots |-> memory[s].next_at_price]
Prev_(memory) == [s \in Slots |-> memory[s].prev_at_price]

\* f is what the free list holds.
Freed(f) ==
  /\ f \in Seq(Slots) /\ IsInjective(f)
  /\ Forward(f, free_list_, Word(storage_))
  /\ Len(f) = available_

\* q is what level l holds, which is gone when it holds nothing, but for the one
\* match_order is at.
Threaded(q, l) ==
  /\ q \in Seq(Slots) /\ IsInjective(q)
  /\ \A s \in Slots : s \in ToSet(q) <=> storage_[s].price_level = l
  /\ levels[l] = NULL => q = <<>>
  /\ levels[l] # NULL =>
       /\ Forward(q, levels[l].head_order, Next_(storage_))
       /\ Backward(q, levels[l].tail_order, Prev_(storage_))
       /\ q # <<>> \/ matching = l

\* A slot that no level has is free or being added.
Layout(f, qs) ==
  /\ Freed(f)
  /\ qs \in [Levels -> Seq(Slots)] /\ \A l \in Levels : Threaded(qs[l], l)
  /\ \A s \in Slots : storage_[s].price_level = NULL <=> s \in ToSet(f) \cup {order}
  /\ order \notin ToSet(f)

Control ==
  /\ order # NULL => storage_[order].word \in Levels
  /\ matching # NULL =>
       /\ order # NULL /\ levels[matching] # NULL
       /\ resting = levels[matching].head_order
  /\ matching = NULL => resting = NULL
  /\ mapped = {s \in Slots : storage_[s].price_level # NULL}

Inv == TypeOK /\ Control /\ \E f, qs : Layout(f, qs)

------------------------------------------------------------------------------
(* Lists and the pointers that lead through them.                          *)

LEMMA SeqFacts ==
  ASSUME NEW S, NEW q \in Seq(S)
  PROVE  /\ Len(q) \in Nat /\ DOMAIN q = 1..Len(q)
         /\ \A i \in 1..Len(q) : q[i] \in S
         /\ \A x : x \in ToSet(q) <=> \E i \in 1..Len(q) : q[i] = x
         /\ q = <<>> <=> Len(q) = 0
<1>1. Len(q) \in Nat /\ DOMAIN q = 1..Len(q) /\ \A i \in 1..Len(q) : q[i] \in S
  BY LenProperties, ElementOfSeq
<1>2. q = <<>> <=> Len(q) = 0
  BY <1>1, EmptySeq
<1> QED BY <1>1, <1>2 DEF ToSet

LEMMA SlotFacts == Slots \subseteq Nat \ {0} /\ NULL \notin Slots /\ PoolSize \in Nat
BY PoolAssumption, NullAssumption DEF Slots

\* A list of slots that holds none twice is no longer than the pool.
LEMMA Fits ==
  ASSUME NEW q \in Seq(Slots), IsInjective(q)
  PROVE  Len(q) <= PoolSize
<1>1. Len(q) \in Nat /\ q \in [1..Len(q) -> Slots]
  BY LenProperties
<1>2. IsFiniteSet(Slots) /\ Cardinality(Slots) = PoolSize
  BY PoolAssumption, FS_Interval DEF Slots
<1>3. IsFiniteSet(1..Len(q)) /\ Cardinality(1..Len(q)) = Len(q)
  BY <1>1, FS_Interval
<1>4. ASSUME Len(q) > PoolSize PROVE FALSE
  <2>1. \E x, y \in 1..Len(q) : x # y /\ q[x] = q[y]
    BY <1>1, <1>2, <1>3, <1>4, FS_PigeonHole
  <2> QED BY <1>1, <2>1 DEF IsInjective
<1> QED BY <1>1, <1>4, PoolAssumption

LEMMA Least ==
  ASSUME NEW S \in SUBSET Nat, S # {}
  PROVE  \E m \in S : \A n \in S : ~(n < m)
<1>1. PICK m \in S : \A n \in S : ~(<<n, m>> \in OpToRel(<, Nat))
  BY WFMin, NatLessThanWellFounded
<1> QED BY <1>1 DEF OpToRel

\* What a list is found by: following the pointers from its front.
LEMMA ChainFinds ==
  ASSUME NEW q \in Seq(Slots), IsInjective(q),
         NEW first, NEW next, Forward(q, first, next)
  PROVE  Chain(first, next) = q
<1> DEFINE step(a) == [n \in 0..PoolSize |->
              IF n = 0 THEN first ELSE IF a[n - 1] \in Slots THEN next[a[n - 1]] ELSE NULL]
           walk == [n \in 0..PoolSize |-> At(q, n + 1)]
           found(a) == {k \in 0..PoolSize : a[k] \in Slots}
<1>1. /\ Len(q) \in Nat /\ Len(q) <= PoolSize /\ DOMAIN q = 1..Len(q)
      /\ \A i \in 1..Len(q) : q[i] \in Slots
      /\ PoolSize \in Nat
  BY SeqFacts, Fits, PoolAssumption
<1>2. walk = step(walk)
  <2> SUFFICES ASSUME NEW n \in 0..PoolSize PROVE walk[n] = step(walk)[n]
    OBVIOUS
  <2>1. CASE n = 0
    BY <2>1 DEF Forward
  <2>2. CASE n # 0
    <3>1. n \in 1..PoolSize /\ n - 1 \in 0..PoolSize /\ (n - 1) + 1 = n
      BY <1>1, <2>2
    <3>2. step(walk)[n] = IF At(q, n) \in Slots THEN next[At(q, n)] ELSE NULL
      BY <2>2, <3>1
    <3>3. CASE n \in 1..Len(q)
      BY <1>1, <3>2, <3>3 DEF At, Forward
    <3>4. CASE n \notin 1..Len(q)
      <4>1. n + 1 \notin 1..Len(q)
        BY <1>1, <3>1, <3>4
      <4> QED BY <3>2, <3>4, <4>1, SlotFacts DEF At
    <3> QED BY <3>3, <3>4
  <2> QED BY <2>1, <2>2
<1>3. ASSUME NEW a, a = step(a) PROVE a = walk
  <2> DEFINE D == {n \in 0..PoolSize : a[n] # walk[n]}
  <2>1. CASE D = {}
    BY <1>3, <2>1
  <2>2. CASE D # {}
    <3>1. D \subseteq Nat
      OBVIOUS
    <3>2. PICK m \in D : \A n \in D : ~(n < m)
      <4> HIDE DEF D
      <4> QED BY <2>2, <3>1, Least
    <3>3. m \in 0..PoolSize /\ a[m] # walk[m]
      OBVIOUS
    <3>4. a[m] = step(a)[m] /\ walk[m] = step(walk)[m]
      BY <1>2, <1>3
    <3>5. m # 0
      BY <3>3, <3>4
    <3>6. m - 1 \in 0..PoolSize /\ m - 1 < m
      BY <1>1, <3>3, <3>5
    <3>7. a[m - 1] = walk[m - 1]
      BY <3>2, <3>6
    <3> QED BY <3>3, <3>4, <3>5, <3>7
  <2> QED BY <2>1, <2>2
<1>4. (CHOOSE a : a = step(a)) = walk
  <2> HIDE DEF step, walk
  <2> QED BY <1>2, <1>3
<1>5. Chain(first, next) = [n \in 1..Cardinality(found(walk)) |-> walk[n - 1]]
  <2>1. Chain(first, next) = LET a == CHOOSE a : a = step(a) IN
          [n \in 1..Cardinality(found(a)) |-> a[n - 1]]
    BY DEF Chain
  <2> HIDE DEF walk, step, found
  <2> QED BY <1>4, <2>1
<1>6. found(walk) = 0..Len(q) - 1
  <2>1. ASSUME NEW k \in 0..PoolSize
        PROVE  walk[k] \in Slots <=> k \in 0..Len(q) - 1
    <3>1. k + 1 \in 1..Len(q) <=> k \in 0..Len(q) - 1
      BY <1>1
    <3> QED BY <1>1, <3>1, SlotFacts DEF At
  <2>2. 0..Len(q) - 1 \subseteq 0..PoolSize
    BY <1>1
  <2> HIDE DEF walk
  <2> QED BY <2>1, <2>2
<1>7. Cardinality(found(walk)) = Len(q)
  <2>1. 0 \in Int /\ Len(q) - 1 \in Int
    BY <1>1
  <2>2. Cardinality(0..Len(q) - 1) = IF 0 > Len(q) - 1 THEN 0 ELSE (Len(q) - 1) - 0 + 1
    BY <2>1, FS_Interval
  <2>3. Cardinality(0..Len(q) - 1) = Len(q)
    BY <1>1, <2>2
  <2> HIDE DEF walk, found
  <2> QED BY <1>6, <2>3
<1>8. [n \in 1..Len(q) |-> walk[n - 1]] = q
  <2>1. ASSUME NEW n \in 1..Len(q) PROVE walk[n - 1] = q[n]
    <3>1. n - 1 \in 0..PoolSize /\ (n - 1) + 1 = n
      BY <1>1
    <3> QED BY <3>1 DEF At
  <2>2. q = [n \in 1..Len(q) |-> q[n]]
    BY <1>1
  <2> HIDE DEF walk
  <2> QED BY <2>1, <2>2
<1> HIDE DEF walk, found
<1> QED BY <1>5, <1>7, <1>8

\* A list read from its back.
LEMMA Reversed ==
  ASSUME NEW q \in Seq(Slots), IsInjective(q),
         NEW last, NEW prev, Backward(q, last, prev)
  PROVE  Chain(last, prev) = Reverse(q)
<1> DEFINE r == Reverse(q)
           n == Len(q)
<1>0. n \in Nat
  BY SeqFacts
<1>1. n \in Nat /\ DOMAIN q = 1..n /\ \A i \in 1..n : q[i] \in Slots
  BY SeqFacts
<1>2. \A i \in 1..n : n - i + 1 \in 1..n /\ r[i] = q[n - i + 1]
  BY <1>1 DEF Reverse
<1>3. r \in Seq(Slots) /\ Len(r) = n /\ DOMAIN r = 1..n
  BY <1>1, <1>2 DEF Reverse
<1>4. IsInjective(r)
  <2> SUFFICES ASSUME NEW i \in 1..n, NEW j \in 1..n, r[i] = r[j] PROVE i = j
    BY <1>3 DEF IsInjective
  <2>1. n - i + 1 = n - j + 1
    BY <1>1, <1>2 DEF IsInjective
  <2> QED BY <1>1, <2>1
<1>5. At(r, 1) = At(q, n)
  <2>1. CASE n = 0
    BY <1>3, <2>1 DEF At
  <2>2. CASE n > 0
    <3>1. 1 \in 1..n /\ n \in 1..n /\ n - 1 + 1 = n
      BY <1>1, <2>2
    <3> HIDE DEF r
    <3> QED BY <1>2, <1>3, <3>1 DEF At
  <2> QED BY <1>1, <2>1, <2>2
<1>6. ASSUME NEW i \in 1..n PROVE prev[r[i]] = At(r, i + 1)
  <2>1. prev[r[i]] = At(q, (n - i + 1) - 1)
    BY <1>1, <1>2 DEF Backward
  <2>2. CASE i = n
    <3>1. (n - i + 1) - 1 \notin 1..n /\ i + 1 \notin 1..n
      BY <1>1, <2>2
    <3> HIDE DEF r
    <3> QED BY <1>3, <2>1, <3>1 DEF At
  <2>3. CASE i < n
    <3>1. /\ (n - i + 1) - 1 \in 1..n /\ i + 1 \in 1..n
          /\ (n - i + 1) - 1 = n - (i + 1) + 1
      BY <1>1, <2>3
    <3>2. r[i + 1] = q[(n - i + 1) - 1]
      BY <1>2, <3>1
    <3> HIDE DEF r
    <3> QED BY <1>3, <2>1, <3>1, <3>2 DEF At
  <2>4. i = n \/ i < n
    BY <1>0
  <2> QED BY <2>2, <2>3, <2>4
<1>7. Forward(r, last, prev)
  BY <1>3, <1>5, <1>6 DEF Forward, Backward
<1> HIDE DEF r
<1> QED BY <1>3, <1>4, <1>7, ChainFinds DEF r

\* A slot that is put in front.
InFront(s, f) == [j \in 1..Len(f) + 1 |-> IF j = 1 THEN s ELSE f[j - 1]]

LEMMA PutInFront ==
  ASSUME NEW f \in Seq(Slots), IsInjective(f), NEW s \in Slots, s \notin ToSet(f)
  PROVE  /\ InFront(s, f) \in Seq(Slots) /\ IsInjective(InFront(s, f))
         /\ Len(InFront(s, f)) = Len(f) + 1
         /\ ToSet(InFront(s, f)) = ToSet(f) \cup {s}
         /\ At(InFront(s, f), 1) = s
         /\ \A i \in Nat \ {0} : At(InFront(s, f), i + 1) = At(f, i)
<1> DEFINE p == InFront(s, f)
           n == Len(f)
<1>1. /\ n \in Nat /\ DOMAIN f = 1..n /\ \A i \in 1..n : f[i] \in Slots
      /\ \A x : x \in ToSet(f) <=> \E i \in 1..n : f[i] = x
  BY SeqFacts
<1>2. \A i \in 1..n + 1 : i # 1 => i - 1 \in 1..n
  BY <1>1
<1>3. \A i \in 1..n + 1 : p[i] = IF i = 1 THEN s ELSE f[i - 1]
  BY DEF InFront
<1>4. \A i \in 1..n + 1 : p[i] \in Slots
  BY <1>1, <1>2, <1>3
<1>5. p \in Seq(Slots) /\ Len(p) = n + 1 /\ DOMAIN p = 1..n + 1
  BY <1>1, <1>4 DEF InFront
<1> HIDE DEF p
<1>6. IsInjective(p)
  <2> SUFFICES ASSUME NEW i \in 1..n + 1, NEW j \in 1..n + 1, p[i] = p[j] PROVE i = j
    BY <1>5 DEF IsInjective
  <2>1. CASE i = 1 \/ j = 1
    BY <1>1, <1>2, <1>3, <2>1
  <2>2. CASE i # 1 /\ j # 1
    <3>1. i - 1 = j - 1
      BY <1>1, <1>2, <1>3, <2>2 DEF IsInjective
    <3> QED BY <1>1, <3>1
  <2> QED BY <2>1, <2>2
<1>7. ToSet(p) = ToSet(f) \cup {s}
  <2>1. \A x : x \in ToSet(p) <=> \E i \in 1..n + 1 : p[i] = x
    BY <1>5 DEF ToSet
  <2>2. ASSUME NEW i \in 1..n PROVE i + 1 \in 1..n + 1 /\ p[i + 1] = f[i]
    <3>1. i + 1 \in 1..n + 1 /\ i + 1 # 1 /\ (i + 1) - 1 = i
      BY <1>1
    <3> QED BY <1>3, <3>1
  <2>3. 1 \in 1..n + 1
    BY <1>1
  <2> QED BY <1>1, <1>2, <1>3, <2>1, <2>2, <2>3
<1>8. At(p, 1) = s
  BY <1>1, <1>3, <1>5 DEF At
<1>9. ASSUME NEW i \in Nat \ {0} PROVE At(p, i + 1) = At(f, i)
  <2>1. i + 1 \in 1..n + 1 <=> i \in 1..n
    BY <1>1
  <2>2. i + 1 # 1 /\ (i + 1) - 1 = i
    OBVIOUS
  <2> QED BY <1>3, <1>5, <2>1, <2>2 DEF At
<1> QED BY <1>5, <1>6, <1>7, <1>8, <1>9 DEF p

\* What is behind the front.
Behind(f) == [j \in 1..Len(f) - 1 |-> f[j + 1]]

LEMMA TakenFromFront ==
  ASSUME NEW f \in Seq(Slots), IsInjective(f), f # <<>>
  PROVE  /\ Behind(f) \in Seq(Slots) /\ IsInjective(Behind(f))
         /\ Len(Behind(f)) = Len(f) - 1
         /\ f[1] \in ToSet(f) /\ f[1] \in Slots /\ At(f, 1) = f[1]
         /\ ToSet(Behind(f)) = ToSet(f) \ {f[1]}
         /\ \A i \in Nat \ {0} : At(Behind(f), i) = At(f, i + 1)
<1> DEFINE r == Behind(f)
           n == Len(f)
<1>1. /\ n \in Nat \ {0} /\ DOMAIN f = 1..n /\ \A i \in 1..n : f[i] \in Slots
      /\ \A x : x \in ToSet(f) <=> \E i \in 1..n : f[i] = x
  BY SeqFacts
<1>2. n - 1 \in Nat /\ 1 \in 1..n /\ \A i \in 1..n - 1 : i + 1 \in 1..n /\ i + 1 # 1
  BY <1>1
<1>3. \A i \in 1..n - 1 : r[i] = f[i + 1] /\ r[i] \in Slots
  BY <1>1, <1>2 DEF Behind
<1>4. r \in Seq(Slots) /\ Len(r) = n - 1 /\ DOMAIN r = 1..n - 1
  BY <1>2, <1>3 DEF Behind
<1> HIDE DEF r
<1>5. IsInjective(r)
  <2> SUFFICES ASSUME NEW i \in 1..n - 1, NEW j \in 1..n - 1, r[i] = r[j] PROVE i = j
    BY <1>4 DEF IsInjective
  <2>1. r[i] = f[i + 1] /\ r[j] = f[j + 1] /\ i + 1 \in 1..n /\ j + 1 \in 1..n
    BY <1>2, <1>3
  <2>2. i + 1 = j + 1
    BY <1>1, <2>1 DEF IsInjective
  <2> QED BY <1>1, <2>2
<1>6. ToSet(r) = ToSet(f) \ {f[1]}
  <2>1. \A x : x \in ToSet(r) <=> \E i \in 1..n - 1 : r[i] = x
    BY <1>4 DEF ToSet
  <2>2. ASSUME NEW i \in 1..n, f[i] # f[1] PROVE i - 1 \in 1..n - 1 /\ r[i - 1] = f[i]
    <3>1. i - 1 \in 1..n - 1 /\ (i - 1) + 1 = i
      BY <1>1, <2>2
    <3> QED BY <1>3, <3>1
  <2>3. \A i \in 1..n - 1 : f[i + 1] # f[1]
    BY <1>1, <1>2 DEF IsInjective
  <2> QED BY <1>1, <1>2, <1>3, <2>1, <2>2, <2>3
<1>7. ASSUME NEW i \in Nat \ {0} PROVE At(r, i) = At(f, i + 1)
  <2>1. i + 1 \in 1..n <=> i \in 1..n - 1
    BY <1>1
  <2> QED BY <1>3, <1>4, <2>1 DEF At
<1>8. At(f, 1) = f[1]
  BY <1>2 DEF At
<1> QED BY <1>1, <1>2, <1>4, <1>5, <1>6, <1>7, <1>8 DEF r

\* A slot that is put behind the back.
LEMMA PutBehind ==
  ASSUME NEW q \in Seq(Slots), IsInjective(q), NEW s \in Slots, s \notin ToSet(q)
  PROVE  /\ Append(q, s) \in Seq(Slots) /\ IsInjective(Append(q, s))
         /\ Append(q, s) # <<>>
         /\ Len(Append(q, s)) = Len(q) + 1
         /\ ToSet(Append(q, s)) = ToSet(q) \cup {s}
         /\ At(Append(q, s), Len(q) + 1) = s
         /\ \A i \in Nat : i # Len(q) + 1 => At(Append(q, s), i) = At(q, i)
<1> DEFINE p == Append(q, s)
           n == Len(q)
<1>1. /\ n \in Nat /\ DOMAIN q = 1..n /\ \A i \in 1..n : q[i] \in Slots
      /\ \A x : x \in ToSet(q) <=> \E i \in 1..n : q[i] = x
  BY SeqFacts
<1>2. /\ p \in Seq(Slots) /\ Len(p) = n + 1 /\ DOMAIN p = 1..n + 1
      /\ \A i \in 1..n : p[i] = q[i]
      /\ p[n + 1] = s
  BY <1>1
<1> HIDE DEF p
<1>3. /\ \A i \in 1..n + 1 : i \in 1..n \/ i = n + 1
      /\ 1..n \subseteq 1..n + 1 /\ n + 1 \in 1..n + 1 /\ n + 1 \notin 1..n
  BY <1>1
<1>4. IsInjective(p)
  <2> SUFFICES ASSUME NEW i \in 1..n + 1, NEW j \in 1..n + 1, p[i] = p[j] PROVE i = j
    BY <1>2 DEF IsInjective
  <2>1. CASE i \in 1..n /\ j \in 1..n
    BY <1>1, <1>2, <2>1 DEF IsInjective
  <2>2. CASE i = n + 1 \/ j = n + 1
    BY <1>1, <1>2, <1>3, <2>2
  <2> QED BY <1>3, <2>1, <2>2
<1>5. ToSet(p) = ToSet(q) \cup {s}
  <2>1. \A x : x \in ToSet(p) <=> \E i \in 1..n + 1 : p[i] = x
    BY <1>2 DEF ToSet
  <2> QED BY <1>1, <1>2, <1>3, <2>1
<1>6. At(p, n + 1) = s
  BY <1>2, <1>3 DEF At
<1>7. ASSUME NEW i \in Nat, i # n + 1 PROVE At(p, i) = At(q, i)
  <2>1. i \in 1..n + 1 <=> i \in 1..n
    BY <1>3, <1>7
  <2> QED BY <1>2, <2>1 DEF At
<1>8. p # <<>>
  BY <1>1, <1>2, EmptySeq
<1> QED BY <1>2, <1>4, <1>5, <1>6, <1>7, <1>8 DEF p

\* A slot that leaves from the middle.
LEMMA TakenFrom ==
  ASSUME NEW q \in Seq(Slots), IsInjective(q), NEW k \in 1..Len(q)
  PROVE  /\ RemoveAt(q, k) \in Seq(Slots) /\ IsInjective(RemoveAt(q, k))
         /\ Len(RemoveAt(q, k)) = Len(q) - 1
         /\ ToSet(RemoveAt(q, k)) = ToSet(q) \ {q[k]}
         /\ \A j \in Nat :
              At(RemoveAt(q, k), j) = IF j < k THEN At(q, j) ELSE At(q, j + 1)
<1> DEFINE n == Len(q)
           front == SubSeq(q, 1, k - 1)
           back == SubSeq(q, k + 1, n)
           r == RemoveAt(q, k)
<1>0. n \in Nat /\ k \in 1..n
  BY SeqFacts
<1>1. /\ n \in Nat /\ k \in 1..n /\ DOMAIN q = 1..n /\ \A i \in 1..n : q[i] \in Slots
      /\ \A x : x \in ToSet(q) <=> \E i \in 1..n : q[i] = x
  BY SeqFacts
<1>2. /\ front \in Seq(Slots) /\ Len(front) = k - 1
      /\ \A j \in 1..k - 1 : front[j] = q[j]
  <2>1. 1 \in Int /\ k - 1 \in Int /\ \A i \in 1..k - 1 : q[i] \in Slots
    BY <1>1
  <2>2. /\ front \in Seq(Slots) /\ Len(front) = IF 1 <= k - 1 THEN (k - 1) - 1 + 1 ELSE 0
        /\ \A j \in 1..(k - 1) - 1 + 1 : front[j] = q[1 + j - 1]
    BY <2>1, SubSeqProperties
  <2> HIDE DEF front
  <2>3. (k - 1) - 1 + 1 = k - 1 /\ \A j \in 1..k - 1 : 1 + j - 1 = j
    BY <1>1
  <2>4. Len(front) = k - 1
    BY <1>1, <2>2
  <2> QED BY <2>2, <2>3, <2>4
<1>3. /\ back \in Seq(Slots) /\ Len(back) = n - k
      /\ \A j \in 1..n - k : back[j] = q[k + j]
  <2>1. k + 1 \in Int /\ n \in Int /\ \A i \in k + 1..n : q[i] \in Slots
    BY <1>1
  <2>2. /\ back \in Seq(Slots) /\ Len(back) = IF k + 1 <= n THEN n - (k + 1) + 1 ELSE 0
        /\ \A j \in 1..n - (k + 1) + 1 : back[j] = q[(k + 1) + j - 1]
    BY <2>1, SubSeqProperties
  <2> HIDE DEF back
  <2>3. n - (k + 1) + 1 = n - k
    BY <1>0
  <2>4. \A j \in 1..n - k : (k + 1) + j - 1 = k + j
    BY <1>0
  <2>5. Len(back) = n - k
    <3>1. k + 1 <= n \/ n - k = 0
      BY <1>0
    <3> QED BY <1>0, <2>2, <2>3, <3>1
  <2> QED BY <2>2, <2>3, <2>4, <2>5
<1>4. r = front \o back
  BY DEF RemoveAt
<1> HIDE DEF front, back, r
<1>5. /\ r \in Seq(Slots) /\ Len(r) = Len(front) + Len(back)
      /\ \A j \in 1..Len(front) + Len(back) : r[j] =
           IF j <= Len(front) THEN front[j] ELSE back[j - Len(front)]
  BY <1>2, <1>3, <1>4, ConcatProperties
<1>6. Len(front) + Len(back) = n - 1
  <2>1. (k - 1) + (n - k) = n - 1
    BY <1>0
  <2>2. Len(front) = k - 1 /\ Len(back) = n - k
    BY <1>2, <1>3
  <2> QED BY <2>1, <2>2
<1>7. Len(r) = n - 1 /\ n - 1 \in Nat /\ DOMAIN r = 1..n - 1
  <2>1. n - 1 \in Nat
    BY <1>0
  <2>2. Len(r) = n - 1
    BY <1>5, <1>6
  <2> QED BY <1>5, <2>1, <2>2, LenProperties
<1>8. ASSUME NEW j \in 1..n - 1
      PROVE  /\ j < k => j \in 1..n /\ r[j] = q[j]
             /\ j >= k => j + 1 \in 1..n /\ r[j] = q[j + 1]
  <2>1. r[j] = IF j <= k - 1 THEN front[j] ELSE back[j - (k - 1)]
    BY <1>2, <1>5, <1>6
  <2>2. CASE j < k
    <3>1. j \in 1..k - 1 /\ j <= k - 1 /\ j \in 1..n /\ ~(j >= k)
      BY <1>1, <2>2
    <3> QED BY <1>2, <2>1, <3>1
  <2>3. CASE j >= k
    <3>1. /\ j - (k - 1) \in 1..n - k /\ ~(j <= k - 1) /\ j + 1 \in 1..n /\ ~(j < k)
          /\ k + (j - (k - 1)) = j + 1
      BY <1>1, <2>3
    <3> QED BY <1>3, <2>1, <3>1
  <2> QED BY <1>1, <2>2, <2>3
<1>9. ASSUME NEW i \in 1..n, i # k
      PROVE  IF i < k THEN i \in 1..n - 1 /\ r[i] = q[i]
             ELSE i - 1 \in 1..n - 1 /\ r[i - 1] = q[i]
  <2>1. CASE i < k
    <3>1. i \in 1..n - 1
      BY <1>1, <2>1
    <3> QED BY <1>8, <2>1, <3>1
  <2>2. CASE ~(i < k)
    <3>1. i - 1 \in 1..n - 1 /\ i - 1 >= k /\ (i - 1) + 1 = i
      BY <1>1, <1>9, <2>2
    <3> QED BY <1>8, <2>2, <3>1
  <2> QED BY <2>1, <2>2
<1>10. IsInjective(r)
  <2> SUFFICES ASSUME NEW i \in 1..n - 1, NEW j \in 1..n - 1, r[i] = r[j] PROVE i = j
    BY <1>7 DEF IsInjective
  <2> DEFINE to(x) == IF x < k THEN x ELSE x + 1
  <2>1. to(i) \in 1..n /\ to(j) \in 1..n /\ r[i] = q[to(i)] /\ r[j] = q[to(j)]
    BY <1>1, <1>8
  <2>2. to(i) = to(j)
    <3> HIDE DEF to
    <3> QED BY <1>1, <2>1 DEF IsInjective
  <2> QED BY <1>1, <2>2
<1>11. ToSet(r) = ToSet(q) \ {q[k]}
  <2>1. \A x : x \in ToSet(r) <=> \E i \in 1..n - 1 : r[i] = x
    BY <1>7 DEF ToSet
  <2>2. ASSUME NEW i \in 1..n - 1 PROVE r[i] \in ToSet(q) /\ r[i] # q[k]
    <3>1. \/ i \in 1..n /\ i # k /\ r[i] = q[i]
          \/ i + 1 \in 1..n /\ i + 1 # k /\ r[i] = q[i + 1]
      BY <1>1, <1>8
    <3> QED BY <1>1, <3>1 DEF IsInjective
  <2>3. ASSUME NEW x \in ToSet(q), x # q[k] PROVE x \in ToSet(r)
    <3>1. PICK i \in 1..n : q[i] = x
      BY <1>1
    <3> QED BY <1>9, <2>1, <2>3, <3>1
  <2> QED BY <1>1, <2>1, <2>2, <2>3
<1>12. ASSUME NEW j \in Nat PROVE At(r, j) = IF j < k THEN At(q, j) ELSE At(q, j + 1)
  <2>1. CASE j \in 1..n - 1
    <3>1. j \in 1..n - 1 /\ At(r, j) = r[j]
      BY <1>7, <2>1 DEF At
    <3> QED BY <1>1, <1>8, <3>1 DEF At
  <2>2. CASE j \notin 1..n - 1
    <3>1. j = 0 \/ j >= n
      BY <1>1, <2>2
    <3>2. CASE j = 0
      BY <1>1, <1>7, <3>2 DEF At
    <3>3. CASE j >= n
      <4>1. j + 1 \notin 1..n /\ ~(j < k)
        BY <1>1, <3>3
      <4> QED BY <1>7, <2>2, <4>1 DEF At
    <3> QED BY <3>1, <3>2, <3>3
  <2> QED BY <2>1, <2>2
<1> QED BY <1>5, <1>7, <1>10, <1>11, <1>12 DEF r

------------------------------------------------------------------------------
(* What the operations do to the memory.                                   *)

Memory == [word : Slots \cup Levels \cup {NULL}, next_at_price : Pointer,
           prev_at_price : Pointer, price_level : Levels \cup {NULL}]

\* Pointers that lead through a list go on doing so when its own slots keep them.
LEMMA StillForward ==
  ASSUME NEW q \in Seq(Slots), NEW first, NEW next, NEW new, Forward(q, first, next),
         \A s \in ToSet(q) : new[s] = next[s]
  PROVE  Forward(q, first, new)
BY SeqFacts DEF Forward

LEMMA StillBackward ==
  ASSUME NEW q \in Seq(Slots), NEW last, NEW prev, NEW new, Backward(q, last, prev),
         \A s \in ToSet(q) : new[s] = prev[s]
  PROVE  Backward(q, last, new)
BY SeqFacts DEF Backward

\* A level that the step does not touch.
LEMMA StillThreaded ==
  ASSUME NEW l, NEW q, Threaded(q, l), levels'[l] = levels[l],
         \A s \in Slots : storage_'[s].price_level = l <=> storage_[s].price_level = l,
         \A s \in ToSet(q) :
           /\ storage_'[s].next_at_price = storage_[s].next_at_price
           /\ storage_'[s].prev_at_price = storage_[s].prev_at_price,
         levels[l] # NULL => q # <<>> \/ matching' = l
  PROVE  Threaded(q, l)'
<1>1. /\ q \in Seq(Slots) /\ IsInjective(q)
      /\ \A s \in Slots : s \in ToSet(q) <=> storage_'[s].price_level = l
      /\ levels'[l] = NULL => q = <<>>
  BY DEF Threaded
<1>2. ToSet(q) \subseteq Slots
  BY <1>1, SeqFacts
<1>3. ASSUME levels[l] # NULL
      PROVE  /\ Forward(q, levels[l].head_order, Next_(storage_'))
             /\ Backward(q, levels[l].tail_order, Prev_(storage_'))
  <2>1. /\ Forward(q, levels[l].head_order, Next_(storage_))
        /\ Backward(q, levels[l].tail_order, Prev_(storage_))
    BY <1>3 DEF Threaded
  <2>2. \A s \in ToSet(q) : /\ Next_(storage_')[s] = Next_(storage_)[s]
                            /\ Prev_(storage_')[s] = Prev_(storage_)[s]
    BY <1>2 DEF Next_, Prev_
  <2>3. PICK first, last, next, prev, next2, prev2 :
          /\ first = levels[l].head_order /\ last = levels[l].tail_order
          /\ next = Next_(storage_) /\ prev = Prev_(storage_)
          /\ next2 = Next_(storage_') /\ prev2 = Prev_(storage_')
    OBVIOUS
  <2>4. Forward(q, first, next2) /\ Backward(q, last, prev2)
    BY <1>1, <2>1, <2>2, <2>3, StillForward, StillBackward
  <2> QED BY <2>3, <2>4
<1> QED BY <1>1, <1>3 DEF Threaded

\* A slot that goes back is in front of the free list.
LEMMA Released ==
  ASSUME NEW f, Freed(f), NEW s \in Slots, s \notin ToSet(f), TypeOK,
         NEW memory \in [Slots -> Memory], Release(memory, s),
         \A t \in Slots : memory[t].word = storage_[t].word
  PROVE  /\ Freed(InFront(s, f))'
         /\ storage_' \in [Slots -> Memory] /\ free_list_' \in Pointer
         /\ available_' \in 0..PoolSize
         /\ \A t \in Slots :
              /\ storage_'[t].next_at_price = memory[t].next_at_price
              /\ storage_'[t].prev_at_price = memory[t].prev_at_price
              /\ storage_'[t].price_level = memory[t].price_level
              /\ t # s => storage_'[t] = memory[t]
<1> DEFINE g == InFront(s, f)
<1>1. /\ f \in Seq(Slots) /\ IsInjective(f)
      /\ free_list_ = At(f, 1) /\ Len(f) = available_
      /\ \A i \in 1..Len(f) : storage_[f[i]].word = At(f, i + 1)
  <2>1. f \in Seq(Slots) /\ Freed(f)
    BY DEF Freed
  <2> QED BY <2>1, SeqFacts DEF Freed, Forward, Word
<1>2. /\ storage_' = [memory EXCEPT ![s].word = free_list_]
      /\ free_list_' = s /\ available_' = available_ + 1
  BY DEF Release
<1>3. free_list_ \in Pointer
  BY DEF TypeOK
<1>4. memory[s] \in Memory
  OBVIOUS
<1>5. [memory[s] EXCEPT !.word = free_list_] \in Memory
  BY <1>3, <1>4 DEF Memory, Pointer
<1>6. storage_' = [memory EXCEPT ![s] = [memory[s] EXCEPT !.word = free_list_]]
  BY <1>2
<1>7. storage_' \in [Slots -> Memory]
  BY <1>5, <1>6
<1>8. /\ storage_'[s] = [memory[s] EXCEPT !.word = free_list_]
      /\ \A t \in Slots : t # s => storage_'[t] = memory[t]
  BY <1>6
<1>9. storage_'[s].word = free_list_
  BY <1>4, <1>8 DEF Memory
<1>10. \A t \in Slots :
              /\ storage_'[t].next_at_price = memory[t].next_at_price
              /\ storage_'[t].prev_at_price = memory[t].prev_at_price
              /\ storage_'[t].price_level = memory[t].price_level
  BY <1>4, <1>8 DEF Memory
<1>11. /\ g \in Seq(Slots) /\ IsInjective(g) /\ Len(g) = Len(f) + 1
       /\ At(g, 1) = s /\ \A i \in Nat \ {0} : At(g, i + 1) = At(f, i)
  BY <1>1, PutInFront
<1>12. available_' \in 0..PoolSize
  <2>1. Len(g) <= PoolSize /\ Len(g) \in Nat
    BY <1>11, Fits, SeqFacts
  <2> QED BY <1>1, <1>2, <1>11, <2>1, PoolAssumption
<1>13. ASSUME NEW i \in 1..Len(g) PROVE storage_'[g[i]].word = At(g, i + 1)
  <2>1. Len(f) \in Nat /\ i \in Nat \ {0} /\ At(g, i + 1) = At(f, i)
    <3>1. Len(f) \in Nat
      BY <1>1, SeqFacts
    <3>2. i \in Nat \ {0}
      BY <1>11, <3>1
    <3> QED BY <1>11, <3>1, <3>2
  <2>2. g[i] = At(g, i)
    BY DEF At
  <2>3. CASE i = 1
    BY <1>1, <1>9, <1>11, <2>1, <2>2, <2>3
  <2>4. CASE i # 1
    <3>1. i - 1 \in 1..Len(f) /\ (i - 1) + 1 = i /\ i - 1 \in Nat \ {0}
      BY <1>11, <2>1, <2>4
    <3>2. g[i] = f[i - 1] /\ f[i - 1] \in Slots /\ f[i - 1] # s
      <4>1. At(g, i) = At(f, i - 1)
        BY <1>11, <3>1
      <4>2. f[i - 1] \in ToSet(f) /\ f[i - 1] \in Slots
        BY <1>1, <3>1, SeqFacts
      <4> QED BY <2>2, <3>1, <4>1, <4>2 DEF At
    <3>3. storage_'[g[i]].word = storage_[f[i - 1]].word
      BY <1>8, <3>2
    <3> QED BY <1>1, <2>1, <3>1, <3>3
  <2> QED BY <2>3, <2>4
<1>14. Forward(g, free_list_', Word(storage_'))
  <2>1. \A i \in 1..Len(g) : g[i] \in Slots
    BY <1>11, SeqFacts
  <2> HIDE DEF g
  <2> QED BY <1>2, <1>11, <1>13, <2>1 DEF Forward, Word
<1>15. Len(g) = available_'
  BY <1>1, <1>2, <1>11
<1>16. Freed(g)'
  BY <1>11, <1>14, <1>15 DEF Freed
<1>17. free_list_' \in Pointer
  BY <1>2 DEF Pointer
<1> QED BY <1>7, <1>8, <1>10, <1>12, <1>16, <1>17

\* What a level's own pointers say of the slot at position k and of its neighbours.
LEMMA Neighbours ==
  ASSUME NEW q, NEW l, Threaded(q, l), levels[l] # NULL, NEW k \in 1..Len(q)
  PROVE  /\ q \in Seq(Slots) /\ IsInjective(q) /\ Len(q) \in Nat /\ DOMAIN q = 1..Len(q)
         /\ q[k] \in Slots /\ q[k] \in ToSet(q) /\ At(q, k) = q[k]
         /\ storage_[q[k]].next_at_price = At(q, k + 1)
         /\ storage_[q[k]].prev_at_price = At(q, k - 1)
         /\ levels[l].head_order = At(q, 1) /\ levels[l].tail_order = At(q, Len(q))
         /\ \A j \in 1..Len(q) : q[j] = At(q, k + 1) <=> j = k + 1
         /\ \A j \in 1..Len(q) : q[j] = At(q, k - 1) <=> j = k - 1
<1>1. /\ q \in Seq(Slots) /\ IsInjective(q)
      /\ Forward(q, levels[l].head_order, Next_(storage_))
      /\ Backward(q, levels[l].tail_order, Prev_(storage_))
  BY DEF Threaded
<1>2. /\ Len(q) \in Nat /\ DOMAIN q = 1..Len(q)
      /\ \A j \in 1..Len(q) : q[j] \in Slots /\ q[j] \in ToSet(q)
  BY <1>1, SeqFacts
<1>3. \A j \in 1..Len(q) : \A i \in Int : q[j] = At(q, i) <=> j = i
  <2> SUFFICES ASSUME NEW j \in 1..Len(q), NEW i \in Int, q[j] = At(q, i) \/ j = i
               PROVE  q[j] = At(q, i) /\ j = i
    BY <1>2
  <2>1. CASE i \in 1..Len(q)
    BY <1>1, <1>2, <2>1 DEF At, IsInjective
  <2>2. CASE i \notin 1..Len(q)
    BY <1>2, <2>2, SlotFacts DEF At
  <2> QED BY <2>1, <2>2
<1>4. k + 1 \in Int /\ k - 1 \in Int
  OBVIOUS
<1> QED BY <1>1, <1>2, <1>3, <1>4 DEF Forward, Backward, Next_, Prev_, At

\* PriceLevel::remove_order takes one slot out of the list, and nothing else.
LEMMA TakenOut ==
  ASSUME TypeOK, NEW l \in Levels, NEW q, Threaded(q, l), levels[l] # NULL,
         NEW k \in 1..Len(q), NEW s, s = q[k],
         NEW m, m = Unthreaded(s), NEW e, e = Ends(levels[l], s)
  PROVE  /\ m \in [Slots -> Memory] /\ e \in ListEnds
         /\ e.head_order = At(RemoveAt(q, k), 1)
         /\ Forward(RemoveAt(q, k), e.head_order, Next_(m))
         /\ Backward(RemoveAt(q, k), e.tail_order, Prev_(m))
         /\ \A t \in Slots :
              /\ m[t].word = storage_[t].word
              /\ m[t].price_level = IF t = s THEN NULL ELSE storage_[t].price_level
              /\ t \notin ToSet(q) => m[t] = storage_[t]
<1> DEFINE r == RemoveAt(q, k)
           n == Len(q)
           next == storage_[s].next_at_price
           prev == storage_[s].prev_at_price
<1>1. /\ q \in Seq(Slots) /\ IsInjective(q) /\ n \in Nat /\ DOMAIN q = 1..n
      /\ s \in Slots /\ s \in ToSet(q) /\ At(q, k) = s
      /\ next = At(q, k + 1) /\ prev = At(q, k - 1)
      /\ levels[l].head_order = At(q, 1) /\ levels[l].tail_order = At(q, n)
      /\ \A j \in 1..n : q[j] = next <=> j = k + 1
      /\ \A j \in 1..n : q[j] = prev <=> j = k - 1
  <2>1. next = At(q, k + 1) /\ prev = At(q, k - 1)
    BY Neighbours
  <2>2. /\ \A j \in 1..n : q[j] = next <=> j = k + 1
        /\ \A j \in 1..n : q[j] = prev <=> j = k - 1
    BY <2>1, Neighbours
  <2> HIDE DEF next, prev
  <2> QED BY <2>1, <2>2, Neighbours
<1>0. n \in Nat /\ k \in 1..n
  BY <1>1
<1>2. \A j \in 1..n : /\ q[j] \in Slots /\ q[j] \in ToSet(q)
                      /\ storage_[q[j]].next_at_price = At(q, j + 1)
                      /\ storage_[q[j]].prev_at_price = At(q, j - 1)
                      /\ q[j] = s <=> j = k
  <2>1. \A j \in 1..n : q[j] = s <=> j = k
    BY <1>1 DEF IsInjective
  <2> QED BY <2>1, Neighbours
<1>3. /\ r \in Seq(Slots) /\ IsInjective(r) /\ Len(r) = n - 1
      /\ \A j \in Nat : At(r, j) = IF j < k THEN At(q, j) ELSE At(q, j + 1)
  BY <1>1, TakenFrom
<1>4. storage_ \in [Slots -> Memory] /\ levels[l] \in ListEnds
  BY DEF TypeOK, Memory
<1>5. next \in Pointer /\ prev \in Pointer
  BY <1>1, <1>4 DEF Memory
<1>6. \A t \in Slots :
        /\ m[t] \in Memory
        /\ m[t].word = storage_[t].word
        /\ m[t].next_at_price = IF t = s THEN NULL ELSE IF t = prev THEN next
                                ELSE storage_[t].next_at_price
        /\ m[t].prev_at_price = IF t = s THEN NULL ELSE IF t = next THEN prev
                                ELSE storage_[t].prev_at_price
        /\ m[t].price_level = IF t = s THEN NULL ELSE storage_[t].price_level
  <2> SUFFICES ASSUME NEW t \in Slots
               PROVE  /\ m[t] \in Memory
                      /\ m[t].word = storage_[t].word
                      /\ m[t].next_at_price = IF t = s THEN NULL ELSE IF t = prev THEN next
                                              ELSE storage_[t].next_at_price
                      /\ m[t].prev_at_price = IF t = s THEN NULL ELSE IF t = next THEN prev
                                              ELSE storage_[t].prev_at_price
                      /\ m[t].price_level = IF t = s THEN NULL ELSE storage_[t].price_level
    OBVIOUS
  <2>1. m[t] = [storage_[t] EXCEPT
                  !.next_at_price = IF t = s THEN NULL ELSE IF t = prev THEN next ELSE @,
                  !.prev_at_price = IF t = s THEN NULL ELSE IF t = next THEN prev ELSE @,
                  !.price_level = IF t = s THEN NULL ELSE @]
    BY DEF Unthreaded
  <2>2. storage_[t] \in Memory
    BY <1>4
  <2>3. NULL \in Pointer /\ NULL \in Levels \cup {NULL}
    BY DEF Pointer
  <2> HIDE DEF next, prev
  <2> QED BY <1>5, <2>1, <2>2, <2>3 DEF Memory
<1>7. m \in [Slots -> Memory]
  <2>1. DOMAIN m = Slots /\ m = [t \in Slots |-> m[t]]
    BY DEF Unthreaded
  <2> QED BY <1>6, <2>1
<1>8. ASSUME NEW t \in Slots, t \notin ToSet(q) PROVE m[t] = storage_[t]
  <2>1. t # s
    BY <1>1, <1>8
  <2>2. t # next /\ t # prev
    <3>1. t \notin {q[j] : j \in 1..n} /\ t # NULL
      BY <1>1, <1>8, SlotFacts DEF ToSet
    <3> QED BY <1>1, <3>1 DEF At
  <2>3. m[t] = [storage_[t] EXCEPT !.next_at_price = @, !.prev_at_price = @,
                                   !.price_level = @]
    BY <2>1, <2>2 DEF Unthreaded
  <2>4. storage_[t] \in Memory
    BY <1>4
  <2> QED BY <2>3, <2>4 DEF Memory
<1>9. e = [head_order |-> IF prev = NULL THEN next ELSE At(q, 1),
           tail_order |-> IF next = NULL THEN prev ELSE At(q, n)]
  BY <1>1 DEF Ends
<1>10. \A j \in Int : At(q, j) = NULL <=> j \notin 1..n
  BY <1>2, SlotFacts DEF At
<1>11. e.head_order = At(r, 1)
  <2>1. At(r, 1) = IF 1 < k THEN At(q, 1) ELSE At(q, 1 + 1)
    BY <1>3
  <2>2. prev = NULL <=> k = 1
    BY <1>1, <1>10
  <2> HIDE DEF next, prev, r
  <2> QED BY <1>1, <1>9, <2>1, <2>2
<1>12. e.tail_order = At(r, Len(r))
  <2>1. n - 1 \in Nat
    BY <1>0
  <2>2. At(r, Len(r)) = IF n - 1 < k THEN At(q, n - 1) ELSE At(q, n - 1 + 1)
    <3> HIDE DEF r, n
    <3> QED BY <1>3, <2>1
  <2>3. next = NULL <=> k = n
    <3>1. k + 1 \in Int /\ (k + 1 \notin 1..n <=> k = n)
      BY <1>0
    <3> QED BY <1>1, <1>10, <3>1
  <2>4. n - 1 + 1 = n /\ (k = n <=> n - 1 < k) /\ (k = n => k - 1 = n - 1)
    BY <1>0
  <2> HIDE DEF next, prev, r, n
  <2> QED BY <1>1, <1>9, <2>2, <2>3, <2>4
<1>13. ASSUME NEW i \in 1..Len(r)
       PROVE  /\ m[r[i]].next_at_price = At(r, i + 1)
              /\ m[r[i]].prev_at_price = At(r, i - 1)
  <2> DEFINE j == IF i < k THEN i ELSE i + 1
  <2>1. i \in Nat /\ i + 1 \in Nat /\ i - 1 \in Nat /\ j \in 1..n /\ j # k
    <3>1. i \in 1..n - 1
      BY <1>3
    <3> QED BY <1>0, <3>1
  <2>2. r[i] = q[j]
    <3>1. r[i] = At(r, i)
      BY DEF At
    <3>2. At(r, i) = At(q, j)
      BY <1>3, <2>1
    <3> QED BY <2>1, <3>1, <3>2 DEF At
  <2>3. r[i] \in Slots /\ r[i] # s
    BY <1>2, <2>1, <2>2
  <2>4. At(r, i + 1) = IF i + 1 < k THEN At(q, i + 1) ELSE At(q, i + 1 + 1)
    BY <1>3, <2>1
  <2>5. At(r, i - 1) = IF i - 1 < k THEN At(q, i - 1) ELSE At(q, i - 1 + 1)
    BY <1>3, <2>1
  <2>6. m[r[i]].next_at_price = IF j = k - 1 THEN At(q, k + 1) ELSE At(q, j + 1)
    <3> HIDE DEF next, prev, j, r
    <3> QED BY <1>1, <1>2, <1>6, <2>1, <2>2, <2>3
  <2>7. m[r[i]].prev_at_price = IF j = k + 1 THEN At(q, k - 1) ELSE At(q, j - 1)
    <3> HIDE DEF next, prev, j, r
    <3> QED BY <1>1, <1>2, <1>6, <2>1, <2>2, <2>3
  <2>8. CASE i < k
    <3>1. j = i /\ (j = k - 1 <=> ~(i + 1 < k)) /\ j # k + 1 /\ i - 1 < k
      BY <2>1, <2>8
    <3>2. i + 1 = k => i + 1 + 1 = k + 1
      BY <2>1
    <3>3. ~(i + 1 < k) => i + 1 = k
      BY <2>1, <2>8
    <3> HIDE DEF j, r
    <3> QED BY <2>4, <2>5, <2>6, <2>7, <3>1, <3>2, <3>3
  <2>9. CASE ~(i < k)
    <3>1. /\ j = i + 1 /\ j # k - 1 /\ ~(i + 1 < k) /\ (j = k + 1 <=> i - 1 < k)
          /\ j - 1 = i - 1 + 1 /\ j + 1 = i + 1 + 1 /\ (j = k + 1 => i - 1 = k - 1)
      BY <2>1, <2>9
    <3> HIDE DEF j, r
    <3> QED BY <2>4, <2>5, <2>6, <2>7, <3>1
  <2> QED BY <2>8, <2>9
<1>14. /\ Forward(r, e.head_order, Next_(m))
       /\ Backward(r, e.tail_order, Prev_(m))
  <2>1. \A i \in 1..Len(r) : r[i] \in Slots
    BY <1>3, SeqFacts
  <2> HIDE DEF r
  <2> QED BY <1>11, <1>12, <1>13, <2>1 DEF Forward, Backward, Next_, Prev_
<1>15. e \in ListEnds
  <2>1. At(q, 1) \in Pointer /\ At(q, n) \in Pointer
    BY <1>2 DEF At, Pointer
  <2> HIDE DEF next, prev
  <2> QED BY <1>5, <1>9, <2>1 DEF ListEnds
<1> QED BY <1>6, <1>7, <1>8, <1>11, <1>14, <1>15

\* PriceLevel::add_order: the tail of the level, and what it makes of memory and level.
TailOf(l) == IF levels[l] = NULL THEN NULL ELSE levels[l].tail_order
LinkedBehind(s, tail, l) ==
  [t \in Slots |->
     IF t = s THEN [storage_[t] EXCEPT !.next_at_price = NULL,
                      !.prev_at_price = tail, !.price_level = l]
     ELSE IF t = tail THEN [storage_[t] EXCEPT !.next_at_price = s]
     ELSE storage_[t]]
EndsWith(s, tail, l) ==
  [head_order |-> IF tail = NULL THEN s ELSE levels[l].head_order, tail_order |-> s]

\* It puts one slot behind the others.
LEMMA PutIn ==
  ASSUME TypeOK, NEW l \in Levels, NEW q, Threaded(q, l),
         NEW s \in Slots, s \notin ToSet(q),
         NEW tail, tail = TailOf(l),
         NEW m, m = LinkedBehind(s, tail, l),
         NEW e, e = EndsWith(s, tail, l)
  PROVE  /\ m \in [Slots -> Memory] /\ e \in ListEnds
         /\ Forward(Append(q, s), e.head_order, Next_(m))
         /\ Backward(Append(q, s), e.tail_order, Prev_(m))
         /\ \A t \in Slots :
              /\ m[t].word = storage_[t].word
              /\ m[t].price_level = IF t = s THEN l ELSE storage_[t].price_level
              /\ t \notin ToSet(q) \cup {s} => m[t] = storage_[t]
<1> DEFINE p == Append(q, s)
           n == Len(q)
<1>0. n \in Nat
  BY SeqFacts DEF Threaded
<1>1. /\ q \in Seq(Slots) /\ IsInjective(q) /\ DOMAIN q = 1..n
      /\ \A i \in 1..n : q[i] \in Slots /\ q[i] \in ToSet(q)
  BY SeqFacts DEF Threaded
<1>2. /\ p \in Seq(Slots) /\ Len(p) = n + 1 /\ At(p, n + 1) = s
      /\ \A i \in Nat : i # n + 1 => At(p, i) = At(q, i)
      /\ \A i \in 1..n : p[i] = q[i]
      /\ p[n + 1] = s
  <2>1. /\ p \in Seq(Slots) /\ Len(p) = n + 1 /\ At(p, n + 1) = s
        /\ \A i \in Nat : i # n + 1 => At(p, i) = At(q, i)
    BY <1>1, PutBehind
  <2>2. (\A i \in 1..n : p[i] = q[i]) /\ p[n + 1] = s
    BY <1>1
  <2> QED BY <2>1, <2>2
<1>3. storage_ \in [Slots -> Memory] /\ levels[l] \in ListEnds \cup {NULL}
  BY DEF TypeOK, Memory
<1>4. tail = At(q, n) /\ (tail # NULL => levels[l].head_order = At(q, 1))
  <2>1. CASE levels[l] = NULL
    <3>1. q = <<>> /\ tail = NULL
      BY <2>1 DEF Threaded, TailOf
    <3>2. At(q, n) = NULL
      BY <3>1 DEF At
    <3> QED BY <3>1, <3>2
  <2>2. CASE levels[l] # NULL
    BY <2>2 DEF Threaded, Forward, Backward, TailOf
  <2> QED BY <2>1, <2>2
<1>5. tail \in Pointer /\ (tail = NULL <=> n = 0)
  <2>1. CASE n = 0
    BY <1>4, <2>1 DEF At, Pointer
  <2>2. CASE n # 0
    <3>1. n \in 1..n
      BY <1>0, <2>2
    <3> QED BY <1>1, <1>4, <2>2, <3>1, SlotFacts DEF At, Pointer
  <2> QED BY <2>1, <2>2
<1>6. \A t \in Slots :
        /\ m[t] \in Memory
        /\ m[t].word = storage_[t].word
        /\ m[t].next_at_price = IF t = s THEN NULL ELSE IF t = tail THEN s
                                ELSE storage_[t].next_at_price
        /\ m[t].prev_at_price = IF t = s THEN tail ELSE storage_[t].prev_at_price
        /\ m[t].price_level = IF t = s THEN l ELSE storage_[t].price_level
  <2> SUFFICES ASSUME NEW t \in Slots
               PROVE  /\ m[t] \in Memory
                      /\ m[t].word = storage_[t].word
                      /\ m[t].next_at_price = IF t = s THEN NULL ELSE IF t = tail THEN s
                                              ELSE storage_[t].next_at_price
                      /\ m[t].prev_at_price = IF t = s THEN tail
                                              ELSE storage_[t].prev_at_price
                      /\ m[t].price_level = IF t = s THEN l ELSE storage_[t].price_level
    OBVIOUS
  <2>1. storage_[t] \in Memory
    BY <1>3
  <2>2. NULL \in Pointer /\ s \in Pointer
    BY DEF Pointer
  <2>3. CASE t = s
    <3>1. m[t] = [storage_[t] EXCEPT !.next_at_price = NULL,
                            !.prev_at_price = tail, !.price_level = l]
      BY <2>3 DEF LinkedBehind
    <3> QED BY <1>5, <2>1, <2>2, <2>3, <3>1 DEF Memory
  <2>4. CASE t # s /\ t = tail
    <3>1. m[t] = [storage_[t] EXCEPT !.next_at_price = s]
      BY <2>4 DEF LinkedBehind
    <3> QED BY <2>1, <2>2, <2>4, <3>1 DEF Memory
  <2>5. CASE t # s /\ t # tail
    <3>1. m[t] = storage_[t]
      BY <2>5 DEF LinkedBehind
    <3> QED BY <2>1, <2>5, <3>1
  <2> QED BY <2>3, <2>4, <2>5
<1>7. m \in [Slots -> Memory]
  <2>1. DOMAIN m = Slots /\ m = [t \in Slots |-> m[t]]
    BY DEF LinkedBehind
  <2> QED BY <1>6, <2>1
<1>8. ASSUME NEW t \in Slots, t \notin ToSet(q) \cup {s} PROVE m[t] = storage_[t]
  <2>1. t # tail
    <3>1. t # NULL /\ \A i \in 1..n : t # q[i]
      BY <1>1, <1>8, SlotFacts
    <3> QED BY <1>4, <3>1 DEF At
  <2> QED BY <1>8, <2>1 DEF LinkedBehind
<1>9. \A i \in 1..n + 1 : i \in 1..n \/ i = n + 1
  BY <1>0
<1>10. ASSUME NEW i \in 1..n
       PROVE  /\ m[p[i]].next_at_price = At(p, i + 1)
              /\ m[p[i]].prev_at_price = At(p, i - 1)
  <2>1. levels[l] # NULL
    <3>1. q # <<>>
      BY <1>0, <1>1, SeqFacts
    <3> QED BY <3>1 DEF Threaded
  <2>2. storage_[q[i]].next_at_price = At(q, i + 1) /\ storage_[q[i]].prev_at_price = At(q, i - 1)
    BY <2>1, Neighbours
  <2>3. p[i] = q[i] /\ q[i] \in Slots /\ q[i] # s
    BY <1>1, <1>2
  <2>4. q[i] = tail <=> i = n
    <3>1. n \in 1..n
      BY <1>0
    <3> QED BY <1>1, <1>4, <3>1 DEF At, IsInjective
  <2>5. i + 1 \in Nat /\ i - 1 \in Nat /\ i - 1 # n + 1 /\ (i = n <=> i + 1 = n + 1)
    BY <1>0
  <2> HIDE DEF p
  <2> QED BY <1>2, <1>6, <2>2, <2>3, <2>4, <2>5
<1>11. m[p[n + 1]].next_at_price = At(p, n + 1 + 1) /\ m[p[n + 1]].prev_at_price = At(p, n + 1 - 1)
  <2>1. /\ n + 1 + 1 \notin 1..n + 1 /\ n + 1 - 1 = n /\ n # n + 1 /\ n \in Nat
    BY <1>0
  <2>2. At(p, n + 1 + 1) = NULL
    BY <1>2, <2>1 DEF At
  <2>3. p[n + 1] = s /\ s \in Slots
    BY <1>2
  <2>4. m[s].next_at_price = NULL /\ m[s].prev_at_price = tail
    BY <1>6, <2>3
  <2>5. At(p, n) = tail
    BY <1>2, <1>4, <2>1
  <2> HIDE DEF p
  <2> QED BY <2>1, <2>2, <2>3, <2>4, <2>5
<1>111. e.head_order = (IF tail = NULL THEN s ELSE levels[l].head_order) /\ e.tail_order = s
  BY DEF EndsWith
<1>12. e.head_order = At(p, 1) /\ e.tail_order = At(p, Len(p))
  <2>1. CASE n = 0
    <3>1. n + 1 = 1
      BY <2>1
    <3> HIDE DEF p
    <3> QED BY <1>2, <1>5, <1>111, <2>1, <3>1
  <2>2. CASE n # 0
    <3>1. 1 \in Nat /\ 1 # n + 1
      BY <1>0, <2>2
    <3> HIDE DEF p
    <3> QED BY <1>2, <1>4, <1>5, <1>111, <2>2, <3>1
  <2> QED BY <2>1, <2>2
<1>13. /\ Forward(p, e.head_order, Next_(m))
       /\ Backward(p, e.tail_order, Prev_(m))
  <2>1. \A i \in 1..Len(p) : p[i] \in Slots
    BY <1>2, SeqFacts
  <2>2. \A i \in 1..Len(p) : /\ m[p[i]].next_at_price = At(p, i + 1)
                             /\ m[p[i]].prev_at_price = At(p, i - 1)
    <3> HIDE DEF p
    <3> QED BY <1>2, <1>9, <1>10, <1>11
  <2> HIDE DEF p
  <2> QED BY <1>12, <2>1, <2>2 DEF Forward, Backward, Next_, Prev_
<1>14. e \in ListEnds
  <2>1. e.head_order \in Pointer /\ s \in Pointer
    <3>1. At(q, 1) \in Pointer
      BY <1>1 DEF At, Pointer
    <3> QED BY <1>4, <1>111, <3>1 DEF Pointer
  <2> QED BY <2>1 DEF ListEnds, EndsWith
<1> QED BY <1>6, <1>7, <1>8, <1>13, <1>14

------------------------------------------------------------------------------
(* Each operation, as a step of the sequences.                             *)

LEMMA InitSound ==
  ASSUME Init
  PROVE  TypeOK /\ Control /\ Layout([i \in 1..PoolSize |-> i], [l \in Levels |-> <<>>])
<1> DEFINE f == [i \in 1..PoolSize |-> i]
<1>1. /\ free_list_ = 1 /\ available_ = PoolSize /\ PoolSize \in Nat \ {0}
      /\ levels = [l \in Levels |-> NULL]
      /\ mapped = {} /\ order = NULL /\ matching = NULL /\ resting = NULL
  BY PoolAssumption DEF Init
<1> DEFINE after(s) == IF s = PoolSize THEN NULL ELSE s + 1
<1>2. /\ \A s \in Slots : storage_[s] =
           [word |-> after(s), next_at_price |-> NULL, prev_at_price |-> NULL,
            price_level |-> NULL]
      /\ storage_ = [s \in Slots |-> storage_[s]]
  <2>1. storage_ = [s \in Slots |-> [word |-> after(s),
           next_at_price |-> NULL, prev_at_price |-> NULL, price_level |-> NULL]]
    BY DEF Init
  <2> HIDE DEF after
  <2> QED BY <2>1
<1>21. \A s \in Slots : after(s) \in Pointer
  BY <1>1 DEF Slots, Pointer
<1> HIDE DEF after
<1>22. \A s \in Slots : storage_[s].word = after(s) /\ storage_[s].price_level = NULL
  BY <1>2
<1>3. /\ f \in Seq(Slots) /\ Len(f) = PoolSize /\ \A i \in 1..PoolSize : f[i] = i
      /\ DOMAIN f = 1..PoolSize
  BY <1>1 DEF Slots
<1>31. IsInjective(f)
  <2> HIDE DEF f
  <2> QED BY <1>3 DEF IsInjective
<1>4. ToSet(f) = Slots
  <2> HIDE DEF f
  <2> QED BY <1>3 DEF ToSet, Slots
<1>5. TypeOK
  <2>2. NULL \in Pointer /\ 1 \in Pointer /\ PoolSize \in 0..PoolSize
    BY <1>1 DEF Slots, Pointer
  <2>3. \A s \in Slots : storage_[s] \in Memory
    BY <1>2, <1>21, <2>2 DEF Memory, Pointer
  <2>4. storage_ \in [Slots -> Memory]
    <3> QED BY <1>2, <2>3
  <2> QED BY <1>1, <2>2, <2>4 DEF TypeOK, Memory
<1>6. Control
  <2>1. \A s \in Slots : storage_[s].price_level = NULL
    BY <1>22
  <2> QED BY <1>1, <2>1 DEF Control
<1>7. Freed(f)
  <2>1. At(f, 1) = 1
    BY <1>1, <1>3 DEF At
  <2>2. ASSUME NEW i \in 1..PoolSize PROVE storage_[f[i]].word = At(f, i + 1)
    <3>1. storage_[f[i]].word = IF i = PoolSize THEN NULL ELSE i + 1
      BY <1>22, <1>3 DEF Slots, after
    <3>2. i + 1 \in 1..PoolSize <=> i # PoolSize
      BY <1>1
    <3> QED BY <1>3, <3>1, <3>2 DEF At
  <2>3. Forward(f, free_list_, Word(storage_))
    <3>1. \A i \in 1..PoolSize : f[i] \in Slots
      BY <1>3 DEF Slots
    <3> HIDE DEF f
    <3> QED BY <1>1, <1>3, <2>1, <2>2, <3>1 DEF Forward, Word
  <2> QED BY <1>1, <1>3, <1>31, <2>3 DEF Freed
<1>8. ASSUME NEW l \in Levels PROVE Threaded(<<>>, l)
  <2>1. <<>> \in Seq(Slots) /\ IsInjective(<<>>) /\ ToSet(<<>>) = {}
    BY DEF IsInjective, ToSet
  <2>2. \A s \in Slots : storage_[s].price_level # l
    BY <1>22, NullAssumption
  <2> QED BY <1>1, <2>1, <2>2 DEF Threaded
<1>9. Layout(f, [l \in Levels |-> <<>>])
  <2>1. \A s \in Slots : storage_[s].price_level = NULL
    BY <1>22
  <2>2. order \notin ToSet(f)
    BY <1>1, <1>4, SlotFacts
  <2> HIDE DEF f
  <2> QED BY <1>4, <1>7, <1>8, <2>1, <2>2 DEF Layout
<1> QED BY <1>5, <1>6, <1>9

\* What the pieces of the invariant say of one another.
LEMMA Pieces ==
  ASSUME TypeOK, NEW f, NEW qs, Layout(f, qs)
  PROVE  /\ f \in Seq(Slots) /\ IsInjective(f) /\ Freed(f)
         /\ free_list_ = At(f, 1) /\ Len(f) = available_ /\ Len(f) \in Nat
         /\ \A i \in 1..Len(f) : storage_[f[i]].word = At(f, i + 1)
         /\ ToSet(f) \subseteq Slots
         /\ \A s \in ToSet(f) : storage_[s].price_level = NULL
         /\ order # NULL => order \in Slots /\ storage_[order].price_level = NULL
         /\ order \notin ToSet(f)
         /\ qs \in [Levels -> Seq(Slots)]
         /\ \A l \in Levels :
              /\ Threaded(qs[l], l)
              /\ \A s \in Slots : s \in ToSet(qs[l]) <=> storage_[s].price_level = l
              /\ ToSet(qs[l]) \cap (ToSet(f) \cup {order}) = {}
         /\ storage_ \in [Slots -> Memory]
<1>1. f \in Seq(Slots) /\ IsInjective(f) /\ Freed(f) /\ order \notin ToSet(f)
  BY DEF Layout, Freed
<1>2. /\ Len(f) \in Nat /\ ToSet(f) \subseteq Slots
      /\ \A i \in 1..Len(f) : f[i] \in Slots
  BY <1>1, SeqFacts
<1>3. /\ free_list_ = At(f, 1) /\ Len(f) = available_
      /\ \A i \in 1..Len(f) : storage_[f[i]].word = At(f, i + 1)
  BY <1>1, <1>2 DEF Freed, Forward, Word
<1>4. order # NULL => order \in Slots
  BY DEF TypeOK, Pointer
<1>5. \A s \in Slots : storage_[s].price_level = NULL <=> s \in ToSet(f) \cup {order}
  BY DEF Layout
<1>6. \A l \in Levels : /\ Threaded(qs[l], l) /\ l # NULL
                        /\ \A s \in Slots : s \in ToSet(qs[l]) <=> storage_[s].price_level = l
                        /\ ToSet(qs[l]) \subseteq Slots
  BY NullAssumption, SeqFacts DEF Layout, Threaded
<1>7. storage_ \in [Slots -> Memory]
  BY DEF TypeOK, Memory
<1>8. qs \in [Levels -> Seq(Slots)]
  BY DEF Layout
<1>9. \A s \in ToSet(f) : storage_[s].price_level = NULL
  BY <1>2, <1>5
<1>10. order # NULL => storage_[order].price_level = NULL
  BY <1>4, <1>5
<1>11. \A l \in Levels : ToSet(qs[l]) \cap (ToSet(f) \cup {order}) = {}
  BY <1>5, <1>6
<1> QED BY <1>1, <1>2, <1>3, <1>4, <1>6, <1>7, <1>8, <1>9, <1>10, <1>11

LEMMA AcquireStep ==
  ASSUME TypeOK, Control, NEW f, NEW qs, Layout(f, qs),
         NEW l \in Levels, Acquire(l), NEW s, s = free_list_
  PROVE  /\ TypeOK' /\ Control' /\ Layout(Behind(f), qs)'
         /\ order = NULL /\ order' = s
         /\ s \in ToSet(f) /\ ToSet(Behind(f)) = ToSet(f) \ {s}
<1> DEFINE g == Behind(f)
           new == [word |-> l, next_at_price |-> NULL, prev_at_price |-> NULL,
                   price_level |-> NULL]
<1>1. /\ order = NULL /\ s # NULL /\ order' = s
      /\ free_list_' = storage_[s].word /\ available_' = available_ - 1
      /\ storage_' = [storage_ EXCEPT ![s] = new]
      /\ UNCHANGED <<levels, mapped, matching, resting>>
  BY DEF Acquire
<1>2. /\ f \in Seq(Slots) /\ IsInjective(f) /\ s = At(f, 1)
      /\ Len(f) = available_ /\ Len(f) \in Nat
      /\ \A i \in 1..Len(f) : f[i] \in Slots /\ storage_[f[i]].word = At(f, i + 1)
      /\ storage_ \in [Slots -> Memory]
  <2>1. f \in Seq(Slots)
    BY Pieces
  <2> QED BY <2>1, Pieces, SeqFacts
<1>3. 1 \in 1..Len(f) /\ f # <<>>
  <2>1. 1 \in 1..Len(f)
    BY <1>1, <1>2 DEF At
  <2> QED BY <1>2, <2>1, SeqFacts
<1>4. /\ g \in Seq(Slots) /\ IsInjective(g) /\ Len(g) = Len(f) - 1
      /\ s = f[1] /\ s \in ToSet(f) /\ s \in Slots
      /\ ToSet(g) = ToSet(f) \ {s}
      /\ \A i \in Nat \ {0} : At(g, i) = At(f, i + 1)
  BY <1>2, <1>3, TakenFromFront
<1>5. /\ new \in Memory /\ new.word = l /\ new.price_level = NULL
  BY DEF Memory, Pointer
<1>6. /\ storage_' \in [Slots -> Memory]
      /\ storage_'[s] = new /\ \A t \in Slots : t # s => storage_'[t] = storage_[t]
  <2> HIDE DEF new
  <2> QED BY <1>1, <1>2, <1>4, <1>5
<1>7. \A t \in Slots : storage_'[t].price_level = storage_[t].price_level
  <2>1. storage_[s].price_level = NULL
    BY <1>4, Pieces
  <2> HIDE DEF new
  <2> QED BY <1>5, <1>6, <2>1
<1>8. free_list_' = At(g, 1) /\ available_' = Len(g)
  <2>1. At(g, 1) = At(f, 1 + 1)
    BY <1>4
  <2> HIDE DEF g
  <2> QED BY <1>1, <1>2, <1>3, <1>4, <2>1
<1>9. Freed(g)'
  <2>1. ASSUME NEW i \in 1..Len(g) PROVE storage_'[g[i]].word = At(g, i + 1)
    <3>1. i \in Nat \ {0} /\ i + 1 \in Nat \ {0} /\ i \in 1..Len(f) /\ i + 1 \in 1..Len(f)
      <4>1. Len(f) \in Nat /\ i \in 1..Len(f) - 1
        BY <1>2, <1>4
      <4> QED BY <4>1
    <3>2. At(g, i + 1) = At(f, i + 1 + 1) /\ At(g, i) = At(f, i + 1)
      BY <1>4, <3>1
    <3>3. g[i] = f[i + 1]
      BY <3>1, <3>2 DEF At
    <3>4. f[i + 1] \in Slots /\ f[i + 1] # s
      <4>1. DOMAIN f = 1..Len(f) /\ 1 # i + 1
        BY <1>2, <3>1, LenProperties
      <4> QED BY <1>2, <1>3, <1>4, <3>1, <4>1 DEF IsInjective
    <3> HIDE DEF g, new
    <3> QED BY <1>2, <1>6, <3>1, <3>2, <3>3, <3>4
  <2>2. \A i \in 1..Len(g) : g[i] \in Slots
    BY <1>4, SeqFacts
  <2> HIDE DEF g
  <2> QED BY <1>4, <1>8, <2>1, <2>2 DEF Freed, Forward, Word
<1>10. ASSUME NEW k \in Levels PROVE Threaded(qs[k], k)'
  <2>1. /\ Threaded(qs[k], k) /\ s \notin ToSet(qs[k])
        /\ \A t \in ToSet(qs[k]) : t \in Slots
    <3>1. Threaded(qs[k], k) /\ qs[k] \in Seq(Slots) /\ ToSet(qs[k]) \cap ToSet(f) = {}
      BY Pieces
    <3>2. ToSet(qs[k]) \subseteq Slots
      BY <3>1, SeqFacts
    <3> QED BY <1>4, <3>1, <3>2
  <2>2. levels'[k] = levels[k] /\ matching' = matching
    BY <1>1
  <2>3. levels[k] # NULL => qs[k] # <<>> \/ matching' = k
    BY <2>1, <2>2 DEF Threaded
  <2>4. \A t \in ToSet(qs[k]) : storage_'[t] = storage_[t]
    BY <1>6, <2>1
  <2>5. PICK q : q = qs[k]
    OBVIOUS
  <2>6. Threaded(q, k)'
    BY <1>7, <2>1, <2>2, <2>3, <2>4, <2>5, StillThreaded
  <2> QED BY <2>5, <2>6
<1>11. Layout(g, qs)'
  <2>1. \A t \in Slots : storage_'[t].price_level = NULL <=> t \in ToSet(g) \cup {order'}
    <3>1. \A t \in Slots : storage_[t].price_level = NULL <=> t \in ToSet(f) \cup {order}
      BY DEF Layout
    <3> QED BY <1>1, <1>4, <1>7, <3>1, SlotFacts
  <2>2. qs \in [Levels -> Seq(Slots)]
    BY Pieces
  <2> HIDE DEF g
  <2> QED BY <1>1, <1>4, <1>9, <1>10, <2>1, <2>2 DEF Layout
<1>12. Control'
  <2>1. matching = NULL /\ resting = NULL
    BY <1>1 DEF Control
  <2>2. storage_'[order'].word \in Levels
    BY <1>1, <1>5, <1>6
  <2>3. mapped' = {t \in Slots : storage_'[t].price_level # NULL}
    BY <1>1, <1>7 DEF Control
  <2> QED BY <1>1, <2>1, <2>2, <2>3 DEF Control
<1>13. TypeOK'
  <2>1. free_list_' \in Pointer
    <3>1. \A i \in 1..Len(g) : g[i] \in Slots
      BY <1>4, SeqFacts
    <3> QED BY <1>8, <3>1 DEF At, Pointer
  <2>2. available_' \in 0..PoolSize
    <3>1. available_ \in 0..PoolSize
      BY DEF TypeOK
    <3>2. available_ \in Nat /\ 1 <= available_ /\ PoolSize \in Nat
      BY <1>2, <1>3, PoolAssumption
    <3> QED BY <1>1, <3>1, <3>2
  <2>3. order' \in Pointer
    BY <1>1, <1>4 DEF Pointer
  <2> HIDE DEF g, new
  <2> QED BY <1>1, <1>6, <2>1, <2>2, <2>3 DEF TypeOK, Memory
<1> QED BY <1>1, <1>4, <1>11, <1>12, <1>13

LEMMA DiscardStep ==
  ASSUME TypeOK, Control, NEW f, NEW qs, Layout(f, qs), Discard, NEW s, s = order
  PROVE  /\ TypeOK' /\ Control' /\ Layout(InFront(s, f), qs)'
         /\ s # NULL /\ order' = NULL
         /\ s \in Slots /\ ToSet(InFront(s, f)) = ToSet(f) \cup {s}
<1> DEFINE g == InFront(s, f)
<1>1. /\ s # NULL /\ matching = NULL /\ order' = NULL /\ Release(storage_, s)
      /\ UNCHANGED <<levels, mapped, matching, resting>>
  BY DEF Discard
<1>2. /\ s \in Slots /\ s \notin ToSet(f) /\ storage_[s].price_level = NULL
      /\ Freed(f) /\ storage_ \in [Slots -> Memory] /\ f \in Seq(Slots) /\ IsInjective(f)
  BY <1>1, Pieces
<1>3. /\ Freed(g)'
      /\ storage_' \in [Slots -> Memory] /\ free_list_' \in Pointer
      /\ available_' \in 0..PoolSize
      /\ \A t \in Slots :
           /\ storage_'[t].next_at_price = storage_[t].next_at_price
           /\ storage_'[t].prev_at_price = storage_[t].prev_at_price
           /\ storage_'[t].price_level = storage_[t].price_level
           /\ t # s => storage_'[t] = storage_[t]
  <2>1. PICK memory : memory = storage_
    OBVIOUS
  <2>2. Release(memory, s) /\ memory \in [Slots -> Memory]
    BY <1>1, <1>2, <2>1
  <2>3. \A t \in Slots : memory[t].word = storage_[t].word
    BY <2>1
  <2> QED BY <1>2, <2>1, <2>2, <2>3, Released
<1>4. ToSet(g) = ToSet(f) \cup {s}
  BY <1>2, PutInFront
<1> HIDE DEF g
<1>5. ASSUME NEW k \in Levels PROVE Threaded(qs[k], k)'
  <2>1. /\ Threaded(qs[k], k) /\ \A t \in ToSet(qs[k]) : t \in Slots
    <3>1. Threaded(qs[k], k) /\ qs[k] \in Seq(Slots)
      BY Pieces
    <3> QED BY <3>1, SeqFacts
  <2>2. levels'[k] = levels[k] /\ matching' = matching
    BY <1>1
  <2>3. levels[k] # NULL => qs[k] # <<>> \/ matching' = k
    BY <2>1, <2>2 DEF Threaded
  <2>4. PICK q : q = qs[k]
    OBVIOUS
  <2>5. Threaded(q, k)'
    BY <1>3, <2>1, <2>2, <2>3, <2>4, StillThreaded
  <2> QED BY <2>4, <2>5
<1>6. Layout(g, qs)'
  <2>1. \A t \in Slots : storage_'[t].price_level = NULL <=> t \in ToSet(g) \cup {order'}
    <3>1. \A t \in Slots : storage_[t].price_level = NULL <=> t \in ToSet(f) \cup {order}
      BY DEF Layout
    <3> QED BY <1>1, <1>3, <1>4, <3>1, SlotFacts
  <2>2. qs \in [Levels -> Seq(Slots)] /\ order' \notin ToSet(g)
    <3>1. ToSet(f) \subseteq Slots
      BY Pieces
    <3> QED BY <1>1, <1>2, <1>4, <3>1, Pieces, SlotFacts
  <2> QED BY <1>3, <1>5, <2>1, <2>2 DEF Layout
<1>7. Control'
  <2>1. resting = NULL
    BY <1>1 DEF Control
  <2>2. mapped' = {t \in Slots : storage_'[t].price_level # NULL}
    BY <1>1, <1>3 DEF Control
  <2> QED BY <1>1, <2>1, <2>2 DEF Control
<1>8. TypeOK'
  <2>1. order' \in Pointer
    BY <1>1 DEF Pointer
  <2> QED BY <1>1, <1>3, <2>1 DEF TypeOK, Memory
<1> QED BY <1>1, <1>2, <1>4, <1>6, <1>7, <1>8 DEF g

\* The free list of a step that leaves it alone, and every slot's word.
LEMMA StillFreed ==
  ASSUME NEW f, Freed(f), UNCHANGED <<free_list_, available_>>,
         \A t \in Slots : storage_'[t].word = storage_[t].word
  PROVE  Freed(f)'
<1>1. f \in Seq(Slots) /\ \A i \in 1..Len(f) : f[i] \in Slots
  BY SeqFacts DEF Freed
<1>2. Word(storage_') = Word(storage_)
  BY DEF Word
<1> QED BY <1>1, <1>2 DEF Freed

LEMMA RestStep ==
  ASSUME TypeOK, Control, NEW f, NEW qs, Layout(f, qs), Rest,
         NEW s, s = order, NEW l, l = storage_[s].word
  PROVE  /\ TypeOK' /\ Control' /\ Layout(f, [qs EXCEPT ![l] = Append(qs[l], s)])'
         /\ s # NULL /\ order' = NULL /\ l \in Levels
<1> DEFINE rs == [qs EXCEPT ![l] = Append(qs[l], s)]
<1>1. /\ s # NULL /\ matching = NULL /\ order' = NULL /\ mapped' = mapped \cup {s}
      /\ UNCHANGED <<free_list_, available_, matching, resting>>
  BY DEF Rest
<1>2. /\ s \in Slots /\ l \in Levels /\ s \notin ToSet(f) /\ storage_[s].price_level = NULL
      /\ Freed(f) /\ storage_ \in [Slots -> Memory] /\ l # NULL
      /\ qs \in [Levels -> Seq(Slots)]
  BY <1>1, Pieces, NullAssumption DEF Control
<1>3. PICK q : q = qs[l]
  OBVIOUS
<1>4. Threaded(q, l) /\ s \notin ToSet(q) /\ q \in Seq(Slots) /\ IsInjective(q)
  <2>1. Threaded(q, l) /\ ToSet(q) \cap {s} = {}
    BY <1>2, <1>3, Pieces
  <2> QED BY <2>1 DEF Threaded
<1>5. PICK tail, m, e :
        tail = TailOf(l) /\ m = LinkedBehind(s, tail, l) /\ e = EndsWith(s, tail, l)
  OBVIOUS
<1>6. storage_' = m /\ levels' = [levels EXCEPT ![l] = e]
  BY <1>5 DEF Rest, TailOf, LinkedBehind, EndsWith
<1>7. /\ m \in [Slots -> Memory] /\ e \in ListEnds
      /\ Forward(Append(q, s), e.head_order, Next_(m))
      /\ Backward(Append(q, s), e.tail_order, Prev_(m))
      /\ \A t \in Slots :
           /\ m[t].word = storage_[t].word
           /\ m[t].price_level = IF t = s THEN l ELSE storage_[t].price_level
           /\ t \notin ToSet(q) \cup {s} => m[t] = storage_[t]
  BY <1>2, <1>4, <1>5, PutIn
<1>8. /\ Append(q, s) \in Seq(Slots) /\ IsInjective(Append(q, s)) /\ Append(q, s) # <<>>
      /\ ToSet(Append(q, s)) = ToSet(q) \cup {s}
  BY <1>2, <1>4, PutBehind
<1>9. levels \in [Levels -> ListEnds \cup {NULL}] /\ levels'[l] = e /\ e # NULL
  BY <1>2, <1>6, <1>7, NullAssumption DEF TypeOK
<1>10. Threaded(Append(q, s), l)'
  <2>1. \A t \in Slots : t \in ToSet(q) <=> storage_[t].price_level = l
    BY <1>4 DEF Threaded
  <2>2. \A t \in Slots : t \in ToSet(Append(q, s)) <=> storage_'[t].price_level = l
    BY <1>6, <1>7, <1>8, <2>1
  <2> QED BY <1>6, <1>7, <1>8, <1>9, <2>2 DEF Threaded
<1>11. ASSUME NEW k \in Levels, k # l PROVE Threaded(qs[k], k)'
  <2>1. /\ Threaded(qs[k], k) /\ \A t \in ToSet(qs[k]) : t \in Slots /\ t \notin ToSet(q) \cup {s}
    <3>1. Threaded(qs[k], k) /\ qs[k] \in Seq(Slots)
      BY Pieces
    <3>2. /\ ToSet(qs[k]) \subseteq Slots
          /\ \A t \in Slots : t \in ToSet(qs[k]) => storage_[t].price_level = k
          /\ \A t \in Slots : t \in ToSet(q) => storage_[t].price_level = l
      BY <1>4, <3>1, SeqFacts DEF Threaded
    <3>3. k # NULL
      BY NullAssumption
    <3> QED BY <1>2, <1>11, <3>1, <3>2, <3>3
  <2>2. levels'[k] = levels[k] /\ matching' = matching
    BY <1>1, <1>6, <1>9, <1>11
  <2>3. levels[k] # NULL => qs[k] # <<>> \/ matching' = k
    BY <2>1, <2>2 DEF Threaded
  <2>4. \A t \in Slots : storage_'[t].price_level = k <=> storage_[t].price_level = k
    BY <1>2, <1>6, <1>7, <1>11, NullAssumption
  <2>5. \A t \in ToSet(qs[k]) : storage_'[t] = storage_[t]
    BY <1>6, <1>7, <2>1
  <2>6. PICK p : p = qs[k]
    OBVIOUS
  <2>7. Threaded(p, k)'
    BY <2>1, <2>2, <2>3, <2>4, <2>5, <2>6, StillThreaded
  <2> QED BY <2>6, <2>7
<1>12. Layout(f, rs)'
  <2>1. Freed(f)'
    BY <1>1, <1>2, <1>6, <1>7, StillFreed
  <2>2. rs \in [Levels -> Seq(Slots)]
    BY <1>2, <1>3, <1>8
  <2>3. \A k \in Levels : Threaded(rs[k], k)'
    <3>1. \A k \in Levels : rs[k] = IF k = l THEN Append(q, s) ELSE qs[k]
      BY <1>2, <1>3
    <3> HIDE DEF rs
    <3> QED BY <1>10, <1>11, <3>1
  <2>4. \A t \in Slots : storage_'[t].price_level = NULL <=> t \in ToSet(f) \cup {order'}
    <3>1. \A t \in Slots : storage_[t].price_level = NULL <=> t \in ToSet(f) \cup {order}
      BY DEF Layout
    <3>2. \A t \in Slots : storage_'[t].price_level = IF t = s THEN l
                                                    ELSE storage_[t].price_level
      BY <1>6, <1>7
    <3>3. order' \notin Slots /\ l # NULL /\ s \notin ToSet(f)
      BY <1>1, <1>2, SlotFacts
    <3> QED BY <3>1, <3>2, <3>3
  <2>5. order' \notin ToSet(f)
    BY <1>1, Pieces, SlotFacts
  <2> HIDE DEF rs
  <2> QED BY <2>1, <2>2, <2>3, <2>4, <2>5 DEF Layout
<1>13. Control'
  <2>1. mapped' = {t \in Slots : storage_'[t].price_level # NULL}
    BY <1>1, <1>2, <1>6, <1>7 DEF Control
  <2>2. resting = NULL
    BY <1>1 DEF Control
  <2> QED BY <1>1, <2>1, <2>2 DEF Control
<1>14. TypeOK'
  <2>1. levels' \in [Levels -> ListEnds \cup {NULL}]
    BY <1>6, <1>7, <1>9
  <2>2. mapped' \subseteq Slots /\ order' \in Pointer
    BY <1>1, <1>2 DEF TypeOK, Pointer
  <2> QED BY <1>1, <1>6, <1>7, <2>1, <2>2 DEF TypeOK, Memory
<1> QED BY <1>1, <1>2, <1>12, <1>13, <1>14

\* match_order comes to a level, or leaves it: the lists stay.
LEMMA EnterStep ==
  ASSUME TypeOK, Control, NEW f, NEW qs, Layout(f, qs), NEW l \in Levels, EnterLevel(l)
  PROVE  TypeOK' /\ Control' /\ Layout(f, qs)' /\ UNCHANGED order
<1>1. /\ order # NULL /\ matching = NULL /\ levels[l] # NULL
      /\ matching' = l /\ resting' = levels[l].head_order
      /\ UNCHANGED <<storage_, free_list_, available_, levels, mapped, order>>
  BY DEF EnterLevel, poolVars
<1>2. resting' \in Pointer
  BY <1>1 DEF TypeOK, ListEnds
<1>3. TypeOK'
  BY <1>1, <1>2 DEF TypeOK
<1>4. Control'
  BY <1>1, NullAssumption DEF Control
<1>5. ASSUME NEW k \in Levels PROVE Threaded(qs[k], k)'
  <2>1. Threaded(qs[k], k) /\ k # NULL
    BY NullAssumption DEF Layout
  <2> QED BY <1>1, <2>1 DEF Threaded
<1>6. Layout(f, qs)'
  BY <1>1, <1>5 DEF Layout, Freed
<1> QED BY <1>1, <1>3, <1>4, <1>6

LEMMA LeaveStep ==
  ASSUME TypeOK, Control, NEW f, NEW qs, Layout(f, qs), LeaveLevel
  PROVE  TypeOK' /\ Control' /\ Layout(f, qs)' /\ UNCHANGED order
<1>1. PICK l : l = matching
  OBVIOUS
<1>2. /\ l # NULL /\ matching' = NULL /\ resting' = NULL
      /\ levels' = [levels EXCEPT ![l] = IF @.head_order = NULL THEN NULL ELSE @]
      /\ UNCHANGED <<storage_, free_list_, available_, mapped, order>>
  BY <1>1 DEF LeaveLevel, poolVars
<1>3. l \in Levels /\ levels[l] # NULL /\ levels \in [Levels -> ListEnds \cup {NULL}]
  BY <1>1, <1>2 DEF TypeOK, Control
<1>4. /\ levels'[l] = IF levels[l].head_order = NULL THEN NULL ELSE levels[l]
      /\ \A k \in Levels : k # l => levels'[k] = levels[k]
  BY <1>2, <1>3
<1>5. TypeOK'
  BY <1>2, <1>3 DEF TypeOK, Pointer
<1>6. Control'
  BY <1>2 DEF Control
<1>7. ASSUME NEW k \in Levels PROVE Threaded(qs[k], k)'
  <2>1. Threaded(qs[k], k) /\ qs[k] \in Seq(Slots)
    BY DEF Layout, Threaded
  <2>2. CASE k # l
    <3>1. levels'[k] = levels[k] /\ (levels[k] # NULL => qs[k] # <<>>)
      BY <1>1, <1>4, <2>1, <2>2 DEF Threaded
    <3> QED BY <1>2, <2>1, <3>1 DEF Threaded
  <2>3. CASE k = l
    <3>1. levels[l].head_order = At(qs[k], 1)
      BY <1>3, <2>1, <2>3 DEF Threaded, Forward
    <3>2. levels[l].head_order = NULL <=> qs[k] = <<>>
      <4>1. Len(qs[k]) \in Nat /\ \A i \in 1..Len(qs[k]) : qs[k][i] \in Slots
        BY <2>1, SeqFacts
      <4>2. 1 \in 1..Len(qs[k]) <=> qs[k] # <<>>
        BY <2>1, <4>1, SeqFacts
      <4> QED BY <3>1, <4>1, <4>2, SlotFacts DEF At
    <3> QED BY <1>2, <1>3, <1>4, <2>1, <2>3, <3>2 DEF Threaded
  <2> QED BY <2>2, <2>3
<1>8. Layout(f, qs)'
  BY <1>2, <1>7 DEF Layout, Freed
<1> QED BY <1>2, <1>5, <1>6, <1>8

\* An order leaves its list, from wherever it stands, and its slot is free: what Fill
\* and Cancel have in common.  The level goes (x is NULL) if it is left empty, but not
\* while match_order is at it.
Leaves(s, l, x) ==
  LET e == Ends(levels[l], s) IN
  /\ Release(Unthreaded(s), s)
  /\ levels' = [levels EXCEPT ![l] = x]
  /\ x = e \/ (x = NULL /\ e.head_order = NULL)
  /\ x # NULL => e.head_order # NULL \/ matching = l
  /\ mapped' = mapped \ {s} /\ UNCHANGED <<order, matching>>

\* What every removal leaves behind.
Removed(f, qs, l, k, s, x) ==
  /\ Layout(InFront(s, f), [qs EXCEPT ![l] = RemoveAt(qs[l], k)])'
  /\ s \in Slots /\ s \notin ToSet(f)
  /\ storage_' \in [Slots -> Memory] /\ free_list_' \in Pointer
  /\ available_' \in 0..PoolSize
  /\ levels' \in [Levels -> ListEnds \cup {NULL}] /\ mapped' \subseteq Slots
  /\ levels'[l] = x /\ Ends(levels[l], s) # NULL
  /\ mapped' = {t \in Slots : storage_'[t].price_level # NULL}
  /\ order # NULL => storage_'[order].word = storage_[order].word
  /\ Ends(levels[l], s).head_order = At(qs[l], 2) \/ k # 1

LEMMA Removal ==
  ASSUME TypeOK, Control, NEW f, NEW qs, Layout(f, qs),
         NEW l \in Levels, levels[l] # NULL, NEW k \in 1..Len(qs[l]),
         NEW s, s = qs[l][k], NEW x, Leaves(s, l, x)
  PROVE  Removed(f, qs, l, k, s, x)
<1>1. PICK q : q = qs[l]
  OBVIOUS
<1>2. PICK r : r = RemoveAt(q, k)
  OBVIOUS
<1>21. PICK m, e : m = Unthreaded(s) /\ e = Ends(levels[l], s)
  OBVIOUS
<1>22. /\ Release(m, s) /\ levels' = [levels EXCEPT ![l] = x]
       /\ x = e \/ (x = NULL /\ e.head_order = NULL)
       /\ x # NULL => e.head_order # NULL \/ matching = l
       /\ mapped' = mapped \ {s} /\ UNCHANGED <<order, matching>>
  BY <1>21 DEF Leaves
<1> DEFINE g == InFront(s, f)
           rs == [qs EXCEPT ![l] = r]
<1>3. /\ q \in Seq(Slots) /\ IsInjective(q) /\ Threaded(q, l) /\ k \in 1..Len(q) /\ s = q[k]
      /\ s \in Slots /\ s \in ToSet(q) /\ s \notin ToSet(f) /\ s # order
      /\ qs \in [Levels -> Seq(Slots)] /\ storage_ \in [Slots -> Memory]
      /\ Freed(f) /\ f \in Seq(Slots) /\ IsInjective(f) /\ l # NULL
  <2>1. /\ Threaded(q, l) /\ ToSet(q) \cap (ToSet(f) \cup {order}) = {}
        /\ qs \in [Levels -> Seq(Slots)] /\ storage_ \in [Slots -> Memory]
        /\ Freed(f) /\ f \in Seq(Slots) /\ IsInjective(f)
    BY <1>1, Pieces
  <2>2. q \in Seq(Slots) /\ IsInjective(q)
    BY <2>1 DEF Threaded
  <2>3. q[k] \in Slots /\ q[k] \in ToSet(q)
    BY <1>1, <2>2, SeqFacts
  <2> QED BY <1>1, <2>1, <2>2, <2>3, NullAssumption
<1>4. /\ m \in [Slots -> Memory] /\ e \in ListEnds
      /\ e.head_order = At(r, 1)
      /\ Forward(r, e.head_order, Next_(m))
      /\ Backward(r, e.tail_order, Prev_(m))
      /\ \A t \in Slots :
           /\ m[t].word = storage_[t].word
           /\ m[t].price_level = IF t = s THEN NULL ELSE storage_[t].price_level
           /\ t \notin ToSet(q) => m[t] = storage_[t]
  <2>1. Threaded(q, l) /\ k \in 1..Len(q) /\ s = q[k]
    BY <1>3
  <2>2. LET o == RemoveAt(q, k) IN
        /\ m \in [Slots -> Memory] /\ e \in ListEnds
        /\ e.head_order = At(o, 1)
        /\ Forward(o, e.head_order, Next_(m))
        /\ Backward(o, e.tail_order, Prev_(m))
        /\ \A t \in Slots :
             /\ m[t].word = storage_[t].word
             /\ m[t].price_level = IF t = s THEN NULL ELSE storage_[t].price_level
             /\ t \notin ToSet(q) => m[t] = storage_[t]
    BY <1>21, <2>1, TakenOut
  <2> QED BY <1>2, <2>2
<1>5. /\ r \in Seq(Slots) /\ IsInjective(r) /\ ToSet(r) = ToSet(q) \ {s}
      /\ Len(r) \in Nat /\ \A i \in 1..Len(r) : r[i] \in Slots /\ r[i] \in ToSet(r)
      /\ At(r, 1) = IF 1 < k THEN At(q, 1) ELSE At(q, 1 + 1)
  <2>1. /\ r \in Seq(Slots) /\ IsInjective(r) /\ ToSet(r) = ToSet(q) \ {s}
        /\ At(r, 1) = IF 1 < k THEN At(q, 1) ELSE At(q, 1 + 1)
    BY <1>2, <1>3, TakenFrom
  <2> QED BY <2>1, SeqFacts
<1>6. /\ Freed(g)'
      /\ storage_' \in [Slots -> Memory] /\ free_list_' \in Pointer
      /\ available_' \in 0..PoolSize
      /\ \A t \in Slots :
           /\ storage_'[t].next_at_price = m[t].next_at_price
           /\ storage_'[t].prev_at_price = m[t].prev_at_price
           /\ storage_'[t].price_level = m[t].price_level
           /\ t # s => storage_'[t] = m[t]
  <2>1. Freed(f) /\ s \in Slots /\ s \notin ToSet(f) /\ m \in [Slots -> Memory]
    BY <1>3, <1>4
  <2>2. \A t \in Slots : m[t].word = storage_[t].word
    BY <1>4
  <2> QED BY <1>22, <2>1, <2>2, Released
<1>7. ToSet(g) = ToSet(f) \cup {s}
  BY <1>3, PutInFront
<1> HIDE DEF g
<1>8. e.head_order = NULL <=> r = <<>>
  <2>1. 1 \in 1..Len(r) <=> r # <<>>
    BY <1>5, SeqFacts
  <2> QED BY <1>4, <1>5, <2>1, SlotFacts DEF At
<1>9. /\ levels \in [Levels -> ListEnds \cup {NULL}] /\ levels'[l] = x /\ e # NULL
      /\ \A j \in Levels : j # l => levels'[j] = levels[j]
  BY <1>4, <1>22, NullAssumption DEF TypeOK
<1>10. \A t \in Slots : storage_'[t].price_level =
                          IF t = s THEN NULL ELSE storage_[t].price_level
  BY <1>4, <1>6
<1>11. Threaded(r, l)'
  <2>1. \A t \in Slots : t \in ToSet(r) <=> storage_'[t].price_level = l
    <3>1. \A t \in Slots : t \in ToSet(q) <=> storage_[t].price_level = l
      BY <1>3 DEF Threaded
    <3> QED BY <1>3, <1>5, <1>10, <3>1
  <2>2. Next_(storage_') = Next_(m) /\ Prev_(storage_') = Prev_(m)
    BY <1>6 DEF Next_, Prev_
  <2>3. x = NULL => r = <<>>
    BY <1>8, <1>9, <1>22
  <2>4. x # NULL => x = e /\ (r # <<>> \/ matching' = l)
    BY <1>8, <1>22
  <2>5. /\ Forward(r, e.head_order, Next_(storage_'))
        /\ Backward(r, e.tail_order, Prev_(storage_'))
    BY <1>4, <2>2
  <2> QED BY <1>5, <1>9, <2>1, <2>3, <2>4, <2>5 DEF Threaded
<1>12. ASSUME NEW j \in Levels, j # l PROVE Threaded(qs[j], j)'
  <2>1. /\ Threaded(qs[j], j) /\ \A t \in ToSet(qs[j]) : t \in Slots /\ t \notin ToSet(q)
    <3>1. Threaded(qs[j], j) /\ qs[j] \in Seq(Slots)
      BY Pieces
    <3>2. /\ ToSet(qs[j]) \subseteq Slots
          /\ \A t \in Slots : t \in ToSet(qs[j]) => storage_[t].price_level = j
          /\ \A t \in Slots : t \in ToSet(q) => storage_[t].price_level = l
      <4>1. ToSet(qs[j]) \subseteq Slots
        BY <3>1, SeqFacts
      <4> QED BY <1>3, <3>1, <4>1 DEF Threaded
    <3> QED BY <1>12, <3>1, <3>2
  <2>2. levels'[j] = levels[j] /\ matching' = matching
    BY <1>9, <1>12, <1>22
  <2>3. levels[j] # NULL => qs[j] # <<>> \/ matching' = j
    BY <2>1, <2>2 DEF Threaded
  <2>4. \A t \in Slots : storage_'[t].price_level = j <=> storage_[t].price_level = j
    <3>1. storage_[s].price_level = l /\ j # NULL
      BY <1>3, NullAssumption DEF Threaded
    <3> QED BY <1>10, <1>12, <3>1
  <2>5. \A t \in ToSet(qs[j]) : storage_'[t] = storage_[t]
    BY <1>3, <1>4, <1>6, <2>1
  <2>6. PICK p : p = qs[j]
    OBVIOUS
  <2>7. Threaded(p, j)'
    BY <2>1, <2>2, <2>3, <2>4, <2>5, <2>6, StillThreaded
  <2> QED BY <2>6, <2>7
<1>13. Layout(g, rs)'
  <2>1. rs \in [Levels -> Seq(Slots)]
    BY <1>3, <1>5
  <2>2. \A j \in Levels : Threaded(rs[j], j)'
    <3>1. \A j \in Levels : rs[j] = IF j = l THEN r ELSE qs[j]
      BY <1>3
    <3> HIDE DEF rs
    <3> QED BY <1>11, <1>12, <3>1
  <2>3. \A t \in Slots : storage_'[t].price_level = NULL <=> t \in ToSet(g) \cup {order'}
    <3>1. \A t \in Slots : storage_[t].price_level = NULL <=> t \in ToSet(f) \cup {order}
      BY DEF Layout
    <3> QED BY <1>7, <1>10, <1>22, <3>1
  <2>4. order' \notin ToSet(g)
    BY <1>3, <1>7, <1>22, Pieces
  <2> HIDE DEF rs
  <2> QED BY <1>6, <2>1, <2>2, <2>3, <2>4 DEF Layout
<1>14. levels' \in [Levels -> ListEnds \cup {NULL}]
  <2>1. x \in ListEnds \cup {NULL}
    BY <1>4, <1>22
  <2> QED BY <1>9, <1>22, <2>1
<1>15. mapped' = {t \in Slots : storage_'[t].price_level # NULL}
  BY <1>3, <1>10, <1>22 DEF Control
<1>16. order # NULL => storage_'[order].word = storage_[order].word
  <2>1. order # NULL => order \in Slots
    BY Pieces
  <2> QED BY <1>3, <1>4, <1>6, <2>1
<1>17. e.head_order = At(q, 2) \/ k # 1
  BY <1>4, <1>5
<1>18. mapped' \subseteq Slots
  BY <1>15
<1> QED BY <1>1, <1>2, <1>21, <1>3, <1>6, <1>9, <1>13, <1>14, <1>15, <1>16, <1>17, <1>18 DEF g, Removed

LEMMA FillStep ==
  ASSUME TypeOK, Control, NEW f, NEW qs, Layout(f, qs), Fill,
         NEW s, s = resting, NEW l, l = matching
  PROVE  /\ TypeOK' /\ Control'
         /\ Layout(InFront(s, f), [qs EXCEPT ![l] = RemoveAt(qs[l], 1)])'
         /\ UNCHANGED order /\ l \in Levels /\ 1 \in 1..Len(qs[l]) /\ qs[l][1] = s
         /\ ToSet(InFront(s, f)) = ToSet(f) \cup {s}
<1>1. /\ s # NULL /\ resting' = storage_[s].next_at_price
      /\ levels' = [levels EXCEPT ![l] = Ends(@, s)]
      /\ mapped' = mapped \ {s} /\ Release(Unthreaded(s), s)
      /\ UNCHANGED <<order, matching>>
  BY DEF Fill
<1>2. /\ l \in Levels /\ levels[l] # NULL /\ order # NULL
      /\ s = levels[l].head_order
  BY <1>1 DEF Control, TypeOK
<1>3. PICK q : q = qs[l]
  OBVIOUS
<1>4. Threaded(q, l) /\ q \in Seq(Slots) /\ s = At(q, 1)
  BY <1>2, <1>3, Pieces DEF Threaded, Forward
<1>5. 1 \in 1..Len(q) /\ q[1] = s
  BY <1>1, <1>4 DEF At
<1>6. PICK e : e = Ends(levels[l], s)
  OBVIOUS
<1>7. Leaves(s, l, e)
  BY <1>1, <1>6 DEF Leaves
<1>8. /\ Layout(InFront(s, f), [qs EXCEPT ![l] = RemoveAt(qs[l], 1)])'
      /\ s \in Slots /\ s \notin ToSet(f)
      /\ storage_' \in [Slots -> Memory] /\ free_list_' \in Pointer
      /\ available_' \in 0..PoolSize
      /\ levels' \in [Levels -> ListEnds \cup {NULL}] /\ mapped' \subseteq Slots
      /\ levels'[l] = e /\ e # NULL
      /\ mapped' = {t \in Slots : storage_'[t].price_level # NULL}
      /\ storage_'[order].word = storage_[order].word
      /\ e.head_order = At(qs[l], 2)
  <2>1. PICK k : k = 1
    OBVIOUS
  <2>2. s = qs[l][k] /\ k \in 1..Len(qs[l])
    BY <1>3, <1>5, <2>1
  <2>3. levels[l] # NULL /\ l \in Levels
    BY <1>2
  <2>4. s \in Slots
    BY <1>4, <1>5, SeqFacts
  <2>5. /\ Layout(InFront(s, f), [qs EXCEPT ![l] = RemoveAt(qs[l], k)])'
        /\ s \in Slots /\ s \notin ToSet(f)
        /\ storage_' \in [Slots -> Memory] /\ free_list_' \in Pointer
        /\ available_' \in 0..PoolSize
        /\ levels' \in [Levels -> ListEnds \cup {NULL}] /\ mapped' \subseteq Slots
        /\ levels'[l] = e /\ Ends(levels[l], s) # NULL
        /\ mapped' = {t \in Slots : storage_'[t].price_level # NULL}
        /\ order # NULL => storage_'[order].word = storage_[order].word
        /\ Ends(levels[l], s).head_order = At(qs[l], 2) \/ k # 1
    <3>1. Removed(f, qs, l, k, s, e)
      BY <1>7, <2>2, <2>3, <2>4, Removal
    <3> QED BY <3>1 DEF Removed
  <2> QED BY <1>2, <1>6, <2>1, <2>5
<1>9. resting' = e.head_order
  <2>1. storage_[q[1]].next_at_price = At(q, 1 + 1)
    BY <1>2, <1>4, <1>5, Neighbours
  <2> QED BY <1>1, <1>3, <1>5, <1>8, <2>1
<1>10. Control'
  <2>1. storage_'[order'].word \in Levels
    BY <1>1, <1>2, <1>8 DEF Control
  <2>2. matching' = l /\ order' # NULL /\ levels'[matching'] = e /\ l # NULL
    BY <1>1, <1>2, <1>8, NullAssumption
  <2> QED BY <1>8, <1>9, <2>1, <2>2 DEF Control
<1>11. TypeOK'
  <2>1. resting' \in Pointer
    <3>1. s \in Slots
      BY <1>4, <1>5, SeqFacts
    <3>2. storage_[s] \in Memory
      BY <3>1, Pieces
    <3> QED BY <1>1, <3>2 DEF Memory
  <2> QED BY <1>1, <1>8, <2>1 DEF TypeOK, Memory
<1>12. ToSet(InFront(s, f)) = ToSet(f) \cup {s}
  BY <1>8, Pieces, PutInFront
<1> QED BY <1>1, <1>2, <1>3, <1>5, <1>8, <1>10, <1>11, <1>12

LEMMA CancelStep ==
  ASSUME TypeOK, Control, NEW f, NEW qs, Layout(f, qs), NEW s \in Slots, Cancel(s)
  PROVE  \E l \in Levels : \E k \in 1..Len(qs[l]) :
           /\ TypeOK' /\ Control'
           /\ Layout(InFront(s, f), [qs EXCEPT ![l] = RemoveAt(qs[l], k)])'
           /\ UNCHANGED order /\ qs[l][k] = s
           /\ ToSet(InFront(s, f)) = ToSet(f) \cup {s}
<1>1. PICK l : l = storage_[s].price_level
  OBVIOUS
<1>2. l \in Levels /\ matching = NULL /\ resting = NULL /\ order = NULL
  <2>1. storage_[s].price_level # NULL /\ order = NULL
    BY DEF Cancel, Control
  <2>2. storage_[s] \in Memory
    BY Pieces
  <2> QED BY <1>1, <2>1, <2>2 DEF Memory, Control
<1>3. PICK e, x : /\ e = Ends(levels[l], s)
                  /\ x = IF e.head_order = NULL THEN NULL ELSE e
  OBVIOUS
<1>4. Leaves(s, l, x) /\ UNCHANGED <<order, matching, resting>>
  <2>1. l # NULL
    BY <1>2, NullAssumption
  <2> QED BY <1>1, <1>3, <2>1 DEF Cancel, Leaves
<1>5. PICK q : q = qs[l]
  OBVIOUS
<1>6. Threaded(q, l) /\ q \in Seq(Slots) /\ s \in ToSet(q)
  BY <1>1, <1>2, <1>5, Pieces
<1>7. PICK k \in 1..Len(q) : q[k] = s
  BY <1>6, SeqFacts
<1>8. levels[l] # NULL
  <2>1. q # <<>>
    BY <1>6, <1>7, SeqFacts
  <2> QED BY <1>6, <2>1 DEF Threaded
<1>9. /\ Layout(InFront(s, f), [qs EXCEPT ![l] = RemoveAt(qs[l], k)])'
      /\ s \in Slots /\ s \notin ToSet(f)
      /\ storage_' \in [Slots -> Memory] /\ free_list_' \in Pointer
      /\ available_' \in 0..PoolSize
      /\ levels' \in [Levels -> ListEnds \cup {NULL}] /\ mapped' \subseteq Slots
      /\ mapped' = {t \in Slots : storage_'[t].price_level # NULL}
  <2>1. s = qs[l][k] /\ k \in 1..Len(qs[l])
    BY <1>5, <1>7
  <2>2. Removed(f, qs, l, k, s, x)
    BY <1>2, <1>4, <1>8, <2>1, Removal
  <2> QED BY <2>2 DEF Removed
<1>10. Control'
  BY <1>2, <1>4, <1>9 DEF Control
<1>11. TypeOK'
  BY <1>2, <1>4, <1>9 DEF TypeOK, Memory, Pointer
<1>12. ToSet(InFront(s, f)) = ToSet(f) \cup {s}
  BY <1>9, Pieces, PutInFront
<1> QED BY <1>2, <1>4, <1>5, <1>7, <1>9, <1>10, <1>11, <1>12

------------------------------------------------------------------------------
(* The invariant of every step.                                            *)

LEMMA NextStep ==
  ASSUME Inv, [Next]_vars
  PROVE  Inv'
<1>1. PICK f, qs : Layout(f, qs)
  BY DEF Inv
<1>2. TypeOK /\ Control
  BY DEF Inv
<1>3. ASSUME NEW l \in Levels, Acquire(l) PROVE Inv'
  <2>1. TypeOK' /\ Control' /\ Layout(Behind(f), qs)'
    BY <1>1, <1>2, <1>3, AcquireStep
  <2> QED BY <2>1 DEF Inv
<1>4. CASE Discard
  <2>1. PICK s : s = order
    OBVIOUS
  <2>2. TypeOK' /\ Control' /\ Layout(InFront(s, f), qs)'
    BY <1>1, <1>2, <1>4, <2>1, DiscardStep
  <2> QED BY <2>2 DEF Inv
<1>5. CASE Rest
  <2>1. PICK s, l : s = order /\ l = storage_[order].word
    OBVIOUS
  <2>2. TypeOK' /\ Control' /\ Layout(f, [qs EXCEPT ![l] = Append(qs[l], s)])'
    BY <1>1, <1>2, <1>5, <2>1, RestStep
  <2> QED BY <2>2 DEF Inv
<1>6. ASSUME NEW l \in Levels, EnterLevel(l) PROVE Inv'
  <2>1. TypeOK' /\ Control' /\ Layout(f, qs)'
    BY <1>1, <1>2, <1>6, EnterStep
  <2> QED BY <2>1 DEF Inv
<1>7. CASE Fill
  <2>1. PICK s, l : s = resting /\ l = matching
    OBVIOUS
  <2>2. /\ TypeOK' /\ Control'
        /\ Layout(InFront(s, f), [qs EXCEPT ![l] = RemoveAt(qs[l], 1)])'
    BY <1>1, <1>2, <1>7, <2>1, FillStep
  <2> QED BY <2>2 DEF Inv
<1>8. CASE LeaveLevel
  <2>1. TypeOK' /\ Control' /\ Layout(f, qs)'
    BY <1>1, <1>2, <1>8, LeaveStep
  <2> QED BY <2>1 DEF Inv
<1>9. ASSUME NEW s \in Slots, Cancel(s) PROVE Inv'
  <2>1. \E l \in Levels : \E k \in 1..Len(qs[l]) :
          /\ TypeOK' /\ Control'
          /\ Layout(InFront(s, f), [qs EXCEPT ![l] = RemoveAt(qs[l], k)])'
    BY <1>1, <1>2, <1>9, CancelStep
  <2> QED BY <2>1 DEF Inv
<1>10. CASE UNCHANGED vars
  <2>1. UNCHANGED <<storage_, free_list_, available_, levels, mapped, order, matching, resting>>
    BY <1>10 DEF vars, poolVars
  <2>2. TypeOK'
    BY <1>2, <2>1 DEF TypeOK
  <2>3. Control'
    BY <1>2, <2>1 DEF Control
  <2>4. Layout(f, qs)'
    <3>1. Freed(f)'
      BY <1>1, <2>1 DEF Layout, Freed, Forward, Word
    <3>2. ASSUME NEW l \in Levels PROVE Threaded(qs[l], l)'
      <4>1. Threaded(qs[l], l)
        BY <1>1 DEF Layout
      <4> QED BY <2>1, <4>1 DEF Threaded, Forward, Backward, Next_, Prev_
    <3> QED BY <1>1, <2>1, <3>1, <3>2 DEF Layout
  <2> QED BY <2>2, <2>3, <2>4 DEF Inv
<1> QED BY <1>3, <1>4, <1>5, <1>6, <1>7, <1>8, <1>9, <1>10 DEF Next

\* The pointers always lead through the sequences of some layout.
THEOREM Invariance == Spec => []Inv
<1>1. Init => Inv
  BY InitSound DEF Inv
<1>2. Inv /\ [Next]_vars => Inv'
  BY NextStep
<1> QED BY <1>1, <1>2, PTL DEF Spec

------------------------------------------------------------------------------
(* What following the pointers finds.                                      *)

LEMMA Found ==
  ASSUME TypeOK, NEW f, NEW qs, Layout(f, qs)
  PROVE  /\ FreeSlots = f
         /\ \A l \in Levels : Queue(l) = qs[l] /\ FromTail(l) = Reverse(qs[l])
<1>1. FreeSlots = f
  <2>1. f \in Seq(Slots) /\ IsInjective(f) /\ Forward(f, free_list_, Word(storage_))
    BY Pieces DEF Freed
  <2>2. Chain(free_list_, Word(storage_)) = f
    BY <2>1, ChainFinds
  <2> QED BY <2>2 DEF FreeSlots, Word
<1>2. ASSUME NEW l \in Levels PROVE Queue(l) = qs[l] /\ FromTail(l) = Reverse(qs[l])
  <2>1. PICK q : q = qs[l]
    OBVIOUS
  <2>2. Threaded(q, l)
    BY <2>1, Pieces
  <2>3. CASE levels[l] = NULL
    <3>1. q = <<>>
      BY <2>2, <2>3 DEF Threaded
    <3>2. Reverse(<<>>) = <<>>
      BY DEF Reverse
    <3> QED BY <2>1, <2>3, <3>1, <3>2 DEF Queue, FromTail
  <2>4. CASE levels[l] # NULL
    <3>1. /\ q \in Seq(Slots) /\ IsInjective(q)
          /\ Forward(q, levels[l].head_order, Next_(storage_))
          /\ Backward(q, levels[l].tail_order, Prev_(storage_))
      BY <2>2, <2>4 DEF Threaded
    <3>2. Chain(levels[l].head_order, Next_(storage_)) = q
      BY <3>1, ChainFinds
    <3>3. Chain(levels[l].tail_order, Prev_(storage_)) = Reverse(q)
      BY <3>1, Reversed
    <3> QED BY <2>1, <2>4, <3>2, <3>3 DEF Queue, FromTail, Next_, Prev_
  <2> QED BY <2>3, <2>4
<1> QED BY <1>1, <1>2

\* Every variable keeps its type.
THEOREM TypeCorrect == Spec => []TypeOK
<1>1. Inv => TypeOK
  BY DEF Inv
<1> QED BY <1>1, Invariance, PTL

LEMMA Partition ==
  ASSUME Inv
  PROVE  SlotsPartitioned
<1>1. PICK f, qs : Layout(f, qs)
  BY DEF Inv
<1>2. TypeOK
  BY DEF Inv
<1>3. FreeSlots = f /\ \A l \in Levels : Queue(l) = qs[l]
  BY <1>1, <1>2, Found
<1> DEFINE lists == {Queue(l) : l \in Levels}
           queued == UNION {ToSet(q) : q \in lists}
<1>4. /\ Len(f) = available_ /\ IsInjective(f) /\ ToSet(f) \subseteq Slots
      /\ order \notin ToSet(f)
      /\ order # NULL => order \in Slots /\ storage_[order].price_level = NULL
      /\ \A s \in Slots : storage_[s].price_level = NULL <=> s \in ToSet(f) \cup {order}
      /\ \A s \in ToSet(f) : storage_[s].price_level = NULL
  BY <1>1, <1>2, Pieces DEF Layout
<1>5. queued = {s \in Slots : storage_[s].price_level # NULL}
  <2>1. ASSUME NEW s, s \in queued
        PROVE  s \in Slots /\ storage_[s].price_level # NULL
    <3>1. PICK l \in Levels : s \in ToSet(qs[l])
      BY <1>3, <2>1
    <3>2. /\ Threaded(qs[l], l)
          /\ \A t \in Slots : t \in ToSet(qs[l]) <=> storage_[t].price_level = l
      BY <1>1, <1>2, Pieces
    <3>3. ToSet(qs[l]) \subseteq Slots
      BY <3>2, SeqFacts DEF Threaded
    <3> QED BY <3>1, <3>2, <3>3, NullAssumption
  <2>2. ASSUME NEW s \in Slots, storage_[s].price_level # NULL
        PROVE  s \in queued
    <3>1. PICK l \in Levels : storage_[s].price_level = l
      BY <1>2, <2>2 DEF TypeOK
    <3>2. s \in ToSet(qs[l])
      BY <1>1, <1>2, <3>1, Pieces
    <3> QED BY <1>3, <3>2
  <2> HIDE DEF queued
  <2> QED BY <2>1, <2>2
<1>6. ToSet(f) \cap queued = {}
  <2> HIDE DEF queued
  <2> QED BY <1>4, <1>5
<1>7. order \notin ToSet(f) \cup queued
  <2> HIDE DEF queued
  <2> QED BY <1>4, <1>5, SlotFacts
<1>8. ToSet(f) \cup queued \cup ({order} \ {NULL}) = Slots
  <2> HIDE DEF queued
  <2>1. queued \subseteq Slots /\ {order} \ {NULL} \subseteq Slots
    BY <1>4, <1>5
  <2>2. ASSUME NEW s \in Slots PROVE s \in ToSet(f) \cup queued \cup ({order} \ {NULL})
    BY <1>4, <1>5, SlotFacts
  <2> QED BY <1>4, <2>1, <2>2
<1>9. queued = UNION {ToSet(q) : q \in {Queue(l) : l \in Levels}}
  OBVIOUS
<1> HIDE DEF queued, lists
<1> QED BY <1>3, <1>4, <1>6, <1>7, <1>8, <1>9 DEF SlotsPartitioned

\* The free list and the lists of the levels, all threaded through the same memory,
\* never run into each other and lose no slot; available() is right, and acquire fails
\* only when every slot is in use (arena.hpp:141-163).
THEOREM PoolPartitioned == Spec => []SlotsPartitioned
BY Invariance, Partition, PTL

LEMMA Threading ==
  ASSUME Inv
  PROVE  ListsThreaded
<1>1. PICK f, qs : Layout(f, qs)
  BY DEF Inv
<1>2. TypeOK /\ Control
  BY DEF Inv
<1>3. ASSUME NEW l \in Levels
      PROVE  /\ IsInjective(Queue(l)) /\ FromTail(l) = Reverse(Queue(l))
             /\ ToSet(Queue(l)) = {s \in Slots : storage_[s].price_level = l}
             /\ levels[l] # NULL => Queue(l) # <<>> \/ matching = l
  <2>1. Queue(l) = qs[l] /\ FromTail(l) = Reverse(qs[l])
    BY <1>1, <1>2, Found
  <2>2. Threaded(qs[l], l)
    BY <1>1, <1>2, Pieces
  <2>3. ToSet(qs[l]) \subseteq Slots
    BY <2>2, SeqFacts DEF Threaded
  <2>4. ToSet(qs[l]) = {s \in Slots : storage_[s].price_level = l}
    BY <2>2, <2>3 DEF Threaded
  <2> QED BY <2>1, <2>2, <2>4 DEF Threaded
<1> QED BY <1>2, <1>3 DEF ListsThreaded, Control

\* Each list of a level reads the same in both directions, holds the orders that point
\* to the level and no others, and cancel_order finds an order by the map exactly if it
\* is in a list (orderbook.hpp:80-115).
THEOREM ListsSound == Spec => []ListsThreaded
BY Invariance, Threading, PTL

\* match_order's cursor, read from an order before that order was released, is always
\* the head of what is left of its level (orderbook.cpp:244-249).
THEOREM CursorSound == Spec => []CursorAtHead
<1>1. Inv => CursorAtHead
  BY DEF Inv, Control, CursorAtHead
<1> QED BY <1>1, Invariance, PTL

------------------------------------------------------------------------------
(* The promise of LevelQueues, step by step.                               *)

\* What the promise sees of a layout.
LEMMA Shows ==
  ASSUME NEW f, NEW qs
  PROVE  TypeOK /\ Layout(f, qs) =>
           [l \in Levels |-> Queue(l)] = qs /\ ToSet(FreeSlots) = ToSet(f)
<1> SUFFICES ASSUME TypeOK, Layout(f, qs)
             PROVE  [l \in Levels |-> Queue(l)] = qs /\ ToSet(FreeSlots) = ToSet(f)
  OBVIOUS
<1>1. qs \in [Levels -> Seq(Slots)]
  BY Pieces
<1> QED BY <1>1, Found

LEMMA ShowsNext ==
  ASSUME NEW f, NEW qs
  PROVE  (TypeOK /\ Layout(f, qs) =>
            [l \in Levels |-> Queue(l)] = qs /\ ToSet(FreeSlots) = ToSet(f))'
BY Shows, PTL

\* A step between two layouts, as the promise sees it.
LEMMA Seen ==
  ASSUME TypeOK, TypeOK', NEW f, NEW qs, Layout(f, qs), NEW g, NEW rs, Layout(g, rs)'
  PROVE  /\ [l \in Levels |-> Queue(l)] = qs /\ ToSet(FreeSlots) = ToSet(f)
         /\ [l \in Levels |-> Queue(l)]' = rs /\ ToSet(FreeSlots)' = ToSet(g)
BY Shows, ShowsNext

LEMMA Withdrawal ==
  ASSUME TypeOK, TypeOK', NEW f, NEW qs, Layout(f, qs), NEW s,
         NEW l \in Levels, NEW k \in 1..Len(qs[l]), qs[l][k] = s,
         Layout(InFront(s, f), [qs EXCEPT ![l] = RemoveAt(qs[l], k)])',
         ToSet(InFront(s, f)) = ToSet(f) \cup {s}, UNCHANGED order
  PROVE  Promise!Next
<1>1. PICK g, rs : g = InFront(s, f) /\ rs = [qs EXCEPT ![l] = RemoveAt(qs[l], k)]
  OBVIOUS
<1>2. /\ [j \in Levels |-> Queue(j)] = qs /\ ToSet(FreeSlots) = ToSet(f)
      /\ [j \in Levels |-> Queue(j)]' = rs /\ ToSet(FreeSlots)' = ToSet(g)
  BY <1>1, Seen
<1>3. RemoveAt(qs[l], k) = SubSeq(qs[l], 1, k - 1) \o SubSeq(qs[l], k + 1, Len(qs[l]))
  BY DEF RemoveAt
<1>4. Queue(l) = qs[l]
  BY <1>2
<1>5. Promise!Withdraw(l, k)
  BY <1>1, <1>2, <1>3 DEF Promise!Withdraw
<1> QED BY <1>4, <1>5 DEF Promise!Next

LEMMA PromisedStep ==
  ASSUME Inv, Inv', [Next]_vars
  PROVE  [Promise!Next]_(Promise!vars)
<1>1. PICK f, qs : Layout(f, qs)
  BY DEF Inv
<1>2. TypeOK /\ Control /\ TypeOK'
  BY DEF Inv
<1>3. ASSUME NEW l \in Levels, Acquire(l) PROVE Promise!Next
  <2>1. PICK s, g : s = free_list_ /\ g = Behind(f)
    OBVIOUS
  <2>2. /\ Layout(g, qs)' /\ order = NULL /\ order' = s
        /\ s \in ToSet(f) /\ ToSet(g) = ToSet(f) \ {s}
    BY <1>1, <1>2, <1>3, <2>1, AcquireStep
  <2>3. /\ [j \in Levels |-> Queue(j)] = qs /\ ToSet(FreeSlots) = ToSet(f)
        /\ [j \in Levels |-> Queue(j)]' = qs /\ ToSet(FreeSlots)' = ToSet(g)
    BY <1>1, <1>2, <2>2, Seen
  <2>4. Promise!Acquire(s)
    BY <2>2, <2>3 DEF Promise!Acquire
  <2>5. s \in Slots
    BY <1>1, <1>2, <2>2, Pieces
  <2> QED BY <2>4, <2>5 DEF Promise!Next
<1>4. ASSUME Discard PROVE Promise!Next
  <2>1. PICK s : s = order
    OBVIOUS
  <2>2. PICK g : g = InFront(s, f)
    OBVIOUS
  <2>3. /\ Layout(g, qs)' /\ s # NULL /\ order' = NULL
        /\ ToSet(g) = ToSet(f) \cup {s}
    BY <1>1, <1>2, <1>4, <2>1, <2>2, DiscardStep
  <2>4. /\ [j \in Levels |-> Queue(j)] = qs /\ ToSet(FreeSlots) = ToSet(f)
        /\ [j \in Levels |-> Queue(j)]' = qs /\ ToSet(FreeSlots)' = ToSet(g)
    BY <1>1, <1>2, <2>3, Seen
  <2>5. Promise!GiveBack
    BY <2>1, <2>3, <2>4 DEF Promise!GiveBack
  <2> QED BY <2>5 DEF Promise!Next
<1>5. ASSUME Rest PROVE Promise!Next
  <2>1. PICK s, l : s = order /\ l = storage_[order].word
    OBVIOUS
  <2>2. PICK rs : rs = [qs EXCEPT ![l] = Append(qs[l], s)]
    OBVIOUS
  <2>3. Layout(f, rs)' /\ s # NULL /\ order' = NULL /\ l \in Levels
    BY <1>1, <1>2, <1>5, <2>1, <2>2, RestStep
  <2>4. /\ [j \in Levels |-> Queue(j)] = qs /\ ToSet(FreeSlots) = ToSet(f)
        /\ [j \in Levels |-> Queue(j)]' = rs /\ ToSet(FreeSlots)' = ToSet(f)
    BY <1>1, <1>2, <2>3, Seen
  <2>5. Promise!Enqueue(l)
    BY <2>1, <2>2, <2>3, <2>4 DEF Promise!Enqueue
  <2> QED BY <2>3, <2>5 DEF Promise!Next
<1>6. ASSUME Layout(f, qs)', UNCHANGED order PROVE UNCHANGED Promise!vars
  <2>1. /\ [j \in Levels |-> Queue(j)] = qs /\ ToSet(FreeSlots) = ToSet(f)
        /\ [j \in Levels |-> Queue(j)]' = qs /\ ToSet(FreeSlots)' = ToSet(f)
    BY <1>1, <1>2, <1>6, Seen
  <2> QED BY <1>6, <2>1 DEF Promise!vars
<1>7. ASSUME NEW l \in Levels, EnterLevel(l) PROVE UNCHANGED Promise!vars
  BY <1>1, <1>2, <1>6, <1>7, EnterStep
<1>8. ASSUME Fill PROVE Promise!Next
  <2>1. PICK s, l, k : s = resting /\ l = matching /\ k = 1
    OBVIOUS
  <2>2. /\ Layout(InFront(s, f), [qs EXCEPT ![l] = RemoveAt(qs[l], k)])'
        /\ UNCHANGED order /\ l \in Levels /\ k \in 1..Len(qs[l]) /\ qs[l][k] = s
        /\ ToSet(InFront(s, f)) = ToSet(f) \cup {s}
    BY <1>1, <1>2, <1>8, <2>1, FillStep
  <2> QED BY <1>1, <1>2, <2>2, Withdrawal
<1>9. ASSUME LeaveLevel PROVE UNCHANGED Promise!vars
  BY <1>1, <1>2, <1>6, <1>9, LeaveStep
<1>10. ASSUME NEW s \in Slots, Cancel(s) PROVE Promise!Next
  <2>1. PICK l \in Levels : \E k \in 1..Len(qs[l]) :
          /\ Layout(InFront(s, f), [qs EXCEPT ![l] = RemoveAt(qs[l], k)])'
          /\ UNCHANGED order /\ qs[l][k] = s
          /\ ToSet(InFront(s, f)) = ToSet(f) \cup {s}
    BY <1>1, <1>2, <1>10, CancelStep
  <2>2. PICK k \in 1..Len(qs[l]) :
          /\ Layout(InFront(s, f), [qs EXCEPT ![l] = RemoveAt(qs[l], k)])'
          /\ UNCHANGED order /\ qs[l][k] = s
          /\ ToSet(InFront(s, f)) = ToSet(f) \cup {s}
    BY <2>1
  <2> QED BY <1>1, <1>2, <2>2, Withdrawal
<1>11. ASSUME UNCHANGED vars PROVE UNCHANGED Promise!vars
  <2>1. UNCHANGED <<storage_, free_list_, available_, levels, order>>
    BY <1>11 DEF vars, poolVars
  <2> QED BY <2>1 DEF Promise!vars, Queue, FreeSlots
<1> QED BY <1>3, <1>4, <1>5, <1>7, <1>8, <1>9, <1>10, <1>11 DEF Next

LEMMA PromisedInit ==
  ASSUME Init
  PROVE  Promise!Init
<1>1. PICK f, qs : f = [i \in 1..PoolSize |-> i] /\ qs = [l \in Levels |-> <<>>]
  OBVIOUS
<1>2. TypeOK /\ Layout(f, qs)
  BY <1>1, InitSound
<1>3. [l \in Levels |-> Queue(l)] = qs /\ ToSet(FreeSlots) = ToSet(f)
  BY <1>2, Shows
<1>4. ToSet(f) = Slots
  BY <1>1 DEF ToSet, Slots
<1>5. order = NULL
  BY DEF Init
<1> QED BY <1>1, <1>3, <1>4, <1>5 DEF Promise!Init

\* Pool and lists, threaded through one memory, are first-in first-out queues from
\* whose middle an order may be withdrawn, and an order that is handed out is nowhere
\* else until it is given back (arena.hpp:141-163, orderbook.hpp:62-115).
THEOREM PoolKeepsPromise == Spec => ImplementsLevelQueues
<1>1. Init => Promise!Init
  BY PromisedInit
<1>2. Inv /\ Inv' /\ [Next]_vars => [Promise!Next]_(Promise!vars)
  BY PromisedStep
<1> QED BY <1>1, <1>2, Invariance, PTL DEF Spec, ImplementsLevelQueues, Promise!Spec
==============================================================================

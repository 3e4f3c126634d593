--------------------------- MODULE OrderBook_proofs ---------------------------
(***************************************************************************)
(* The matching engine, for every set of ids, prices and quantities, every *)
(* size of the pools and of the map and every hash function, as long as no *)
(* removal from the order map cuts a chain of FlatHashMap (what happens    *)
(* otherwise is shown by OrderBook_collide).                               *)
(***************************************************************************)
EXTENDS OrderBook, RingArithmetic, FiniteSetTheorems, SequenceTheorems,
        WellFoundedInduction, TLAPS

P == INSTANCE FlatHashMap_proofs WITH
       entries_ <- order_map_, size_ <- map_size,
       Keys <- Ids, Values <- Slots, Removable <- Ids, Capacity <- MapSize

\* No call of order_map_.remove breaks a chain (orderbook.hpp:226).
CutsNone == \A id \in Ids : Map!Remove(id) => P!CutsNothing(id)
NoCut == [][CutsNone]_vars

------------------------------------------------------------------------------
(* The invariant.                                                          *)

Distinct(seq) == \A i, j \in DOMAIN seq : seq[i] = seq[j] => i = j
Precedes(seq, x, y) == \E i, j \in DOMAIN seq : i < j /\ seq[i] = x /\ seq[j] = y

\* A level is not empty, holds no order twice, and counts its orders.
QueuesFilled ==
  \A k \in LevelKeys :
    /\ Queue(k) # <<>> /\ Distinct(Queue(k))
    /\ levels[k[1]][k[2]].order_count = Len(Queue(k))

\* An order in a level points to it.
Placed ==
  \A k \in LevelKeys : \A s \in Elements(Queue(k)) :
    /\ orders[s].id \in Ids /\ orders[s].resting
    /\ orders[s].side = k[1] /\ orders[s].price = k[2]

\* The orders of the book arrived one after the other, and each level is in that order.
Arrived ==
  /\ Distinct(arrivals) /\ Elements(arrivals) = Queued
  /\ \A k \in LevelKeys : \A x, y \in Slots :
       Precedes(Queue(k), x, y) => Precedes(arrivals, x, y)

\* What is free is not in the book; until the book is cleared, all the rest is.
Apart ==
  /\ Distinct(free_list_)
  /\ Elements(free_list_) \cap (Queued \cup InFlight) = {}
  /\ Queued \cap InFlight = {}
AllUsed == clears = 0 => Slots \subseteq Elements(free_list_) \cup Queued \cup InFlight
LevelsCounted ==
  /\ IsFiniteSet(LevelKeys)
  /\ level_available + Cardinality(LevelKeys) <= MaxLevels
  /\ clears = 0 => level_available + Cardinality(LevelKeys) = MaxLevels

MapSound == P!TypeOK /\ P!AllReached /\ MapAgrees

Uncrossed == \A p \in LevelPrices("Buy"), q \in LevelPrices("Sell") : p < q

\* The order being added is not in the book yet, and its id is not live.
TakerSound ==
  order # NULL =>
    /\ orders[order].id \in Ids /\ ~Live(orders[order].id)
    /\ orders[order].price \in Prices /\ ~orders[order].resting

\* Where the running call is, by what it has traded: an order that has traded and
\* has quantity left goes on with its level or has emptied it.
Control ==
  /\ pc \in {"idle", "readmit"} => trades = <<>>
  /\ pc = "match" =>
       \/ trades = <<>> \/ orders[order].quantity = 0
       \/ level_available > 0 \/ Reaches(orders[order])
  /\ pc = "rest" =>
       /\ ~Reaches(orders[order])
       /\ trades = <<>> \/ (orders[order].quantity > 0 /\ level_available > 0)

BookSound == QueuesFilled /\ Placed /\ Arrived /\ Apart /\ AllUsed /\ LevelsCounted
Inv == TypeOK /\ BookSound /\ MapSound /\ Uncrossed /\ TakerSound /\ Control
       /\ ModifyReadmits

------------------------------------------------------------------------------
(* Sequences.                                                              *)

LEMMA SeqFacts ==
  ASSUME NEW S, NEW seq \in Seq(S)
  PROVE  /\ Len(seq) \in Nat /\ DOMAIN seq = 1..Len(seq)
         /\ \A i \in DOMAIN seq : seq[i] \in S /\ i \in Nat /\ i >= 1 /\ i <= Len(seq)
         /\ Elements(seq) \subseteq S
         /\ (seq = <<>> <=> Len(seq) = 0)
<1>1. Len(seq) \in Nat /\ DOMAIN seq = 1..Len(seq)
  BY LenProperties
<1>2. \A i \in DOMAIN seq : seq[i] \in S /\ i \in Nat /\ i >= 1 /\ i <= Len(seq)
  BY <1>1, ElementOfSeq
<1>3. seq = <<>> <=> Len(seq) = 0
  BY <1>1, EmptySeq
<1> QED BY <1>1, <1>2, <1>3 DEF Elements

\* remove_order takes out one order and leaves the others in their order.
LEMMA RemovedAt ==
  ASSUME NEW S, NEW seq \in Seq(S), NEW n \in DOMAIN seq
  PROVE  /\ RemoveAt(seq, n) \in Seq(S)
         /\ Len(RemoveAt(seq, n)) = Len(seq) - 1
         /\ \A j \in 1..Len(seq) - 1 :
              RemoveAt(seq, n)[j] = seq[IF j < n THEN j ELSE j + 1]
<1> DEFINE l == Len(seq)
           front == SubSeq(seq, 1, n - 1)
           back == SubSeq(seq, n + 1, l)
<1>1. n \in 1..l /\ l \in Nat /\ \A i \in 1..l : seq[i] \in S
  BY SeqFacts
<1>2. /\ front \in Seq(S) /\ Len(front) = n - 1
      /\ \A j \in 1..n - 1 : front[j] = seq[j]
  <2>1. 1 \in Int /\ n - 1 \in Int /\ \A i \in 1..n - 1 : seq[i] \in S
    BY <1>1
  <2>2. /\ front \in Seq(S) /\ Len(front) = IF 1 <= n - 1 THEN (n - 1) - 1 + 1 ELSE 0
        /\ \A j \in 1..(n - 1) - 1 + 1 : front[j] = seq[1 + j - 1]
    BY <2>1, SubSeqProperties
  <2> HIDE DEF front
  <2>3. (n - 1) - 1 + 1 = n - 1 /\ \A j \in 1..n - 1 : 1 + j - 1 = j
    BY <1>1
  <2>4. Len(front) = n - 1
    BY <1>1, <2>2
  <2> QED BY <2>2, <2>3, <2>4
<1>3. /\ back \in Seq(S) /\ Len(back) = l - n
      /\ \A j \in 1..l - n : back[j] = seq[n + j]
  <2>1. n + 1 \in Int /\ l \in Int /\ \A i \in n + 1..l : seq[i] \in S
    BY <1>1
  <2>2. /\ back \in Seq(S) /\ Len(back) = IF n + 1 <= l THEN l - (n + 1) + 1 ELSE 0
        /\ \A j \in 1..l - (n + 1) + 1 : back[j] = seq[(n + 1) + j - 1]
    BY <2>1, SubSeqProperties
  <2> HIDE DEF back
  <2>3. l - (n + 1) + 1 = l - n /\ \A j \in 1..l - n : (n + 1) + j - 1 = n + j
    BY <1>1
  <2>4. Len(back) = l - n
    BY <1>1, <2>2
  <2> QED BY <2>2, <2>3, <2>4
<1> HIDE DEF front, back
<1>4. /\ front \o back \in Seq(S)
      /\ Len(front \o back) = Len(front) + Len(back)
      /\ \A j \in 1..Len(front) + Len(back) : (front \o back)[j] =
           IF j <= Len(front) THEN front[j] ELSE back[j - Len(front)]
  BY <1>2, <1>3, ConcatProperties
<1>5. Len(front) + Len(back) = l - 1
  BY <1>1, <1>2, <1>3
<1>6. ASSUME NEW j \in 1..l - 1
      PROVE  (front \o back)[j] = seq[IF j < n THEN j ELSE j + 1]
  <2>1. CASE j < n
    <3>1. j \in 1..n - 1 /\ j <= Len(front)
      BY <1>1, <1>2, <2>1
    <3> QED BY <1>2, <1>4, <1>5, <2>1, <3>1
  <2>2. CASE ~(j < n)
    <3>1. ~(j <= n - 1) /\ j - (n - 1) \in 1..l - n /\ n + (j - (n - 1)) = j + 1
      BY <1>1, <2>2
    <3>2. (front \o back)[j] = back[j - (n - 1)]
      BY <1>2, <1>4, <1>5, <3>1
    <3>3. back[j - (n - 1)] = seq[n + (j - (n - 1))]
      BY <1>3, <3>1
    <3> QED BY <2>2, <3>1, <3>2, <3>3
  <2> QED BY <2>1, <2>2
<1> QED BY <1>4, <1>5, <1>6 DEF RemoveAt, front, back

LEMMA RemoveFirstIsAt ==
  ASSUME NEW S, NEW seq \in Seq(S), Distinct(seq), NEW n \in DOMAIN seq
  PROVE  RemoveFirst(seq, seq[n]) = RemoveAt(seq, n)
<1>1. n \in 1..Len(seq) /\ n \in Nat
  BY SeqFacts
<1>2. {i \in 1..Len(seq) : seq[i] = seq[n]} = {n}
  BY <1>1, SeqFacts DEF Distinct
<1>3. Min({n}) = n
  BY <1>1 DEF Min
<1> QED BY <1>1, <1>2, <1>3 DEF RemoveFirst, SelectInSeq

LEMMA Removed ==
  ASSUME NEW S, NEW seq \in Seq(S), Distinct(seq), NEW e \in Elements(seq)
  PROVE  LET new == RemoveFirst(seq, e) IN
         /\ new \in Seq(S) /\ Len(new) = Len(seq) - 1 /\ Distinct(new)
         /\ Elements(new) = Elements(seq) \ {e}
         /\ \A x, y \in S :
              Precedes(new, x, y) <=> Precedes(seq, x, y) /\ x # e /\ y # e
<1> DEFINE new == RemoveFirst(seq, e)
<1>1. PICK n \in DOMAIN seq : seq[n] = e
  BY DEF Elements
<1>2. new = RemoveAt(seq, n)
  BY <1>1, RemoveFirstIsAt
<1> DEFINE l == Len(seq)
<1>3. l \in Nat /\ n \in 1..l /\ DOMAIN seq = 1..l
  BY SeqFacts
<1>4. /\ new \in Seq(S) /\ Len(new) = l - 1
      /\ \A j \in 1..l - 1 : new[j] = seq[IF j < n THEN j ELSE j + 1]
  BY <1>2, RemovedAt
<1>5. DOMAIN new = 1..l - 1
  BY <1>4, LenProperties
<1> HIDE DEF new, l
<1>6. \A j \in 1..l - 1 : \E i \in 1..l :
        i # n /\ new[j] = seq[i] /\ (i = IF j < n THEN j ELSE j + 1)
  BY <1>3, <1>4
<1>7. \A i \in 1..l : i # n => \E j \in 1..l - 1 :
        new[j] = seq[i] /\ (i = IF j < n THEN j ELSE j + 1)
  <2> SUFFICES ASSUME NEW i \in 1..l, i # n
               PROVE  \E j \in 1..l - 1 : new[j] = seq[i]
                        /\ (i = IF j < n THEN j ELSE j + 1)
    OBVIOUS
  <2>1. CASE i < n
    <3>1. i \in 1..l - 1
      BY <1>3, <2>1
    <3> QED BY <1>4, <2>1, <3>1
  <2>2. CASE ~(i < n)
    <3>1. i - 1 \in 1..l - 1 /\ ~(i - 1 < n) /\ (i - 1) + 1 = i
      BY <1>3, <2>2
    <3> QED BY <1>4, <3>1
  <2> QED BY <2>1, <2>2
<1>8. Distinct(new)
  <2> SUFFICES ASSUME NEW i \in 1..l - 1, NEW j \in 1..l - 1, new[i] = new[j]
               PROVE  i = j
    BY <1>5 DEF Distinct
  <2>1. PICK a \in 1..l : new[i] = seq[a] /\ (a = IF i < n THEN i ELSE i + 1)
    BY <1>6
  <2>2. PICK b \in 1..l : new[j] = seq[b] /\ (b = IF j < n THEN j ELSE j + 1)
    BY <1>6
  <2>3. a = b
    BY <1>3, <2>1, <2>2 DEF Distinct
  <2> QED BY <1>3, <2>1, <2>2, <2>3
<1>9. Elements(new) = Elements(seq) \ {e}
  <2>1. ASSUME NEW x \in Elements(new) PROVE x \in Elements(seq) \ {e}
    <3>1. PICK j \in 1..l - 1 : x = new[j]
      BY <1>5 DEF Elements
    <3>2. PICK i \in 1..l : i # n /\ x = seq[i]
      BY <1>6, <3>1
    <3> QED BY <1>1, <1>3, <3>2 DEF Elements, Distinct
  <2>2. ASSUME NEW x \in Elements(seq) \ {e} PROVE x \in Elements(new)
    <3>1. PICK i \in 1..l : x = seq[i]
      BY <1>3 DEF Elements
    <3>2. i # n
      BY <1>1, <3>1
    <3> QED BY <1>5, <1>7, <3>1, <3>2 DEF Elements
  <2> QED BY <2>1, <2>2
<1>10. ASSUME NEW x \in S, NEW y \in S
       PROVE  Precedes(new, x, y) <=> Precedes(seq, x, y) /\ x # e /\ y # e
  <2>1. ASSUME Precedes(new, x, y) PROVE Precedes(seq, x, y) /\ x # e /\ y # e
    <3>1. PICK i, j \in 1..l - 1 : i < j /\ new[i] = x /\ new[j] = y
      BY <1>5, <2>1 DEF Precedes
    <3>2. PICK a \in 1..l : a # n /\ x = seq[a] /\ (a = IF i < n THEN i ELSE i + 1)
      BY <1>6, <3>1
    <3>3. PICK b \in 1..l : b # n /\ y = seq[b] /\ (b = IF j < n THEN j ELSE j + 1)
      BY <1>6, <3>1
    <3>4. a < b
      BY <1>3, <3>1, <3>2, <3>3
    <3> QED BY <1>1, <1>3, <3>2, <3>3, <3>4 DEF Precedes, Distinct
  <2>2. ASSUME Precedes(seq, x, y), x # e, y # e PROVE Precedes(new, x, y)
    <3>1. PICK a, b \in 1..l : a < b /\ seq[a] = x /\ seq[b] = y
      BY <1>3, <2>2 DEF Precedes
    <3>2. a # n /\ b # n
      BY <1>1, <2>2, <3>1
    <3>3. PICK i \in 1..l - 1 : new[i] = x /\ (a = IF i < n THEN i ELSE i + 1)
      BY <1>7, <3>1, <3>2
    <3>4. PICK j \in 1..l - 1 : new[j] = y /\ (b = IF j < n THEN j ELSE j + 1)
      BY <1>7, <3>1, <3>2
    <3>5. i < j
      BY <1>3, <3>1, <3>3, <3>4
    <3> QED BY <1>5, <3>3, <3>4, <3>5 DEF Precedes
  <2> QED BY <2>1, <2>2
<1> QED BY <1>4, <1>8, <1>9, <1>10 DEF new, l

\* add_order links an order behind the others.
LEMMA Appended ==
  ASSUME NEW S, NEW seq \in Seq(S), Distinct(seq), NEW e \in S, e \notin Elements(seq)
  PROVE  LET new == Append(seq, e) IN
         /\ new \in Seq(S) /\ Len(new) = Len(seq) + 1 /\ new # <<>> /\ Distinct(new)
         /\ Elements(new) = Elements(seq) \cup {e}
         /\ \A x, y \in S :
              Precedes(new, x, y) <=> Precedes(seq, x, y) \/ (x \in Elements(seq) /\ y = e)
<1> DEFINE new == Append(seq, e)
           l == Len(seq)
<1>1. l \in Nat /\ DOMAIN seq = 1..l
  BY SeqFacts
<1>2. /\ new \in Seq(S) /\ Len(new) = l + 1 /\ new # <<>>
      /\ \A i \in 1..l : new[i] = seq[i]
      /\ new[l + 1] = e
  BY AppendProperties
<1>3. DOMAIN new = 1..l + 1
  BY <1>2, LenProperties
<1> HIDE DEF new, l
<1>4. \A i \in 1..l + 1 : (i \in 1..l /\ new[i] = seq[i]) \/ (i = l + 1 /\ new[i] = e)
  BY <1>1, <1>2
<1>5. 1..l \subseteq 1..l + 1 /\ l + 1 \in 1..l + 1 /\ \A i \in 1..l : i < l + 1
  BY <1>1
<1>6. \A i \in 1..l : seq[i] # e
  BY <1>1 DEF Elements
<1>7. Distinct(new)
  BY <1>1, <1>3, <1>4, <1>6 DEF Distinct
<1>8. Elements(new) = Elements(seq) \cup {e}
  <2>1. \A x \in Elements(new) : x \in Elements(seq) \cup {e}
    BY <1>1, <1>3, <1>4 DEF Elements
  <2>2. \A x \in Elements(seq) : x \in Elements(new)
    BY <1>1, <1>2, <1>3, <1>5 DEF Elements
  <2>3. e \in Elements(new)
    BY <1>2, <1>3, <1>5 DEF Elements
  <2> QED BY <2>1, <2>2, <2>3
<1>9. ASSUME NEW x \in S, NEW y \in S
      PROVE  Precedes(new, x, y) <=> Precedes(seq, x, y) \/ (x \in Elements(seq) /\ y = e)
  <2>1. ASSUME Precedes(new, x, y)
        PROVE  Precedes(seq, x, y) \/ (x \in Elements(seq) /\ y = e)
    <3>1. PICK i, j \in 1..l + 1 : i < j /\ new[i] = x /\ new[j] = y
      BY <1>3, <2>1 DEF Precedes
    <3>2. i \in 1..l /\ seq[i] = x
      BY <1>1, <1>4, <3>1
    <3> QED BY <1>1, <1>4, <3>1, <3>2 DEF Precedes, Elements
  <2>2. ASSUME Precedes(seq, x, y) PROVE Precedes(new, x, y)
    BY <1>1, <1>2, <1>3, <1>5, <2>2 DEF Precedes
  <2>3. ASSUME x \in Elements(seq), y = e PROVE Precedes(new, x, y)
    BY <1>1, <1>2, <1>3, <1>5, <2>3 DEF Precedes, Elements
  <2> QED BY <2>1, <2>2, <2>3
<1> QED BY <1>2, <1>7, <1>8, <1>9 DEF new, l

------------------------------------------------------------------------------
(* The order map: what a dictionary does, as long as no chain is cut.      *)

LEMMA MapFits == P!CapacityAssumption /\ P!HashAssumption /\ P!SentinelAssumption
<1>1. MapSize \in Nat \ {0} /\ Hash \in [Ids -> Nat]
  BY MapAssumption, PoolAssumption
<1>2. NULL \notin Slots /\ Vacant \notin [key : Ids, value : Slots]
  BY SentinelAssumption DEF Map!Entry
<1> QED BY <1>1, <1>2
        DEF P!CapacityAssumption, P!HashAssumption, P!SentinelAssumption, P!Entry

LEMMA SameMap ==
  /\ Map!Init <=> P!Init
  /\ \A id : Map!Find(id) = P!Find(id)
  /\ \A id, slot : Map!Insert(id, slot) <=> P!Insert(id, slot)
  /\ \A id : Map!Remove(id) <=> P!Remove(id)
  /\ Map!Clear <=> P!Clear
BY DEF Map!Init, P!Init, Map!Find, P!Find, Map!Insert, P!Insert, Map!Remove, P!Remove,
       Map!Clear, P!Clear, Map!Meets, P!Meets, Map!Stops, P!Stops, Map!Passes, P!Passes,
       Map!Bucket, P!Bucket, Map!Buckets, P!Buckets, Map!Found, P!Found,
       Map!StopBucket, P!StopBucket, Map!vars, P!vars

LEMMA SameMapNext == \A id : Map!Find(id)' = P!Find(id)'
BY DEF Map!Find, P!Find, Map!Meets, P!Meets, Map!Stops, P!Stops, Map!Passes, P!Passes,
       Map!Bucket, P!Bucket, Map!Buckets, P!Buckets

LEMMA FindType ==
  ASSUME P!TypeOK, P!AllReached
  PROVE  \A id \in Ids : Map!Find(id) \in Slots \cup {NULL}
BY SameMap, MapFits, P!ReachedAll, P!Answering DEF P!FindsStored

LEMMA FoundIsLive ==
  ASSUME P!TypeOK, P!AllReached, NEW id \in Ids
  PROVE  P!Found(id) <=> Live(id)
<1>1. CASE P!Found(id)
  <2>1. P!Find(id) = order_map_[P!StopBucket(id)].value
        /\ order_map_[P!StopBucket(id)] # Vacant /\ P!StopBucket(id) \in P!Buckets
    BY <1>1, MapFits, P!FoundStops, P!WhereItStops
  <2>2. order_map_[P!StopBucket(id)].value \in Slots
    BY <2>1 DEF P!TypeOK, P!Entry
  <2> QED BY <1>1, <2>1, <2>2, SameMap, SentinelAssumption DEF Live
<1>2. CASE ~P!Found(id)
  BY <1>2, SameMap DEF P!Found, P!Find, Live
<1> QED BY <1>1, <1>2

LEMMA MapSense == P!TypeOK /\ P!AllReached => P!EveryEntryFound /\ P!FindsStored
BY MapFits, P!ReachedAll, P!Answering

LEMMA MapSenseNext ==
  P!TypeOK' /\ P!AllReached' => P!EveryEntryFound' /\ P!FindsStored'
BY MapSense, PTL

\* The four ways a call leaves the order map, as its client sees them.
MapKept ==
  /\ P!TypeOK' /\ P!AllReached' /\ map_size' = map_size
  /\ \A id \in Ids : Map!Find(id)' = Map!Find(id)
MapAdded(key, slot) ==
  /\ P!TypeOK' /\ P!AllReached' /\ map_size' = map_size + 1
  /\ \A id \in Ids : Map!Find(id)' = IF id = key THEN slot ELSE Map!Find(id)
MapRemoved(key) ==
  /\ P!TypeOK' /\ P!AllReached' /\ map_size' = map_size - 1
  /\ \A id \in Ids : Map!Find(id)' = IF id = key THEN NULL ELSE Map!Find(id)
MapEmptied ==
  /\ P!TypeOK' /\ P!AllReached' /\ map_size' = 0
  /\ \A id \in Ids : Map!Find(id)' = NULL

LEMMA MapUnchanged ==
  ASSUME P!TypeOK, P!AllReached, UNCHANGED mapVars
  PROVE  MapKept
BY DEF MapKept, mapVars, P!TypeOK, P!AllReached, P!Occupied, P!Reached, P!Passes,
       P!Bucket, Map!Find, Map!Meets, Map!Stops, Map!Passes, Map!Bucket

LEMMA MapInsert ==
  ASSUME P!TypeOK, P!AllReached, NEW key \in Ids, NEW slot \in Slots,
         ~Live(key), map_size < MapSize, Map!Insert(key, slot)
  PROVE  MapAdded(key, slot)
<1>1. P!Insert(key, slot) /\ P!Stops(key) # {} /\ ~P!Found(key)
  BY SameMap, FoundIsLive, MapFits, P!RoomToInsert
<1>2. map_size' = map_size + 1
  BY <1>1 DEF P!Insert
<1>3. P!TypeOK' /\ P!AllReached'
  <2>1. P!Next
    BY <1>1 DEF P!Next
  <2> QED BY <1>1, <2>1, MapFits, P!TypeStep, P!InsertReaches
<1>4. P!EveryEntryFound /\ P!FindsStored
  BY MapSense
<1>5. P!EveryEntryFound' /\ P!FindsStored'
  BY <1>3, MapSenseNext
<1>6. P!Answers!Insert(key, slot)
  BY <1>1, <1>4, <1>5, MapFits, P!InsertAnswers
<1>7. \A id \in Ids : P!Find(id)' = IF id = key THEN slot ELSE P!Find(id)
  BY <1>6 DEF P!Answers!Insert
<1> QED BY <1>2, <1>3, <1>7, SameMap, SameMapNext DEF MapAdded

LEMMA MapRemove ==
  ASSUME P!TypeOK, P!AllReached, NEW key \in Ids, Live(key), Map!Remove(key),
         P!CutsNothing(key)
  PROVE  MapRemoved(key)
<1>1. P!Remove(key) /\ P!Found(key)
  BY SameMap, FoundIsLive
<1>2. map_size' = map_size - 1
  BY <1>1 DEF P!Remove
<1>3. P!TypeOK' /\ P!AllReached'
  <2>1. P!Next
    BY <1>1 DEF P!Next
  <2> QED BY <1>1, <2>1, MapFits, P!TypeStep, P!RemoveReaches
<1>4. P!EveryEntryFound /\ P!FindsStored
  BY MapSense
<1>5. P!EveryEntryFound' /\ P!FindsStored'
  BY <1>3, MapSenseNext
<1>6. P!Answers!Remove(key)
  BY <1>1, <1>4, <1>5, MapFits, P!RemoveAnswers
<1>7. \A id \in Ids : P!Find(id)' = IF id = key THEN NULL ELSE P!Find(id)
  BY <1>6 DEF P!Answers!Remove
<1> QED BY <1>2, <1>3, <1>7, SameMap, SameMapNext DEF MapRemoved

LEMMA MapClear ==
  ASSUME P!TypeOK, P!AllReached, Map!Clear
  PROVE  MapEmptied
<1>1. P!Clear /\ P!Next
  BY SameMap DEF P!Next
<1>2. P!TypeOK'
  BY <1>1, MapFits, P!TypeStep
<1>3. P!Occupied' = {}
  BY <1>1 DEF P!Clear, P!Occupied
<1>4. P!AllReached'
  BY <1>3 DEF P!AllReached
<1>5. P!FindsStored'
  BY <1>2, <1>4, MapSenseNext
<1>6. P!Answers!Clear
  BY <1>1, <1>5, MapFits, P!ClearAnswers
<1>7. \A id \in Ids : P!Find(id)' = NULL
  BY <1>6 DEF P!Answers!Clear
<1>8. map_size' = 0
  BY <1>1 DEF P!Clear
<1> QED BY <1>2, <1>4, <1>7, <1>8, SameMapNext DEF MapEmptied

------------------------------------------------------------------------------
(* Levels.                                                                 *)

LEMMA CallIsNotNull == NULL \notin Call
BY SentinelAssumption, DomainAssumption DEF Call

LEMMA LevelFacts ==
  ASSUME TypeOK, NEW k \in LevelKeys
  PROVE  /\ k[1] \in Sides /\ k[2] \in Prices /\ k = <<k[1], k[2]>>
         /\ levels[k[1]][k[2]] \in Level /\ levels[k[1]][k[2]] # NULL
         /\ Queue(k) \in Seq(Slots) /\ Queue(k) = levels[k[1]][k[2]].queue
         /\ Elements(Queue(k)) \subseteq Queued /\ Elements(Queue(k)) \subseteq Slots
<1>1. k \in Sides \X Prices /\ levels[k[1]][k[2]] # NULL
  BY DEF LevelKeys
<1>2. k[1] \in Sides /\ k[2] \in Prices /\ k = <<k[1], k[2]>>
  BY <1>1
<1>3. levels[k[1]][k[2]] \in Level
  BY <1>1, <1>2 DEF TypeOK
<1>4. Queue(k) \in Seq(Slots) /\ Queue(k) = levels[k[1]][k[2]].queue
  BY <1>3 DEF Level, Queue
<1>5. Elements(Queue(k)) \subseteq Queued
  BY DEF Queued
<1> QED BY <1>1, <1>2, <1>3, <1>4, <1>5, SeqFacts

LEMMA OrderFacts ==
  ASSUME TypeOK, NEW s \in Slots
  PROVE  /\ orders[s] \in OrderRecord /\ orders[s].side \in Sides
         /\ orders[s].quantity \in Nat /\ orders[s].quantity < QuantityRange
         /\ orders[s].quantity \in Int
<1>1. orders[s] \in OrderRecord
  BY DEF TypeOK
<1>2. orders[s].side \in Sides /\ orders[s].quantity \in Quantities \cup 0..QuantityRange - 1
  BY <1>1 DEF OrderRecord
<1>3. orders[s].quantity \in 0..QuantityRange - 1
  BY <1>2, DomainAssumption
<1> QED BY <1>1, <1>2, <1>3, DomainAssumption

LEMMA KeysOfPrices ==
  /\ \A side \in Sides, p \in Prices :
       <<side, p>> \in LevelKeys <=> p \in LevelPrices(side)
  /\ \A side \in Sides : \A p \in LevelPrices(side) : p \in Prices
BY DEF LevelKeys, LevelPrices

\* An order is in one level, the one it points to.
LEMMA OneLevel ==
  ASSUME TypeOK, Placed, NEW j \in LevelKeys, NEW k \in LevelKeys,
         NEW s \in Elements(Queue(j)), s \in Elements(Queue(k))
  PROVE  j = k
BY LevelFacts DEF Placed

LEMMA QueuedType == TypeOK => Queued \subseteq Slots
BY LevelFacts DEF Queued

\* The level of key k, without that slot, is put back or released.
Unlinking(k, slot) ==
  /\ \E total \in 0..QuantityRange - 1 :
       StoreLevel(k[1], k[2], [queue |-> RemoveFirst(Queue(k), slot),
                               total_quantity |-> total,
                               order_count |-> Len(Queue(k)) - 1])
  /\ arrivals' = RemoveFirst(arrivals, slot)

LEMMA UnlinkedKeys ==
  ASSUME TypeOK, QueuesFilled, NEW k \in LevelKeys, NEW slot \in Elements(Queue(k)),
         Unlinking(k, slot)
  PROVE  LET left == RemoveFirst(Queue(k), slot)
             gone == left = <<>> IN
         /\ levels' \in [Sides -> [Prices -> Level \cup {NULL}]]
         /\ LevelKeys' = IF gone THEN LevelKeys \ {k} ELSE LevelKeys
         /\ level_available' = IF gone THEN level_available + 1 ELSE level_available
         /\ \A j \in LevelKeys : j # k => levels'[j[1]][j[2]] = levels[j[1]][j[2]]
         /\ ~gone => Queue(k)' = left /\ levels'[k[1]][k[2]].order_count = Len(left)
<1> DEFINE left == RemoveFirst(Queue(k), slot)
           gone == left = <<>>
<1>1. PICK total \in 0..QuantityRange - 1 :
        StoreLevel(k[1], k[2], [queue |-> left, total_quantity |-> total,
                                order_count |-> Len(Queue(k)) - 1])
  BY DEF Unlinking
<1> DEFINE L == [queue |-> left, total_quantity |-> total,
                 order_count |-> Len(Queue(k)) - 1]
<1>2. /\ levels' = [levels EXCEPT ![k[1]][k[2]] = IF gone THEN NULL ELSE L]
      /\ level_available' = IF gone THEN level_available + 1 ELSE level_available
  BY <1>1 DEF StoreLevel
<1>3. left \in Seq(Slots) /\ Len(left) = Len(Queue(k)) - 1 /\ Len(left) \in Nat
  BY LevelFacts, Removed, SeqFacts DEF QueuesFilled
<1>4. L \in Level /\ L.queue = left /\ L.order_count = Len(left)
  BY <1>3 DEF Level
<1>5. k[1] \in Sides /\ k[2] \in Prices /\ k = <<k[1], k[2]>> /\ levels[k[1]][k[2]] # NULL
  BY LevelFacts
<1>6. L # NULL
  BY <1>4, SentinelAssumption
<1> HIDE DEF L, left
<1>7. \A side \in Sides, p \in Prices :
        levels'[side][p] = IF side = k[1] /\ p = k[2]
                           THEN IF gone THEN NULL ELSE L
                           ELSE levels[side][p]
  BY <1>2, <1>5 DEF TypeOK
<1>8. levels' \in [Sides -> [Prices -> Level \cup {NULL}]]
  BY <1>2, <1>4, <1>5 DEF TypeOK
<1>9. \A j \in Sides \X Prices : 
        /\ j[1] \in Sides /\ j[2] \in Prices
        /\ levels'[j[1]][j[2]] = IF j = k THEN IF gone THEN NULL ELSE L
                                 ELSE levels[j[1]][j[2]]
  BY <1>5, <1>7
<1>10. LevelKeys' = IF gone THEN LevelKeys \ {k} ELSE LevelKeys
  BY <1>5, <1>6, <1>9 DEF LevelKeys
<1>11. \A j \in LevelKeys : j # k => levels'[j[1]][j[2]] = levels[j[1]][j[2]]
  BY <1>9 DEF LevelKeys
<1>12. ~gone => Queue(k)' = left /\ levels'[k[1]][k[2]].order_count = Len(left)
  BY <1>4, <1>5, <1>7 DEF Queue
<1> QED BY <1>2, <1>8, <1>10, <1>11, <1>12 DEF left

\* The order, and no other, leaves its level and the order of arrival.
LEMMA UnlinkedQueues ==
  ASSUME TypeOK, QueuesFilled, Placed, Arrived, NEW k \in LevelKeys,
         NEW slot \in Elements(Queue(k)), Unlinking(k, slot)
  PROVE  /\ QueuesFilled' /\ Arrived' /\ arrivals' \in Seq(Slots)
         /\ Queued' = Queued \ {slot}
         /\ \A j \in LevelKeys' :
              /\ j \in LevelKeys
              /\ Elements(Queue(j)') = Elements(Queue(j)) \ {slot}
<1> DEFINE left == RemoveFirst(Queue(k), slot)
           gone == left = <<>>
<1>1. /\ LevelKeys' = IF gone THEN LevelKeys \ {k} ELSE LevelKeys
      /\ \A j \in LevelKeys : j # k => levels'[j[1]][j[2]] = levels[j[1]][j[2]]
      /\ ~gone => Queue(k)' = left /\ levels'[k[1]][k[2]].order_count = Len(left)
  BY UnlinkedKeys
<1>2. /\ left \in Seq(Slots) /\ Distinct(left)
      /\ Elements(left) = Elements(Queue(k)) \ {slot}
      /\ \A x, y \in Slots :
           Precedes(left, x, y) <=> Precedes(Queue(k), x, y) /\ x # slot /\ y # slot
  BY LevelFacts, Removed DEF QueuesFilled
<1>3. gone => Elements(Queue(k)) = {slot}
  BY <1>2 DEF Elements
<1> HIDE DEF left
<1>4. \A j \in LevelKeys : j # k => Queue(j)' = Queue(j) /\ slot \notin Elements(Queue(j))
  BY <1>1, OneLevel DEF Queue
<1>5. \A j \in LevelKeys' :
        /\ j \in LevelKeys
        /\ j = k => ~gone /\ Queue(j)' = left
        /\ j # k => Queue(j)' = Queue(j)
  BY <1>1, <1>4
<1>6. \A j \in LevelKeys' : Elements(Queue(j)') = Elements(Queue(j)) \ {slot}
  BY <1>2, <1>4, <1>5
<1>7. Queued' = Queued \ {slot}
  <2>1. ASSUME NEW s \in Queued' PROVE s \in Queued \ {slot}
    <3>1. PICK j \in LevelKeys' : s \in Elements(Queue(j)')
      BY DEF Queued, Elements
    <3> QED BY <1>5, <1>6, <3>1 DEF Queued
  <2>2. ASSUME NEW s \in Queued \ {slot} PROVE s \in Queued'
    <3>1. PICK j \in LevelKeys : s \in Elements(Queue(j))
      BY DEF Queued
    <3>2. j \in LevelKeys'
      BY <1>1, <1>3, <3>1
    <3>3. s \in Elements(Queue(j)')
      BY <1>6, <3>1, <3>2
    <3> QED BY <3>2, <3>3 DEF Queued, Elements
  <2> QED BY <2>1, <2>2
<1>8. QueuesFilled'
  <2> SUFFICES ASSUME NEW j \in LevelKeys'
               PROVE  /\ Queue(j)' # <<>> /\ Distinct(Queue(j)')
                      /\ levels'[j[1]][j[2]].order_count = Len(Queue(j)')
    BY DEF QueuesFilled, Distinct
  <2>1. CASE j = k
    BY <1>1, <1>2, <1>5, <2>1
  <2>2. CASE j # k
    BY <1>1, <1>4, <1>5, <2>2 DEF QueuesFilled
  <2> QED BY <2>1, <2>2
<1>9. /\ arrivals' \in Seq(Slots) /\ Distinct(arrivals')
      /\ Elements(arrivals') = Elements(arrivals) \ {slot}
      /\ \A x, y \in Slots : Precedes(arrivals', x, y) <=>
           Precedes(arrivals, x, y) /\ x # slot /\ y # slot
  <2>1. arrivals \in Seq(Slots) /\ Distinct(arrivals) /\ slot \in Elements(arrivals)
    BY LevelFacts DEF TypeOK, Arrived
  <2> QED BY <2>1, Removed DEF Unlinking
<1>10. ASSUME NEW j \in LevelKeys', NEW x \in Slots, NEW y \in Slots,
              Precedes(Queue(j)', x, y)
       PROVE  Precedes(arrivals', x, y)
  <2>1. CASE j = k
    <3>1. Precedes(Queue(k), x, y) /\ x # slot /\ y # slot
      BY <1>2, <1>5, <1>10, <2>1
    <3> QED BY <1>9, <3>1 DEF Arrived
  <2>2. CASE j # k
    <3>1. Precedes(Queue(j), x, y) /\ j \in LevelKeys
      BY <1>5, <1>10, <2>2
    <3>2. x \in Elements(Queue(j)) /\ y \in Elements(Queue(j))
      BY <3>1 DEF Precedes, Elements
    <3> QED BY <1>4, <1>9, <2>2, <3>1, <3>2 DEF Arrived
  <2> QED BY <2>1, <2>2
<1>11. Arrived'
  <2>1. Elements(arrivals') = Queued'
    BY <1>7, <1>9 DEF Arrived
  <2> QED BY <1>9, <1>10, <2>1 DEF Arrived, Distinct, Precedes, Elements
<1> QED BY <1>5, <1>6, <1>7, <1>8, <1>9, <1>11

LEMMA UnlinkedCount ==
  ASSUME TypeOK, QueuesFilled, LevelsCounted, NEW k \in LevelKeys,
         NEW slot \in Elements(Queue(k)), Unlinking(k, slot), clears' = clears
  PROVE  /\ LevelsCounted' /\ level_available' \in 0..MaxLevels
         /\ k \in LevelKeys' \/ level_available' > 0
<1> DEFINE gone == RemoveFirst(Queue(k), slot) = <<>>
<1>1. /\ LevelKeys' = IF gone THEN LevelKeys \ {k} ELSE LevelKeys
      /\ level_available' = IF gone THEN level_available + 1 ELSE level_available
  BY UnlinkedKeys
<1> HIDE DEF gone
<1>2. /\ level_available \in Nat /\ MaxLevels \in Nat /\ Cardinality(LevelKeys) \in Nat
      /\ IsFiniteSet(LevelKeys)
  BY PoolAssumption, FS_CardinalityType DEF TypeOK, LevelsCounted
<1>3. CASE gone
  <2>1. LevelKeys' = LevelKeys \ {k} /\ level_available' = level_available + 1
    BY <1>1, <1>3
  <2>2. /\ IsFiniteSet(LevelKeys \ {k})
        /\ Cardinality(LevelKeys \ {k}) = Cardinality(LevelKeys) - 1
        /\ Cardinality(LevelKeys \ {k}) \in Nat
    BY <1>2, FS_RemoveElement, FS_CardinalityType
  <2>3. IsFiniteSet(LevelKeys') /\ Cardinality(LevelKeys') = Cardinality(LevelKeys) - 1
        /\ Cardinality(LevelKeys') \in Nat
    BY <2>1, <2>2
  <2>4. level_available' + Cardinality(LevelKeys')
          = level_available + Cardinality(LevelKeys)
    BY <1>2, <2>1, <2>3
  <2>5. level_available' \in 0..MaxLevels /\ level_available' > 0
    BY <1>2, <2>1, <2>3, <2>4 DEF LevelsCounted
  <2> QED BY <2>3, <2>4, <2>5 DEF LevelsCounted
<1>4. CASE ~gone
  <2>1. LevelKeys' = LevelKeys /\ level_available' = level_available
    BY <1>1, <1>4
  <2> QED BY <2>1 DEF LevelsCounted, TypeOK
<1> QED BY <1>3, <1>4

\* An order is linked behind its level, which is taken from the pool if need be.
Linking(k, slot) ==
  LET found == levels[k[1]][k[2]]
      level == IF found = NULL THEN NewLevel ELSE found IN
  /\ levels' = [levels EXCEPT ![k[1]][k[2]] = Linked(level, slot)]
  /\ level_available' = IF found = NULL THEN level_available - 1 ELSE level_available
  /\ arrivals' = Append(arrivals, slot)

LEMMA LinkedKeys ==
  ASSUME TypeOK, QueuesFilled, NEW k \in Sides \X Prices, NEW slot \in Slots,
         Linking(k, slot)
  PROVE  /\ levels' \in [Sides -> [Prices -> Level \cup {NULL}]]
         /\ LevelKeys' = LevelKeys \cup {k}
         /\ level_available' = IF k \in LevelKeys THEN level_available
                                                  ELSE level_available - 1
         /\ \A j \in LevelKeys : j # k => levels'[j[1]][j[2]] = levels[j[1]][j[2]]
         /\ QueueAt(k) \in Seq(Slots)
         /\ Queue(k)' = Append(QueueAt(k), slot)
         /\ levels'[k[1]][k[2]].order_count = Len(QueueAt(k)) + 1
<1> DEFINE found == levels[k[1]][k[2]]
           level == IF found = NULL THEN NewLevel ELSE found
           L == Linked(level, slot)
<1>1. /\ levels' = [levels EXCEPT ![k[1]][k[2]] = L]
      /\ level_available' = IF found = NULL THEN level_available - 1 ELSE level_available
  BY DEF Linking
<1>2. k[1] \in Sides /\ k[2] \in Prices /\ k = <<k[1], k[2]>>
  OBVIOUS
<1>3. found = NULL <=> k \notin LevelKeys
  BY DEF LevelKeys
<1>4. /\ level.queue = QueueAt(k) /\ QueueAt(k) \in Seq(Slots)
      /\ level.order_count = Len(QueueAt(k)) /\ Len(QueueAt(k)) \in Nat
      /\ level.total_quantity \in Int
  <2>1. CASE k \in LevelKeys
    <3>1. level = found /\ found \in Level /\ QueueAt(k) = Queue(k)
      BY <1>3, <2>1, LevelFacts DEF QueueAt
    <3>2. found.order_count = Len(Queue(k)) /\ Queue(k) = found.queue
      BY <2>1 DEF QueuesFilled, Queue
    <3> HIDE DEF found, level
    <3>3. QueueAt(k) \in Seq(Slots)
      BY <3>1, <3>2 DEF Level
    <3>4. found.total_quantity \in Int
      BY <3>1, DomainAssumption DEF Level
    <3> QED BY <3>1, <3>2, <3>3, <3>4, SeqFacts
  <2>2. CASE k \notin LevelKeys
    <3>1. level = NewLevel /\ QueueAt(k) = <<>>
      BY <1>3, <2>2 DEF QueueAt
    <3> HIDE DEF found, level
    <3> QED BY <3>1, EmptySeq DEF NewLevel
  <2> QED BY <2>1, <2>2
<1> HIDE DEF level, found
<1>5. Append(QueueAt(k), slot) \in Seq(Slots)
  BY <1>4, AppendProperties
<1>6. WrapQ(level.total_quantity + orders[slot].quantity) \in 0..QuantityRange - 1
  <2>1. orders[slot].quantity \in Int
    BY OrderFacts
  <2>2. level.total_quantity + orders[slot].quantity \in Int
    BY <1>4, <2>1
  <2> QED BY <2>2, DomainAssumption, ModRange DEF WrapQ
<1>7. L.queue = Append(QueueAt(k), slot) /\ L.order_count = Len(QueueAt(k)) + 1
      /\ L \in Level
  BY <1>4, <1>5, <1>6 DEF Linked, Level
<1>8. L # NULL
  BY <1>7, SentinelAssumption
<1> HIDE DEF L
<1>9. \A side \in Sides, p \in Prices :
        levels'[side][p] = IF side = k[1] /\ p = k[2] THEN L ELSE levels[side][p]
  BY <1>1, <1>2 DEF TypeOK
<1>10. levels' \in [Sides -> [Prices -> Level \cup {NULL}]]
  BY <1>1, <1>2, <1>7 DEF TypeOK
<1>11. \A j \in Sides \X Prices :
         /\ j[1] \in Sides /\ j[2] \in Prices
         /\ levels'[j[1]][j[2]] = IF j = k THEN L ELSE levels[j[1]][j[2]]
  BY <1>2, <1>9
<1>12. LevelKeys' = LevelKeys \cup {k}
  BY <1>8, <1>11 DEF LevelKeys
<1>13. \A j \in LevelKeys : j # k => levels'[j[1]][j[2]] = levels[j[1]][j[2]]
  BY <1>11 DEF LevelKeys
<1>14. levels'[k[1]][k[2]] = L
  BY <1>2, <1>9
<1> QED BY <1>1, <1>3, <1>4, <1>7, <1>10, <1>12, <1>13, <1>14 DEF Queue

LEMMA LinkedQueues ==
  ASSUME TypeOK, QueuesFilled, Placed, Arrived, NEW k \in Sides \X Prices,
         NEW slot \in Slots, slot \notin Queued, Linking(k, slot)
  PROVE  /\ QueuesFilled' /\ Arrived' /\ arrivals' \in Seq(Slots)
         /\ Queued' = Queued \cup {slot}
         /\ \A j \in LevelKeys' : \A s \in Elements(Queue(j)') :
              (s = slot /\ j = k) \/ (j \in LevelKeys /\ s \in Elements(Queue(j)))
<1> DEFINE old == QueueAt(k)
           new == Append(old, slot)
<1>1. /\ LevelKeys' = LevelKeys \cup {k}
      /\ \A j \in LevelKeys : j # k => levels'[j[1]][j[2]] = levels[j[1]][j[2]]
      /\ old \in Seq(Slots) /\ Queue(k)' = new
      /\ levels'[k[1]][k[2]].order_count = Len(old) + 1
  BY LinkedKeys
<1>2. Elements(old) \subseteq Queued /\ Distinct(old)
      /\ (k \notin LevelKeys => Elements(old) = {})
  <2>1. CASE k \in LevelKeys
    BY <2>1, LevelFacts DEF QueueAt, QueuesFilled
  <2>2. CASE k \notin LevelKeys
    BY <2>2 DEF QueueAt, Distinct, Elements
  <2> QED BY <2>1, <2>2
<1>3. k \in LevelKeys => old = Queue(k)
  BY DEF QueueAt
<1> HIDE DEF old, new
<1>4. /\ new # <<>> /\ Len(new) = Len(old) + 1 /\ Distinct(new)
      /\ Elements(new) = Elements(old) \cup {slot}
      /\ \A x, y \in Slots : Precedes(new, x, y) <=>
           Precedes(old, x, y) \/ (x \in Elements(old) /\ y = slot)
  BY <1>1, <1>2, Appended DEF new
<1>5. \A j \in LevelKeys : j # k => Queue(j)' = Queue(j)
  BY <1>1 DEF Queue
<1>6. \A j \in LevelKeys' : \A s \in Elements(Queue(j)') :
        (s = slot /\ j = k) \/ (j \in LevelKeys /\ s \in Elements(Queue(j)))
  <2> SUFFICES ASSUME NEW j \in LevelKeys', NEW s \in Elements(Queue(j)')
               PROVE  (s = slot /\ j = k) \/ (j \in LevelKeys /\ s \in Elements(Queue(j)))
    OBVIOUS
  <2>1. CASE j = k
    <3>1. s \in Elements(old) \cup {slot}
      BY <1>1, <1>4, <2>1
    <3> QED BY <1>2, <1>3, <2>1, <3>1
  <2>2. CASE j # k
    BY <1>1, <1>5, <2>2
  <2> QED BY <2>1, <2>2
<1>7. Queued' = Queued \cup {slot}
  <2>1. ASSUME NEW s \in Queued' PROVE s \in Queued \cup {slot}
    <3>1. PICK j \in LevelKeys' : s \in Elements(Queue(j)')
      BY DEF Queued, Elements
    <3> QED BY <1>6, <3>1 DEF Queued
  <2>2. ASSUME NEW s \in Queued PROVE s \in Queued'
    <3>1. PICK j \in LevelKeys : s \in Elements(Queue(j))
      BY DEF Queued
    <3>2. s \in Elements(Queue(j)') /\ j \in LevelKeys'
      <4>1. CASE j = k
        BY <1>1, <1>3, <1>4, <3>1, <4>1
      <4>2. CASE j # k
        BY <1>1, <1>5, <3>1, <4>2
      <4> QED BY <4>1, <4>2
    <3> QED BY <3>2 DEF Queued, Elements
  <2>3. slot \in Queued'
    <3>1. slot \in Elements(Queue(k)') /\ k \in LevelKeys'
      BY <1>1, <1>4
    <3> QED BY <3>1 DEF Queued, Elements
  <2> QED BY <2>1, <2>2, <2>3
<1>8. QueuesFilled'
  <2> SUFFICES ASSUME NEW j \in LevelKeys'
               PROVE  /\ Queue(j)' # <<>> /\ Distinct(Queue(j)')
                      /\ levels'[j[1]][j[2]].order_count = Len(Queue(j)')
    BY DEF QueuesFilled, Distinct
  <2>1. CASE j = k
    BY <1>1, <1>4, <2>1
  <2>2. CASE j # k
    BY <1>1, <1>5, <2>2 DEF QueuesFilled
  <2> QED BY <2>1, <2>2
<1>9. /\ arrivals' \in Seq(Slots) /\ Distinct(arrivals')
      /\ Elements(arrivals') = Elements(arrivals) \cup {slot}
      /\ \A x, y \in Slots : Precedes(arrivals', x, y) <=>
           Precedes(arrivals, x, y) \/ (x \in Elements(arrivals) /\ y = slot)
  <2>1. arrivals \in Seq(Slots) /\ Distinct(arrivals) /\ slot \notin Elements(arrivals)
    BY DEF TypeOK, Arrived
  <2> QED BY <2>1, Appended DEF Linking
<1>10. ASSUME NEW j \in LevelKeys', NEW x \in Slots, NEW y \in Slots,
              Precedes(Queue(j)', x, y)
       PROVE  Precedes(arrivals', x, y)
  <2>1. CASE j = k
    <3>1. Precedes(old, x, y) \/ (x \in Elements(old) /\ y = slot)
      BY <1>1, <1>4, <1>10, <2>1
    <3>2. Precedes(old, x, y) => k \in LevelKeys
      BY <1>2 DEF Precedes, Elements
    <3> QED BY <1>2, <1>3, <1>9, <3>1, <3>2 DEF Arrived
  <2>2. CASE j # k
    BY <1>1, <1>5, <1>9, <1>10, <2>2 DEF Arrived
  <2> QED BY <2>1, <2>2
<1>11. Arrived'
  <2>1. Elements(arrivals') = Queued'
    BY <1>7, <1>9 DEF Arrived
  <2> QED BY <1>9, <1>10, <2>1 DEF Arrived, Distinct, Precedes, Elements
<1> QED BY <1>6, <1>7, <1>8, <1>9, <1>11

LEMMA LinkedCount ==
  ASSUME TypeOK, QueuesFilled, LevelsCounted, NEW k \in Sides \X Prices,
         NEW slot \in Slots, Linking(k, slot), k \in LevelKeys \/ level_available > 0,
         clears' = clears
  PROVE  LevelsCounted' /\ level_available' \in 0..MaxLevels
<1>1. /\ LevelKeys' = LevelKeys \cup {k}
      /\ level_available' = IF k \in LevelKeys THEN level_available
                                               ELSE level_available - 1
  BY LinkedKeys
<1>2. /\ level_available \in Nat /\ MaxLevels \in Nat /\ Cardinality(LevelKeys) \in Nat
      /\ IsFiniteSet(LevelKeys) /\ level_available <= MaxLevels
  BY PoolAssumption, FS_CardinalityType DEF TypeOK, LevelsCounted
<1>3. CASE k \in LevelKeys
  <2>1. LevelKeys' = LevelKeys /\ level_available' = level_available
    BY <1>1, <1>3
  <2> QED BY <2>1 DEF LevelsCounted, TypeOK
<1>4. CASE k \notin LevelKeys
  <2>1. /\ IsFiniteSet(LevelKeys \cup {k})
        /\ Cardinality(LevelKeys \cup {k}) = Cardinality(LevelKeys) + 1
    BY <1>2, <1>4, FS_AddElement
  <2>2. IsFiniteSet(LevelKeys') /\ Cardinality(LevelKeys') = Cardinality(LevelKeys) + 1
        /\ level_available' = level_available - 1
    BY <1>1, <1>4, <2>1
  <2>3. level_available' + Cardinality(LevelKeys')
          = level_available + Cardinality(LevelKeys)
    BY <1>2, <2>2
  <2>4. level_available' \in 0..MaxLevels
    BY <1>2, <1>4, <2>2
  <2> QED BY <2>2, <2>3, <2>4 DEF LevelsCounted
<1> QED BY <1>3, <1>4

------------------------------------------------------------------------------
(* The best price.                                                         *)

LEMMA BeforeOrders ==
  /\ \A side \in Sides, p, q, r \in Int :
       /\ ~Before(side, p, p)
       /\ Before(side, p, q) /\ Before(side, q, r) => Before(side, p, r)
       /\ Before(side, p, q) \/ Before(side, q, p) \/ p = q
       /\ Before(Opposite(side), p, q) <=> Before(side, q, p)
  /\ \A side \in Sides : Opposite(side) \in Sides /\ Opposite(Opposite(side)) = side
                         /\ Opposite(side) # side
BY DEF Before, Opposite, Sides

LEMMA BestExists ==
  ASSUME NEW side \in Sides, NEW S \in SUBSET Int, IsFiniteSet(S), S # {}
  PROVE  \E m \in S : \A q \in S : ~Before(side, q, m)
<1> DEFINE Ahead(p) == {q \in S : Before(side, q, p)}
           counts == {Cardinality(Ahead(p)) : p \in S}
<1>1. ASSUME NEW p \in S PROVE IsFiniteSet(Ahead(p)) /\ Cardinality(Ahead(p)) \in Nat
  <2>1. IsFiniteSet(Ahead(p))
    BY FS_Subset
  <2> QED BY <2>1, FS_CardinalityType
<1>2. counts \in SUBSET Nat /\ counts # {}
  <2> HIDE DEF Ahead
  <2> QED BY <1>1
<1>3. PICK c \in counts : \A d \in counts : c <= d
  <2> HIDE DEF counts
  <2> QED BY <1>2, MapFits, P!Least
<1>4. PICK m \in S : c = Cardinality(Ahead(m))
  OBVIOUS
<1>5. ASSUME NEW q \in S, Before(side, q, m) PROVE FALSE
  <2>1. Ahead(q) \subseteq Ahead(m) /\ q \in Ahead(m) /\ q \notin Ahead(q)
    BY <1>5, BeforeOrders
  <2>2. Cardinality(Ahead(m)) <= Cardinality(Ahead(q))
    BY <1>3, <1>4
  <2> HIDE DEF Ahead, counts
  <2>3. Cardinality(Ahead(q)) <= Cardinality(Ahead(m))
        /\ (Cardinality(Ahead(m)) = Cardinality(Ahead(q)) => Ahead(m) = Ahead(q))
    BY <1>1, <2>1, FS_Subset
  <2> QED BY <1>1, <2>1, <2>2, <2>3
<1> QED BY <1>5

LEMMA PricesFinite ==
  ASSUME IsFiniteSet(LevelKeys), NEW side \in Sides
  PROVE  IsFiniteSet(LevelPrices(side)) /\ LevelPrices(side) \in SUBSET Int
         /\ INVALID_PRICE \notin LevelPrices(side)
<1> DEFINE f == [p \in LevelPrices(side) |-> <<side, p>>]
<1>1. f \in [LevelPrices(side) -> LevelKeys]
  BY KeysOfPrices
<1>2. \A p, q \in LevelPrices(side) : f[p] = f[q] => p = q
  OBVIOUS
<1>3. f \in Injection(LevelPrices(side), LevelKeys)
  BY <1>1, <1>2 DEF Injection, IsInjective
<1> HIDE DEF f
<1>4. IsFiniteSet(LevelPrices(side))
  BY <1>3, FS_Injection
<1> QED BY <1>4, DomainAssumption DEF LevelPrices

LEMMA BestIsFirst ==
  IsFiniteSet(LevelKeys) =>
    \A side \in Sides :
      IF LevelPrices(side) = {} THEN BestPrice(side) = INVALID_PRICE
      ELSE /\ BestPrice(side) \in LevelPrices(side) /\ BestPrice(side) # INVALID_PRICE
           /\ \A q \in LevelPrices(side) : ~Before(side, q, BestPrice(side))
<1> SUFFICES ASSUME IsFiniteSet(LevelKeys), NEW side \in Sides, LevelPrices(side) # {}
             PROVE  /\ BestPrice(side) \in LevelPrices(side)
                    /\ BestPrice(side) # INVALID_PRICE
                    /\ \A q \in LevelPrices(side) : ~Before(side, q, BestPrice(side))
  BY DEF BestPrice
<1> DEFINE ps == LevelPrices(side)
<1>1. IsFiniteSet(ps) /\ ps \in SUBSET Int /\ INVALID_PRICE \notin ps /\ ps # {}
  BY PricesFinite
<1>2. BestPrice(side) = CHOOSE p \in ps : \A q \in ps : ~Before(side, q, p)
  BY DEF BestPrice, MinimumOf
<1> HIDE DEF ps
<1>3. \E m \in ps : \A q \in ps : ~Before(side, q, m)
  BY <1>1, BestExists
<1>4. BestPrice(side) \in ps /\ \A q \in ps : ~Before(side, q, BestPrice(side))
  BY <1>2, <1>3
<1> QED BY <1>1, <1>4 DEF ps

\* A limit reaches the other side when it reaches any of its levels.
LEMMA ReachesSome ==
  IsFiniteSet(LevelKeys) =>
    \A o \in OrderRecord : o.price \in Prices =>
      (Reaches(o) <=> \E p \in LevelPrices(Opposite(o.side)) :
                        ~Before(Opposite(o.side), o.price, p))
<1> SUFFICES ASSUME IsFiniteSet(LevelKeys), NEW o \in OrderRecord, o.price \in Prices
             PROVE  Reaches(o) <=> \E p \in LevelPrices(Opposite(o.side)) :
                                     ~Before(Opposite(o.side), o.price, p)
  OBVIOUS
<1> DEFINE side == Opposite(o.side)
           best == BestPrice(side)
<1>1. side \in Sides /\ o.price \in Int
  BY BeforeOrders, DomainAssumption DEF OrderRecord
<1>2. Reaches(o) <=> best # INVALID_PRICE /\ ~Before(side, o.price, best)
  BY DEF Reaches
<1>3. LevelPrices(side) \in SUBSET Int
  BY <1>1, PricesFinite
<1>4. IF LevelPrices(side) = {} THEN best = INVALID_PRICE
      ELSE /\ best \in LevelPrices(side) /\ best # INVALID_PRICE
           /\ \A q \in LevelPrices(side) : ~Before(side, q, best)
  BY <1>1, BestIsFirst
<1> HIDE DEF side, best
<1>5. \A p \in LevelPrices(side) : ~Before(side, o.price, p) =>
        best # INVALID_PRICE /\ ~Before(side, o.price, best)
  BY <1>1, <1>3, <1>4, BeforeOrders
<1>6. Reaches(o) <=> \E p \in LevelPrices(side) : ~Before(side, o.price, p)
  BY <1>2, <1>4, <1>5
<1> QED BY <1>6 DEF side

LEMMA ReachesSomeNext ==
  IsFiniteSet(LevelKeys)' =>
    \A o \in OrderRecord : o.price \in Prices =>
      (Reaches(o)' <=> \E p \in LevelPrices(Opposite(o.side))' :
                         ~Before(Opposite(o.side), o.price, p))
<1>1. (IsFiniteSet(LevelKeys) =>
        \A o \in OrderRecord : o.price \in Prices =>
          (Reaches(o) <=> \E p \in LevelPrices(Opposite(o.side)) :
                            ~Before(Opposite(o.side), o.price, p)))'
  BY ReachesSome, PTL
<1> QED BY <1>1

------------------------------------------------------------------------------
(* The pool of orders.                                                     *)

LEMMA Acquired ==
  ASSUME NEW S, NEW seq \in Seq(S), Distinct(seq), seq # <<>>
  PROVE  /\ Head(seq) \in S /\ Head(seq) \in Elements(seq)
         /\ Tail(seq) \in Seq(S) /\ Distinct(Tail(seq))
         /\ Elements(Tail(seq)) = Elements(seq) \ {Head(seq)}
<1> DEFINE l == Len(seq)
           new == Tail(seq)
<1>1. l \in Nat /\ DOMAIN seq = 1..l /\ l # 0 /\ 1 \in 1..l
  BY SeqFacts
<1>2. Head(seq) \in S /\ Head(seq) = seq[1] /\ new \in Seq(S)
      /\ Len(new) = l - 1 /\ \A i \in 1..Len(new) : new[i] = seq[i + 1]
  BY HeadTailProperties
<1>3. DOMAIN new = 1..l - 1
  BY <1>2, LenProperties
<1> HIDE DEF new, l
<1>4. \A i \in 1..l - 1 : new[i] = seq[i + 1] /\ i + 1 \in 1..l /\ i + 1 # 1
  BY <1>1, <1>2
<1>5. Distinct(new)
  <2> SUFFICES ASSUME NEW i \in 1..l - 1, NEW j \in 1..l - 1, new[i] = new[j]
               PROVE  i = j
    BY <1>3 DEF Distinct
  <2>1. i + 1 = j + 1
    BY <1>1, <1>4 DEF Distinct
  <2> QED BY <2>1
<1>6. Elements(new) = Elements(seq) \ {Head(seq)}
  <2>1. ASSUME NEW x \in Elements(new) PROVE x \in Elements(seq) \ {Head(seq)}
    <3>1. PICK i \in 1..l - 1 : x = new[i]
      BY <1>3 DEF Elements
    <3>2. x = seq[i + 1] /\ i + 1 \in 1..l /\ i + 1 # 1
      BY <1>4, <3>1
    <3>3. x \in Elements(seq)
      BY <1>1, <3>2 DEF Elements
    <3>4. 1 \in 1..l /\ Head(seq) = seq[1]
      BY <1>1, <1>2, <3>2
    <3> QED BY <1>1, <3>2, <3>3, <3>4 DEF Distinct
  <2>2. ASSUME NEW x \in Elements(seq) \ {Head(seq)} PROVE x \in Elements(new)
    <3>1. PICK i \in 1..l : x = seq[i]
      BY <1>1 DEF Elements
    <3>2. i # 1
      BY <1>2, <3>1
    <3>3. i - 1 \in 1..l - 1 /\ (i - 1) + 1 = i
      BY <1>1, <3>2
    <3> QED BY <1>3, <1>4, <3>1, <3>3 DEF Elements
  <2> QED BY <2>1, <2>2
<1> QED BY <1>1, <1>2, <1>5, <1>6 DEF new, l, Elements

LEMMA Released ==
  ASSUME NEW S, NEW seq \in Seq(S), Distinct(seq), NEW e \in S, e \notin Elements(seq)
  PROVE  LET new == <<e>> \o seq IN
         /\ new \in Seq(S) /\ new # <<>> /\ Distinct(new)
         /\ Elements(new) = Elements(seq) \cup {e}
<1> DEFINE l == Len(seq)
           new == <<e>> \o seq
<1>1. l \in Nat /\ DOMAIN seq = 1..l
  BY SeqFacts
<1>2. <<e>> \in Seq(S) /\ Len(<<e>>) = 1 /\ <<e>>[1] = e
  OBVIOUS
<1>3. /\ new \in Seq(S) /\ Len(new) = 1 + l
      /\ \A i \in 1..1 + l : new[i] = IF i <= 1 THEN <<e>>[i] ELSE seq[i - 1]
  BY <1>2, ConcatProperties
<1>4. DOMAIN new = 1..1 + l
  BY <1>3, LenProperties
<1> HIDE DEF new, l
<1>5. new[1] = e /\ 1 \in 1..1 + l
  BY <1>1, <1>2, <1>3
<1>6. \A i \in 1..1 + l : i # 1 => new[i] = seq[i - 1] /\ i - 1 \in 1..l
  BY <1>1, <1>3
<1>7. \A i \in 1..l : new[i + 1] = seq[i] /\ i + 1 \in 1..1 + l
  BY <1>1, <1>3
<1>8. \A i \in 1..l : seq[i] # e
  BY <1>1 DEF Elements
<1>9. Distinct(new)
  <2> SUFFICES ASSUME NEW i \in 1..1 + l, NEW j \in 1..1 + l, new[i] = new[j]
               PROVE  i = j
    BY <1>4 DEF Distinct
  <2>1. CASE i = 1 \/ j = 1
    BY <1>5, <1>6, <1>8, <2>1
  <2>2. CASE i # 1 /\ j # 1
    <3>1. i - 1 = j - 1
      BY <1>1, <1>6, <2>2 DEF Distinct
    <3> QED BY <3>1
  <2> QED BY <2>1, <2>2
<1>10. Elements(new) = Elements(seq) \cup {e}
  <2>1. ASSUME NEW x \in Elements(new) PROVE x \in Elements(seq) \cup {e}
    <3>1. PICK i \in 1..1 + l : x = new[i]
      BY <1>4 DEF Elements
    <3>2. CASE i = 1
      BY <1>5, <3>1, <3>2
    <3>3. CASE i # 1
      <4>1. i - 1 \in 1..l /\ x = seq[i - 1]
        BY <1>1, <1>6, <3>1, <3>3
      <4> QED BY <1>1, <4>1 DEF Elements
    <3> QED BY <3>2, <3>3
  <2>2. \A x \in Elements(seq) : x \in Elements(new)
    BY <1>1, <1>4, <1>7 DEF Elements
  <2>3. e \in Elements(new)
    BY <1>4, <1>5 DEF Elements
  <2> QED BY <2>1, <2>2, <2>3
<1>11. new # <<>>
  BY <1>10 DEF Elements
<1> QED BY <1>3, <1>9, <1>10, <1>11 DEF new

\* Between the pool, the book and the running call slots only change places.
LEMMA SlotsMoved ==
  ASSUME Distinct(free_list_'), Elements(free_list_') \cap (Queued' \cup InFlight') = {},
         Queued' \cap InFlight' = {}, AllUsed, clears' = clears,
         Elements(free_list_') \cup Queued' \cup InFlight'
           = Elements(free_list_) \cup Queued \cup InFlight
  PROVE  Apart' /\ AllUsed'
<1>1. Apart'
  BY DEF Apart, Distinct, Elements
<1>2. AllUsed'
  BY DEF AllUsed, Elements
<1> QED BY <1>1, <1>2

LEMMA SlotsFinite ==
  ASSUME NEW T \in SUBSET Slots
  PROVE  IsFiniteSet(T) /\ Cardinality(T) \in Nat /\ Cardinality(T) <= MaxOrders
<1>1. IsFiniteSet(Slots) /\ Cardinality(Slots) = MaxOrders
  <2>1. 1 \in Int /\ MaxOrders \in Int /\ ~(1 > MaxOrders) /\ MaxOrders - 1 + 1 = MaxOrders
    BY PoolAssumption
  <2> QED BY <2>1, FS_Interval DEF Slots
<1>2. IsFiniteSet(T) /\ Cardinality(T) <= MaxOrders
  BY <1>1, FS_Subset
<1> QED BY <1>2, FS_CardinalityType

\* A sequence without repetition is as long as the set of its elements.
LEMMA DistinctLen ==
  ASSUME NEW seq \in Seq(Slots), Distinct(seq)
  PROVE  Len(seq) = Cardinality(Elements(seq)) /\ Len(seq) <= MaxOrders
<1> DEFINE l == Len(seq)
<1>1. l \in Nat /\ DOMAIN seq = 1..l /\ Elements(seq) \in SUBSET Slots
  BY SeqFacts
<1>2. seq \in Bijection(1..l, Elements(seq))
  <2>1. seq \in [1..l -> Elements(seq)]
    <3>1. seq \in [1..l -> Slots]
      BY LenProperties
    <3> QED BY <1>1, <3>1 DEF Elements
  <2>2. \A x \in Elements(seq) : \E i \in 1..l : seq[i] = x
    BY <1>1 DEF Elements
  <2>3. \A i, j \in 1..l : seq[i] = seq[j] => i = j
    BY <1>1 DEF Distinct
  <2> QED BY <2>1, <2>2, <2>3 DEF Bijection, Injection, Surjection, IsInjective
<1>3. ExistsBijection(1..l, Elements(seq))
  BY <1>2 DEF ExistsBijection
<1>4. Cardinality(Elements(seq)) = l
  BY <1>1, <1>3, FS_CountingElements
<1> QED BY <1>1, <1>4, SlotsFinite

------------------------------------------------------------------------------
(* What a step keeps.                                                      *)

\* The levels and their lists stay as they are, but for total_quantity.
SameQueues ==
  /\ LevelKeys' = LevelKeys /\ level_available' = level_available
  /\ arrivals' = arrivals
  /\ \A k \in LevelKeys :
       /\ Queue(k)' = Queue(k)
       /\ levels'[k[1]][k[2]].order_count = levels[k[1]][k[2]].order_count

LEMMA UnchangedBook == UNCHANGED bookVars => SameQueues
BY DEF bookVars, SameQueues, LevelKeys, Queue

LEMMA QueuesKept ==
  ASSUME QueuesFilled, Arrived, SameQueues
  PROVE  QueuesFilled' /\ Arrived' /\ Queued' = Queued
<1>1. QueuesFilled'
  BY DEF QueuesFilled, SameQueues, Distinct
<1>2. Queued' = Queued
  BY DEF Queued, SameQueues, Elements
<1>3. Arrived'
  BY <1>2 DEF Arrived, SameQueues, Distinct, Precedes, Elements
<1> QED BY <1>1, <1>2, <1>3

LEMMA CountKept ==
  ASSUME LevelsCounted, LevelKeys' = LevelKeys, level_available' = level_available,
         clears' = clears
  PROVE  LevelsCounted'
BY DEF LevelsCounted

LEMMA SamePrices ==
  ASSUME LevelKeys' = LevelKeys
  PROVE  \A side \in Sides : LevelPrices(side)' = LevelPrices(side)
<1>1. \A side \in Sides, p \in Prices :
        levels'[side][p] # NULL <=> levels[side][p] # NULL
  <2> SUFFICES ASSUME NEW side \in Sides, NEW p \in Prices
               PROVE  levels'[side][p] # NULL <=> levels[side][p] # NULL
    OBVIOUS
  <2>1. <<side, p>> \in Sides \X Prices /\ <<side, p>>[1] = side /\ <<side, p>>[2] = p
    OBVIOUS
  <2>2. <<side, p>> \in LevelKeys <=> levels[side][p] # NULL
    BY <2>1 DEF LevelKeys
  <2>3. <<side, p>> \in LevelKeys' <=> levels'[side][p] # NULL
    BY <2>1 DEF LevelKeys
  <2> QED BY <2>2, <2>3
<1> QED BY <1>1 DEF LevelPrices

LEMMA SameReach ==
  ASSUME LevelKeys' = LevelKeys
  PROVE  \A o \in OrderRecord : Reaches(o)' <=> Reaches(o)
<1> SUFFICES ASSUME NEW o \in OrderRecord PROVE Reaches(o)' <=> Reaches(o)
  OBVIOUS
<1>1. Opposite(o.side) \in Sides
  BY BeforeOrders DEF OrderRecord
<1>2. LevelPrices(Opposite(o.side))' = LevelPrices(Opposite(o.side))
  BY <1>1, SamePrices
<1>3. BestPrice(Opposite(o.side))' = BestPrice(Opposite(o.side))
  BY <1>2 DEF BestPrice, MinimumOf
<1> QED BY <1>3 DEF Reaches

LEMMA StillReaches ==
  ASSUME LevelsCounted', NEW o \in OrderRecord, o.price \in Prices, NEW k \in LevelKeys',
         k[1] = Opposite(o.side), ~Before(k[1], o.price, k[2])
  PROVE  Reaches(o)'
<1>1. IsFiniteSet(LevelKeys)'
  BY DEF LevelsCounted
<1>2. k[2] \in LevelPrices(Opposite(o.side))'
  BY DEF LevelKeys, LevelPrices
<1> QED BY <1>1, <1>2, ReachesSomeNext

LEMMA FewerPrices ==
  ASSUME LevelKeys' \subseteq LevelKeys, NEW side \in Sides
  PROVE  LevelPrices(side)' \subseteq LevelPrices(side)
<1> SUFFICES ASSUME NEW p \in Prices, levels'[side][p] # NULL
             PROVE  levels[side][p] # NULL
  BY DEF LevelPrices
<1>1. <<side, p>> \in Sides \X Prices /\ <<side, p>>[1] = side /\ <<side, p>>[2] = p
  OBVIOUS
<1>2. <<side, p>> \in LevelKeys'
  BY <1>1 DEF LevelKeys
<1> QED BY <1>1, <1>2 DEF LevelKeys

LEMMA StillUncrossed ==
  ASSUME Uncrossed, LevelKeys' \subseteq LevelKeys
  PROVE  Uncrossed'
<1>1. /\ LevelPrices("Buy")' \subseteq LevelPrices("Buy")
      /\ LevelPrices("Sell")' \subseteq LevelPrices("Sell")
  BY FewerPrices DEF Sides
<1> QED BY <1>1 DEF Uncrossed

\* All but the quantity of an order.
SameButQuantity(s) ==
  /\ orders'[s].id = orders[s].id /\ orders'[s].side = orders[s].side
  /\ orders'[s].price = orders[s].price /\ orders'[s].resting = orders[s].resting

LEMMA StillPlaced ==
  ASSUME Placed,
         \A j \in LevelKeys' :
           j \in LevelKeys /\ Elements(Queue(j)') \subseteq Elements(Queue(j)),
         \A s \in Queued' : SameButQuantity(s)
  PROVE  Placed'
<1> SUFFICES ASSUME NEW j \in LevelKeys', NEW s \in Elements(Queue(j)')
             PROVE  /\ orders'[s].id \in Ids /\ orders'[s].resting
                    /\ orders'[s].side = j[1] /\ orders'[s].price = j[2]
  BY DEF Placed, Elements
<1>1. j \in LevelKeys /\ s \in Elements(Queue(j))
  OBVIOUS
<1>2. s \in Queued'
  BY DEF Queued, Elements
<1> QED BY <1>1, <1>2 DEF Placed, SameButQuantity

LEMMA AgreesKept ==
  ASSUME MapSound, MapKept, Queued' = Queued, \A s \in Queued : orders'[s].id = orders[s].id,
         Placed, Queued \subseteq Slots
  PROVE  MapSound'
<1>1. \A s \in Queued : orders[s].id \in Ids
  BY DEF Placed, Queued
<1>2. RestingOrdersAreFound'
  BY <1>1 DEF MapSound, MapKept, MapAgrees, RestingOrdersAreFound
<1>3. \A id \in Ids : Map!Find(id)' # NULL =>
        Map!Find(id)' \in Queued' /\ orders'[Map!Find(id)'].id = id
  BY DEF MapSound, MapKept, MapAgrees
<1>4. map_size' = Cardinality(Queued')
  BY DEF MapSound, MapKept, MapAgrees
<1>5. MapAgrees'
  BY <1>2, <1>3, <1>4 DEF MapAgrees
<1> QED BY <1>5 DEF MapSound, MapKept

LEMMA AgreesRemoved ==
  ASSUME MapSound, Placed, Queued \subseteq Slots, NEW slot \in Queued,
         MapRemoved(orders[slot].id), Queued' = Queued \ {slot},
         \A s \in Queued' : orders'[s].id = orders[s].id
  PROVE  MapSound'
<1> DEFINE key == orders[slot].id
<1>1. \A s \in Queued : orders[s].id \in Ids /\ Map!Find(orders[s].id) = s
  BY DEF Placed, Queued, MapSound, MapAgrees, RestingOrdersAreFound
<1>2. \A s \in Queued' : s \in Queued /\ orders[s].id # key
  BY <1>1
<1>3. RestingOrdersAreFound'
  <2> SUFFICES ASSUME NEW s \in Queued' PROVE (Map!Find(orders[s].id) = s)'
    BY DEF RestingOrdersAreFound
  <2>1. orders'[s].id = orders[s].id /\ orders[s].id \in Ids /\ orders[s].id # key
    BY <1>1, <1>2
  <2> QED BY <1>1, <1>2, <2>1 DEF MapRemoved
<1>4. ASSUME NEW id \in Ids, Map!Find(id)' # NULL
      PROVE  Map!Find(id)' \in Queued' /\ orders'[Map!Find(id)'].id = id
  <2>1. id # key /\ Map!Find(id)' = Map!Find(id)
    BY <1>4 DEF MapRemoved
  <2>2. Map!Find(id) \in Queued /\ orders[Map!Find(id)].id = id
    BY <1>4, <2>1 DEF MapSound, MapAgrees
  <2>3. Map!Find(id) # slot
    BY <2>1, <2>2
  <2> QED BY <2>1, <2>2, <2>3
<1>5. map_size' = Cardinality(Queued')
  <2>1. Cardinality(Queued \ {slot}) = Cardinality(Queued) - 1
    BY SlotsFinite, FS_RemoveElement
  <2> QED BY <2>1 DEF MapRemoved, MapSound, MapAgrees
<1>6. MapAgrees'
  BY <1>3, <1>4, <1>5 DEF MapAgrees
<1> QED BY <1>6 DEF MapSound, MapRemoved

LEMMA AgreesAdded ==
  ASSUME MapSound, Placed, Queued \subseteq Slots, NEW slot \in Slots, slot \notin Queued,
         NEW key \in Ids, ~Live(key), MapAdded(key, slot), Queued' = Queued \cup {slot},
         orders'[slot].id = key, \A s \in Queued : orders'[s].id = orders[s].id
  PROVE  MapSound'
<1>1. \A s \in Queued : orders[s].id \in Ids /\ Map!Find(orders[s].id) = s
  BY DEF Placed, Queued, MapSound, MapAgrees, RestingOrdersAreFound
<1>2. \A s \in Queued : orders[s].id # key
  BY <1>1, SentinelAssumption DEF Live
<1>3. RestingOrdersAreFound'
  <2> SUFFICES ASSUME NEW s \in Queued' PROVE (Map!Find(orders[s].id) = s)'
    BY DEF RestingOrdersAreFound
  <2>1. CASE s = slot
    BY <2>1 DEF MapAdded
  <2>2. CASE s \in Queued
    <3>1. orders'[s].id = orders[s].id /\ orders[s].id \in Ids /\ orders[s].id # key
      BY <1>1, <1>2, <2>2
    <3> QED BY <1>1, <2>2, <3>1 DEF MapAdded
  <2> QED BY <2>1, <2>2
<1>4. ASSUME NEW id \in Ids, Map!Find(id)' # NULL
      PROVE  Map!Find(id)' \in Queued' /\ orders'[Map!Find(id)'].id = id
  <2>1. CASE id = key
    BY <2>1 DEF MapAdded
  <2>2. CASE id # key
    BY <1>4, <2>2 DEF MapAdded, MapSound, MapAgrees
  <2> QED BY <2>1, <2>2
<1>5. map_size' = Cardinality(Queued')
  <2>1. Cardinality(Queued \cup {slot}) = Cardinality(Queued) + 1
    BY SlotsFinite, FS_AddElement
  <2> QED BY <2>1 DEF MapAdded, MapSound, MapAgrees
<1>6. MapAgrees'
  BY <1>3, <1>4, <1>5 DEF MapAgrees
<1> QED BY <1>6 DEF MapSound, MapAdded

LEMMA MapTypes ==
  MapSound /\ Queued \subseteq Slots =>
    /\ order_map_ \in [0..MapSize - 1 -> Map!Entry \cup {Vacant}]
    /\ map_size \in 0..MaxOrders
<1> SUFFICES ASSUME MapSound, Queued \subseteq Slots
             PROVE  /\ order_map_ \in [0..MapSize - 1 -> Map!Entry \cup {Vacant}]
                    /\ map_size \in 0..MaxOrders
  OBVIOUS
<1>1. order_map_ \in [0..MapSize - 1 -> Map!Entry \cup {Vacant}]
  BY DEF MapSound, P!TypeOK, P!Buckets, P!Entry, Map!Entry
<1>2. map_size \in 0..MaxOrders
  BY SlotsFinite, PoolAssumption DEF MapSound, MapAgrees
<1> QED BY <1>1, <1>2

LEMMA MapTypesNext ==
  MapSound' /\ Queued' \subseteq Slots =>
    /\ order_map_' \in [0..MapSize - 1 -> Map!Entry \cup {Vacant}]
    /\ map_size' \in 0..MaxOrders
<1>1. (MapSound /\ Queued \subseteq Slots =>
         /\ order_map_ \in [0..MapSize - 1 -> Map!Entry \cup {Vacant}]
         /\ map_size \in 0..MaxOrders)'
  BY MapTypes, PTL
<1> QED BY <1>1 DEF Map!Entry

------------------------------------------------------------------------------
(* The invariant holds at first and after each step.                       *)

LEMMA InitSound == Init => Inv
<1> SUFFICES ASSUME Init PROVE Inv
  OBVIOUS
<1>1. LevelKeys = {} /\ Queued = {} /\ InFlight = {}
  BY DEF Init, LevelKeys, Queued, InFlight
<1>2. /\ free_list_ \in Seq(Slots) /\ Len(free_list_) = MaxOrders /\ Distinct(free_list_)
      /\ Elements(free_list_) = Slots
  <2>1. free_list_ = [i \in 1..MaxOrders |-> i] /\ MaxOrders \in Nat
    BY PoolAssumption DEF Init
  <2>2. free_list_ \in [1..MaxOrders -> Slots]
    BY <2>1 DEF Slots
  <2>3. free_list_ \in Seq(Slots) /\ Len(free_list_) = MaxOrders
    BY <2>1, <2>2
  <2>4. DOMAIN free_list_ = Slots /\ \A i \in Slots : free_list_[i] = i
    BY <2>1 DEF Slots
  <2> QED BY <2>3, <2>4 DEF Distinct, Elements
<1>3. MapSound
  <2>1. P!Init
    BY SameMap DEF Init
  <2>2. P!TypeOK /\ P!AllReached
    BY <2>1, MapFits, P!InitType, P!ReachedAll
  <2>3. \A id \in Ids : Map!Find(id) = NULL
    BY <2>1, MapFits, P!InitAnswers, SameMap DEF P!Answers!Init
  <2>4. map_size = 0
    BY DEF Init, Map!Init
  <2> QED BY <1>1, <2>2, <2>3, <2>4, FS_EmptySet
          DEF MapSound, MapAgrees, RestingOrdersAreFound
<1>4. TypeOK
  <2>1. /\ order_map_ \in [0..MapSize - 1 -> Map!Entry \cup {Vacant}]
        /\ map_size \in 0..MaxOrders
    BY <1>1, <1>3, MapTypes
  <2>2. orders \in [Slots -> OrderRecord]
    <3>1. Unused \in OrderRecord
      BY DomainAssumption DEF Unused, OrderRecord, Sides
    <3> QED BY <3>1 DEF Init
  <2>3. levels \in [Sides -> [Prices -> Level \cup {NULL}]]
    BY DEF Init
  <2>4. level_available \in 0..MaxLevels /\ clears \in 0..MaxClears
    BY PoolAssumption DEF Init
  <2>5. trades \in Seq(Report) /\ arrivals \in Seq(Slots)
    BY EmptySeq DEF Init
  <2>6. MaxOrders <= MaxOrders
    BY PoolAssumption
  <2> QED BY <1>2, <2>1, <2>2, <2>3, <2>4, <2>5, <2>6, SentinelAssumption
          DEF TypeOK, Init
<1>5. QueuesFilled /\ Placed
  BY <1>1 DEF QueuesFilled, Placed
<1>6. Arrived
  BY <1>1 DEF Arrived, Distinct, Elements, Init
<1>7. Apart /\ AllUsed
  BY <1>1, <1>2 DEF Apart, AllUsed
<1>8. LevelsCounted
  BY <1>1, FS_EmptySet, PoolAssumption DEF LevelsCounted, Init
<1>9. Uncrossed
  BY DEF Uncrossed, LevelPrices, Init, Sides
<1>10. TakerSound /\ Control /\ ModifyReadmits
  BY DEF TakerSound, Control, ModifyReadmits, Init
<1> QED BY <1>3, <1>4, <1>5, <1>6, <1>7, <1>8, <1>9, <1>10 DEF Inv, BookSound

\* add_order up to the match.
LEMMA AdmitStep ==
  ASSUME Inv, NEW id \in Ids, NEW side \in Sides, NEW price \in Prices,
         NEW quantity \in Quantities, pc \in {"idle", "readmit"},
         Admit(id, side, price, quantity)
  PROVE  Inv'
<1> DEFINE slot == Head(free_list_)
           new == [id |-> id, side |-> side, price |-> price, quantity |-> quantity,
                   resting |-> FALSE]
<1>1. /\ ~Live(id) /\ free_list_ # <<>>
      /\ order' = slot /\ free_list_' = Tail(free_list_)
      /\ orders' = [orders EXCEPT ![slot] = new]
      /\ pc' = IF Reaches(new) THEN "match" ELSE "rest"
      /\ call' = [id |-> id, side |-> side, price |-> price, quantity |-> quantity]
      /\ UNCHANGED <<mapVars, bookVars, trades, clears>>
  BY DEF Admit
<1>2. /\ new \in OrderRecord /\ new.id = id /\ new.side = side /\ new.price = price
      /\ new.resting = FALSE
  BY DEF OrderRecord
<1>3. /\ slot \in Slots /\ slot \in Elements(free_list_)
      /\ free_list_' \in Seq(Slots) /\ Distinct(free_list_')
      /\ Elements(free_list_') = Elements(free_list_) \ {slot}
  BY <1>1, Acquired DEF Inv, TypeOK, BookSound, Apart
<1> HIDE DEF new, slot
<1>4. order = NULL /\ InFlight = {} /\ InFlight' = {slot} /\ slot # NULL
  BY <1>1, <1>3, SentinelAssumption DEF Inv, TypeOK, InFlight
<1>5. SameQueues /\ QueuesFilled' /\ Arrived' /\ Queued' = Queued
  BY <1>1, UnchangedBook, QueuesKept DEF Inv, BookSound
<1>6. slot \notin Queued /\ Queued \subseteq Slots
  BY <1>3, QueuedType DEF Inv, BookSound, Apart
<1>7. orders' \in [Slots -> OrderRecord] /\ orders'[slot] = new
      /\ \A s \in Slots : s # slot => orders'[s] = orders[s]
  BY <1>1, <1>2, <1>3 DEF Inv, TypeOK
<1>8. Placed'
  BY <1>5, <1>6, <1>7, StillPlaced DEF Inv, BookSound, SameQueues, SameButQuantity
<1>9. Apart' /\ AllUsed'
  <2>1. Elements(free_list_') \cap (Queued' \cup InFlight') = {}
    BY <1>3, <1>4, <1>5 DEF Inv, BookSound, Apart
  <2>2. Queued' \cap InFlight' = {}
    BY <1>4, <1>5, <1>6
  <2>3. Elements(free_list_') \cup Queued' \cup InFlight'
          = Elements(free_list_) \cup Queued \cup InFlight
    BY <1>3, <1>4, <1>5
  <2>4. clears' = clears
    BY <1>1
  <2> QED BY <1>3, <2>1, <2>2, <2>3, <2>4, SlotsMoved DEF Inv, BookSound
<1>10. LevelsCounted'
  BY <1>1, <1>5, CountKept DEF Inv, BookSound, SameQueues
<1>11. MapKept
  BY <1>1, MapUnchanged DEF Inv, MapSound
<1>12. MapSound'
  BY <1>5, <1>6, <1>7, <1>11, AgreesKept DEF Inv, BookSound
<1>13. Uncrossed'
  BY <1>5, StillUncrossed DEF Inv, SameQueues
<1>14. TakerSound'
  BY <1>1, <1>2, <1>7, <1>11 DEF TakerSound, MapKept, Live
<1>15. Control' /\ ModifyReadmits'
  <2>1. trades' = <<>>
    BY <1>1 DEF Inv, Control
  <2>2. Reaches(new)' <=> Reaches(new)
    BY <1>2, <1>5, SameReach DEF SameQueues
  <2>3. (orders[order])' = new
    BY <1>1, <1>7
  <2>4. Reaches(orders[order])' <=> Reaches(new)
    BY <2>2, <2>3 DEF Reaches
  <2> QED BY <1>1, <2>1, <2>4 DEF Control, ModifyReadmits
<1>16. TypeOK'
  <2>1. call' \in Call /\ call' # NULL
    BY <1>1, CallIsNotNull DEF Call
  <2>2. pc' \in {"match", "rest"}
    BY <1>1
  <2>3. /\ order_map_' \in [0..MapSize - 1 -> Map!Entry \cup {Vacant}]
        /\ map_size' \in 0..MaxOrders
    BY <1>5, <1>6, <1>12, MapTypesNext
  <2>4. Len(free_list_') <= MaxOrders
    BY <1>3, DistinctLen
  <2>5. /\ levels' \in [Sides -> [Prices -> Level \cup {NULL}]]
        /\ level_available' \in 0..MaxLevels /\ arrivals' \in Seq(Slots)
        /\ trades' \in Seq(Report) /\ clears' \in 0..MaxClears
    BY <1>1 DEF Inv, TypeOK, bookVars
  <2>6. order' \in Slots /\ order' # NULL
    BY <1>1, <1>3, <1>4
  <2> QED BY <1>3, <1>7, <2>1, <2>2, <2>3, <2>4, <2>5, <2>6 DEF TypeOK, Map!Entry
<1> QED BY <1>5, <1>8, <1>9, <1>10, <1>12, <1>13, <1>14, <1>15, <1>16
        DEF Inv, BookSound

\* The parties to a trade.
TradeKey == LET side == Opposite(orders[order].side) IN <<side, BestPrice(side)>>
TradeHead == Queue(TradeKey)[1]
TradeQuantity == Lesser(orders[order].quantity, orders[TradeHead].quantity)
Fills == TradeQuantity = orders[TradeHead].quantity

LEMMA TradeParties ==
  ASSUME Inv, pc = "match", Reaches(orders[order])
  PROVE  /\ order \in Slots /\ orders[order].price \in Prices
         /\ TradeKey[1] = Opposite(orders[order].side) /\ TradeKey[1] \in Sides
         /\ TradeKey[2] = BestPrice(TradeKey[1])
         /\ TradeKey \in LevelKeys /\ TradeHead \in Elements(Queue(TradeKey))
         /\ TradeHead \in Queued /\ TradeHead \in Slots /\ TradeHead # order
         /\ TradeQuantity \in Nat /\ TradeQuantity < QuantityRange
         /\ orders[order].quantity - TradeQuantity \in 0..QuantityRange - 1
         /\ orders[TradeHead].quantity - TradeQuantity \in 0..QuantityRange - 1
         /\ TradeQuantity = orders[order].quantity \/ Fills
<1> DEFINE side == Opposite(orders[order].side)
<1>1. order \in Slots /\ order # NULL
  BY DEF Inv, TypeOK
<1>2. orders[order].side \in Sides /\ orders[order] \in OrderRecord
  BY <1>1, OrderFacts DEF Inv
<1>3. side \in Sides /\ orders[order].price \in Prices
  BY <1>1, <1>2, BeforeOrders DEF Inv, TakerSound
<1>4. BestPrice(side) # INVALID_PRICE
  BY DEF Reaches
<1>5. BestPrice(side) \in LevelPrices(side)
  BY <1>3, <1>4, BestIsFirst DEF Inv, BookSound, LevelsCounted, BestPrice
<1>6. TradeKey = <<side, BestPrice(side)>>
  BY DEF TradeKey
<1> HIDE DEF side
<1>7. TradeKey \in LevelKeys
  BY <1>3, <1>5, <1>6, KeysOfPrices
<1>8. TradeHead \in Elements(Queue(TradeKey))
  <2>1. Queue(TradeKey) \in Seq(Slots) /\ Queue(TradeKey) # <<>>
    BY <1>7, LevelFacts DEF Inv, BookSound, QueuesFilled
  <2>2. 1 \in DOMAIN Queue(TradeKey)
    BY <2>1, SeqFacts
  <2> QED BY <2>2 DEF TradeHead, Elements
<1>9. TradeHead \in Queued /\ TradeHead \in Slots
  BY <1>7, <1>8, LevelFacts DEF Inv
<1>10. TradeHead # order
  BY <1>1, <1>9 DEF Inv, BookSound, Apart, InFlight
<1>11. /\ orders[order].quantity \in Nat /\ orders[order].quantity < QuantityRange
       /\ orders[TradeHead].quantity \in Nat /\ orders[TradeHead].quantity < QuantityRange
  BY <1>1, <1>9, OrderFacts DEF Inv
<1>12. /\ TradeQuantity \in Nat /\ TradeQuantity < QuantityRange
       /\ orders[order].quantity - TradeQuantity \in 0..QuantityRange - 1
       /\ orders[TradeHead].quantity - TradeQuantity \in 0..QuantityRange - 1
       /\ TradeQuantity = orders[order].quantity \/ Fills
  BY <1>11, DomainAssumption DEF TradeQuantity, Lesser, Fills
<1> QED BY <1>1, <1>3, <1>6, <1>7, <1>8, <1>9, <1>10, <1>12 DEF side

LEMMA TradeShape ==
  ASSUME Inv, Trade
  PROVE  /\ trades' = Append(trades, [price |-> orders[TradeHead].price,
                                      quantity |-> TradeQuantity,
                                      aggressor_side |-> orders[order].side])
         /\ orders' \in [Slots -> OrderRecord]
         /\ orders'[order] = [orders[order] EXCEPT !.quantity = @ - TradeQuantity]
         /\ orders'[TradeHead] =
              IF Fills THEN Unused
              ELSE [orders[TradeHead] EXCEPT !.quantity = @ - TradeQuantity]
         /\ \A s \in Slots : s # order /\ s # TradeHead => orders'[s] = orders[s]
         /\ Fills => /\ Unlinking(TradeKey, TradeHead)
                     /\ Map!Remove(orders[TradeHead].id)
                     /\ free_list_' = <<TradeHead>> \o free_list_
         /\ ~Fills => /\ SameQueues
                      /\ levels' \in [Sides -> [Prices -> Level \cup {NULL}]]
                      /\ UNCHANGED <<mapVars, free_list_>>
         /\ UNCHANGED <<pc, call, order, clears>>
<1> DEFINE k == TradeKey
           head == TradeHead
           q == TradeQuantity
           resting == orders[head]
           left == [resting EXCEPT !.quantity = @ - q]
           level == levels[k[1]][k[2]]
           reduced == [level EXCEPT !.total_quantity = WrapQ(@ - q)]
<1>1. pc = "match" /\ Reaches(orders[order])
  BY DEF Trade
<1>2. /\ order \in Slots /\ k \in LevelKeys /\ head \in Elements(Queue(k))
      /\ head \in Slots /\ head # order
      /\ q \in Nat
      /\ orders[order].quantity - q \in 0..QuantityRange - 1
      /\ resting.quantity - q \in 0..QuantityRange - 1
  BY <1>1, TradeParties
<1>3. Opposite(orders[order].side) = k[1] /\ BestPrice(k[1]) = k[2]
  BY DEF TradeKey
<1>4. head = level.queue[1] /\ level.queue = Queue(k)
  BY DEF TradeHead, Queue
<1>5. /\ trades' = Append(trades, [price |-> resting.price, quantity |-> q,
                                   aggressor_side |-> orders[order].side])
      /\ IF left.quantity = 0
         THEN /\ StoreLevel(k[1], k[2], Unlinked(reduced, head, 0))
              /\ Map!Remove(resting.id)
              /\ free_list_' = <<head>> \o free_list_
              /\ arrivals' = RemoveFirst(arrivals, head)
         ELSE /\ levels' = [levels EXCEPT ![k[1]][k[2]] = reduced]
              /\ UNCHANGED <<mapVars, free_list_, level_available, arrivals>>
      /\ orders' = [orders EXCEPT ![order].quantity = @ - q,
                                  ![head] = IF left.quantity = 0 THEN Unused ELSE left]
      /\ UNCHANGED <<pc, call, order, clears>>
  BY <1>3, <1>4 DEF Trade, TradeQuantity, Forget
<1>6. resting \in OrderRecord /\ orders[order] \in OrderRecord
      /\ resting.quantity \in Nat
  BY <1>2, OrderFacts DEF Inv
<1>7. left.quantity = resting.quantity - q /\ (left.quantity = 0 <=> Fills)
  <2>1. left.quantity = resting.quantity - q
    BY <1>6 DEF OrderRecord
  <2> HIDE DEF left
  <2> QED BY <1>2, <1>6, <2>1 DEF Fills
<1>8. level \in Level /\ k[1] \in Sides /\ k[2] \in Prices /\ k = <<k[1], k[2]>>
  BY <1>2, LevelFacts DEF Inv
<1>9. /\ reduced.queue = Queue(k) /\ reduced.order_count = level.order_count
      /\ reduced.total_quantity \in 0..QuantityRange - 1 /\ reduced \in Level
      /\ reduced # NULL
  <2>1. level.total_quantity \in Int
    BY <1>8, DomainAssumption DEF Level
  <2>2. level.total_quantity - q \in Int
    BY <1>2, <2>1
  <2>3. WrapQ(level.total_quantity - q) \in 0..QuantityRange - 1
    BY <2>2, DomainAssumption, ModRange DEF WrapQ
  <2>4. reduced \in Level
    BY <1>8, <2>3 DEF Level
  <2>5. reduced.queue = level.queue /\ reduced.order_count = level.order_count
        /\ reduced.total_quantity = WrapQ(level.total_quantity - q)
    BY <1>8 DEF Level
  <2> QED BY <1>4, <2>3, <2>4, <2>5, SentinelAssumption
<1>10. left \in OrderRecord /\ Unused \in OrderRecord
       /\ [orders[order] EXCEPT !.quantity = @ - q] \in OrderRecord
  <2>1. left \in OrderRecord
    BY <1>2, <1>6 DEF OrderRecord
  <2>2. [orders[order] EXCEPT !.quantity = @ - q] \in OrderRecord
    BY <1>2, <1>6 DEF OrderRecord
  <2>3. Unused \in OrderRecord
    BY DomainAssumption DEF Unused, OrderRecord, Sides
  <2> QED BY <2>1, <2>2, <2>3
<1>11. orders \in [Slots -> OrderRecord]
  BY DEF Inv, TypeOK
<1> HIDE DEF k, head, q, level, reduced, left
<1>12. /\ orders' \in [Slots -> OrderRecord]
       /\ orders'[order] = [orders[order] EXCEPT !.quantity = @ - q]
       /\ orders'[head] = IF Fills THEN Unused ELSE left
       /\ \A s \in Slots : s # order /\ s # head => orders'[s] = orders[s]
  BY <1>2, <1>5, <1>7, <1>10, <1>11
<1>13. ASSUME Fills PROVE Unlinking(k, head)
  <2>1. StoreLevel(k[1], k[2], Unlinked(reduced, head, 0))
        /\ arrivals' = RemoveFirst(arrivals, head)
    BY <1>5, <1>7, <1>13
  <2>2. level.order_count = Len(Queue(k))
    BY <1>2 DEF Inv, BookSound, QueuesFilled, level
  <2>3. WrapQ(reduced.total_quantity - 0) \in 0..QuantityRange - 1
    <3>1. reduced.total_quantity - 0 \in Int
      BY <1>9
    <3> QED BY <3>1, DomainAssumption, ModRange DEF WrapQ
  <2>4. Unlinked(reduced, head, 0) =
          [queue |-> RemoveFirst(Queue(k), head),
           total_quantity |-> WrapQ(reduced.total_quantity - 0),
           order_count |-> Len(Queue(k)) - 1]
    BY <1>9, <2>2 DEF Unlinked
  <2> QED BY <2>1, <2>3, <2>4 DEF Unlinking
<1>14. ASSUME ~Fills PROVE SameQueues /\ levels' \in [Sides -> [Prices -> Level \cup {NULL}]]
  <2>1. levels' = [levels EXCEPT ![k[1]][k[2]] = reduced]
        /\ level_available' = level_available /\ arrivals' = arrivals
    BY <1>5, <1>7, <1>14
  <2>2. levels \in [Sides -> [Prices -> Level \cup {NULL}]]
    BY DEF Inv, TypeOK
  <2>3. levels' \in [Sides -> [Prices -> Level \cup {NULL}]]
    BY <1>8, <1>9, <2>1, <2>2
  <2>4. \A side \in Sides, p \in Prices :
          levels'[side][p] = IF side = k[1] /\ p = k[2] THEN reduced ELSE levels[side][p]
    BY <1>8, <2>1, <2>2
  <2>5. \A j \in Sides \X Prices :
          /\ j[1] \in Sides /\ j[2] \in Prices
          /\ levels'[j[1]][j[2]] = IF j = k THEN reduced ELSE levels[j[1]][j[2]]
    BY <1>8, <2>4
  <2>6. k \in Sides \X Prices /\ levels[k[1]][k[2]] # NULL
    BY <1>2 DEF LevelKeys
  <2>7. LevelKeys' = LevelKeys
    BY <1>9, <2>5, <2>6 DEF LevelKeys
  <2>8. ASSUME NEW j \in LevelKeys
        PROVE  /\ Queue(j)' = Queue(j)
               /\ levels'[j[1]][j[2]].order_count = levels[j[1]][j[2]].order_count
    <3>1. j \in Sides \X Prices
      BY DEF LevelKeys
    <3> QED BY <1>4, <1>9, <2>5, <3>1 DEF Queue, level
  <2> QED BY <2>1, <2>3, <2>7, <2>8 DEF SameQueues
<1>15. ~Fills => UNCHANGED <<mapVars, free_list_>>
  BY <1>5, <1>7
<1>16. Fills => Map!Remove(resting.id) /\ free_list_' = <<head>> \o free_list_
  BY <1>5, <1>7
<1> QED BY <1>5, <1>12, <1>13, <1>14, <1>15, <1>16 DEF k, head, q, left

\* What a trade does to the book and the map, whether it fills the resting order or not.
LEMMA TradeBook ==
  ASSUME Inv, Trade, CutsNone
  PROVE  /\ QueuesFilled' /\ Placed' /\ Arrived' /\ LevelsCounted' /\ MapSound'
         /\ Queued' = IF Fills THEN Queued \ {TradeHead} ELSE Queued
         /\ LevelKeys' \subseteq LevelKeys
         /\ levels' \in [Sides -> [Prices -> Level \cup {NULL}]]
         /\ level_available' \in 0..MaxLevels /\ arrivals' \in Seq(Slots)
         /\ \A id \in Ids : ~Live(id) => ~Live(id)'
         /\ TradeKey \in LevelKeys' \/ level_available' > 0
<1> DEFINE k == TradeKey
           head == TradeHead
<1>1. /\ k \in LevelKeys /\ head \in Elements(Queue(k)) /\ head \in Queued
      /\ head \in Slots /\ head # order /\ order \in Slots
  BY TradeParties DEF Trade
<1>2. /\ clears' = clears
      /\ orders'[order] = [orders[order] EXCEPT !.quantity = @ - TradeQuantity]
      /\ orders'[head] = IF Fills THEN Unused
                         ELSE [orders[head] EXCEPT !.quantity = @ - TradeQuantity]
      /\ \A s \in Slots : s # order /\ s # head => orders'[s] = orders[s]
  BY TradeShape
<1>3. Queued \subseteq Slots /\ order \notin Queued
  BY QueuedType, SentinelAssumption DEF Inv, BookSound, Apart, InFlight, TypeOK
<1> HIDE DEF k, head
<1>4. \A s \in Queued : s # head => SameButQuantity(s)
  BY <1>2, <1>3 DEF SameButQuantity
<1>5. ~Fills => SameButQuantity(head)
  <2>1. orders[head] \in OrderRecord
    BY <1>1, OrderFacts DEF Inv
  <2> QED BY <1>2, <2>1 DEF SameButQuantity, OrderRecord
<1>6. CASE Fills
  <2>1. Unlinking(k, head) /\ Map!Remove(orders[head].id)
    BY <1>6, TradeShape DEF k, head
  <2>2. /\ QueuesFilled' /\ Arrived' /\ arrivals' \in Seq(Slots)
        /\ Queued' = Queued \ {head}
        /\ \A j \in LevelKeys' :
             j \in LevelKeys /\ Elements(Queue(j)') = Elements(Queue(j)) \ {head}
    BY <1>1, <2>1, UnlinkedQueues DEF Inv, BookSound
  <2>3. /\ LevelsCounted' /\ level_available' \in 0..MaxLevels
        /\ k \in LevelKeys' \/ level_available' > 0
    BY <1>1, <1>2, <2>1, UnlinkedCount DEF Inv, BookSound
  <2>4. levels' \in [Sides -> [Prices -> Level \cup {NULL}]]
    BY <1>1, <2>1, UnlinkedKeys DEF Inv, BookSound
  <2>5. Placed'
    BY <1>4, <2>2, StillPlaced DEF Inv, BookSound
  <2>6. orders[head].id \in Ids /\ Map!Find(orders[head].id) = head
    BY <1>1 DEF Inv, BookSound, Placed, MapSound, MapAgrees, RestingOrdersAreFound
  <2>7. Live(orders[head].id)
    BY <1>1, <2>6, SentinelAssumption DEF Live
  <2>8. MapRemoved(orders[head].id)
    BY <2>1, <2>6, <2>7, MapRemove DEF Inv, MapSound, CutsNone
  <2>9. MapSound'
    BY <1>1, <1>3, <1>4, <2>2, <2>8, AgreesRemoved DEF Inv, BookSound, SameButQuantity
  <2>10. \A id \in Ids : ~Live(id) => ~Live(id)'
    BY <2>8 DEF MapRemoved, Live
  <2> QED BY <1>6, <2>2, <2>3, <2>4, <2>5, <2>9, <2>10 DEF k, head
<1>7. CASE ~Fills
  <2>1. SameQueues /\ UNCHANGED mapVars
        /\ levels' \in [Sides -> [Prices -> Level \cup {NULL}]]
    BY <1>7, TradeShape
  <2>2. QueuesFilled' /\ Arrived' /\ Queued' = Queued
    BY <2>1, QueuesKept DEF Inv, BookSound
  <2>3. Placed'
    BY <1>4, <1>5, <1>7, <2>1, <2>2, StillPlaced DEF Inv, BookSound, SameQueues
  <2>4. LevelsCounted' /\ level_available' \in 0..MaxLevels /\ arrivals' \in Seq(Slots)
    BY <1>2, <2>1, CountKept DEF Inv, BookSound, SameQueues, TypeOK
  <2>5. MapKept
    BY <2>1, MapUnchanged DEF Inv, MapSound
  <2>6. MapSound'
    BY <1>3, <1>4, <1>5, <1>7, <2>2, <2>5, AgreesKept
       DEF Inv, BookSound, SameButQuantity
  <2>7. \A id \in Ids : ~Live(id) => ~Live(id)'
    BY <2>5 DEF MapKept, Live
  <2> QED BY <1>1, <1>7, <2>1, <2>2, <2>3, <2>4, <2>6, <2>7 DEF SameQueues, k
<1> QED BY <1>6, <1>7

LEMMA TradeStep ==
  ASSUME Inv, Trade, CutsNone
  PROVE  Inv'
<1>1. /\ order \in Slots /\ orders[order].price \in Prices
      /\ TradeKey[1] = Opposite(orders[order].side) /\ TradeKey[1] \in Sides
      /\ TradeKey[2] = BestPrice(TradeKey[1]) /\ TradeKey \in LevelKeys
      /\ TradeHead \in Queued /\ TradeHead \in Slots /\ TradeHead # order
      /\ TradeQuantity \in Nat /\ TradeQuantity < QuantityRange
      /\ TradeQuantity = orders[order].quantity \/ Fills
  BY TradeParties DEF Trade
<1>2. /\ QueuesFilled' /\ Placed' /\ Arrived' /\ LevelsCounted' /\ MapSound'
      /\ Queued' = IF Fills THEN Queued \ {TradeHead} ELSE Queued
      /\ LevelKeys' \subseteq LevelKeys
      /\ levels' \in [Sides -> [Prices -> Level \cup {NULL}]]
      /\ level_available' \in 0..MaxLevels /\ arrivals' \in Seq(Slots)
      /\ \A id \in Ids : ~Live(id) => ~Live(id)'
      /\ TradeKey \in LevelKeys' \/ level_available' > 0
  BY TradeBook
<1>3. /\ pc = "match" /\ pc' = pc /\ order' = order /\ call' = call /\ clears' = clears
      /\ orders' \in [Slots -> OrderRecord]
      /\ orders'[order] = [orders[order] EXCEPT !.quantity = @ - TradeQuantity]
      /\ Reaches(orders[order])
  BY TradeShape DEF Trade
<1>4. Queued \subseteq Slots /\ order # NULL /\ InFlight' = InFlight /\ InFlight = {order}
  BY <1>1, <1>3, QueuedType, SentinelAssumption DEF Inv, InFlight
<1>5. /\ free_list_' \in Seq(Slots) /\ Distinct(free_list_')
      /\ Elements(free_list_') = IF Fills THEN Elements(free_list_) \cup {TradeHead}
                                 ELSE Elements(free_list_)
  <2>1. free_list_ \in Seq(Slots) /\ Distinct(free_list_)
        /\ TradeHead \notin Elements(free_list_)
    BY <1>1 DEF Inv, TypeOK, BookSound, Apart
  <2>2. CASE Fills
    <3>1. free_list_' = <<TradeHead>> \o free_list_
      BY <2>2, TradeShape
    <3> QED BY <1>1, <2>1, <2>2, <3>1, Released
  <2>3. CASE ~Fills
    BY <2>1, <2>3, TradeShape
  <2> QED BY <2>2, <2>3
<1>6. Apart' /\ AllUsed'
  <2>1. Elements(free_list_') \cap (Queued' \cup InFlight') = {}
    BY <1>1, <1>2, <1>4, <1>5 DEF Inv, BookSound, Apart
  <2>2. Queued' \cap InFlight' = {}
    BY <1>2, <1>4 DEF Inv, BookSound, Apart
  <2>3. Elements(free_list_') \cup Queued' \cup InFlight'
          = Elements(free_list_) \cup Queued \cup InFlight
    BY <1>1, <1>2, <1>4, <1>5
  <2> QED BY <1>3, <1>5, <2>1, <2>2, <2>3, SlotsMoved DEF Inv, BookSound
<1>7. Uncrossed'
  BY <1>2, StillUncrossed DEF Inv
<1>8. /\ orders[order] \in OrderRecord /\ orders'[order] \in OrderRecord
      /\ orders'[order].id = orders[order].id /\ orders'[order].side = orders[order].side
      /\ orders'[order].price = orders[order].price
      /\ orders'[order].resting = orders[order].resting
      /\ orders'[order].quantity = orders[order].quantity - TradeQuantity
  <2>1. orders[order] \in OrderRecord
    BY <1>1, OrderFacts DEF Inv
  <2> QED BY <1>1, <1>3, <2>1 DEF OrderRecord
<1>9. TakerSound'
  BY <1>2, <1>3, <1>4, <1>8 DEF Inv, TakerSound, Live
<1>10. Control' /\ ModifyReadmits'
  <2>1. CASE Fills
    <3>1. CASE level_available' > 0
      BY <1>3, <3>1 DEF Control, ModifyReadmits
    <3>2. CASE TradeKey \in LevelKeys'
      <4>1. ~Before(TradeKey[1], orders[order].price, TradeKey[2])
        BY <1>1, <1>3 DEF Reaches
      <4>2. PICK o \in OrderRecord : o = orders'[order]
        BY <1>8
      <4>3. PICK k \in LevelKeys' : k = TradeKey
        BY <3>2
      <4>4. Reaches(o)'
        BY <1>1, <1>2, <1>8, <4>1, <4>2, <4>3, StillReaches
      <4>5. Reaches(orders[order])'
        BY <1>3, <4>2, <4>4 DEF Reaches
      <4> QED BY <1>3, <4>5 DEF Control, ModifyReadmits
    <3> QED BY <1>2, <3>1, <3>2
  <2>2. CASE TradeQuantity = orders[order].quantity
    <3>1. orders'[order'].quantity = 0
      <4>1. orders[order].quantity \in Nat
        BY <1>1, OrderFacts DEF Inv
      <4> QED BY <1>3, <1>8, <2>2, <4>1
    <3> QED BY <1>3, <3>1 DEF Control, ModifyReadmits
  <2> QED BY <1>1, <2>1, <2>2
<1>11. TypeOK'
  <2>1. /\ order_map_' \in [0..MapSize - 1 -> Map!Entry \cup {Vacant}]
        /\ map_size' \in 0..MaxOrders
    <3>1. Queued' \subseteq Slots
      BY <1>2, <1>4
    <3> QED BY <1>2, <3>1, MapTypesNext
  <2>2. Len(free_list_') <= MaxOrders
    BY <1>5, DistinctLen
  <2>3. trades' \in Seq(Report)
    <3>1. orders[TradeHead].price \in Prices
      BY <1>1, LevelFacts DEF Inv, BookSound, Placed, Queued
    <3>2. [price |-> orders[TradeHead].price, quantity |-> TradeQuantity,
           aggressor_side |-> orders[order].side] \in Report
      BY <1>1, <1>8, <3>1, DomainAssumption DEF Report, OrderRecord
    <3>3. trades \in Seq(Report)
      BY DEF Inv, TypeOK
    <3>4. trades' = Append(trades, [price |-> orders[TradeHead].price,
                                    quantity |-> TradeQuantity,
                                    aggressor_side |-> orders[order].side])
      BY TradeShape
    <3> QED BY <3>2, <3>3, <3>4, AppendProperties
  <2> QED BY <1>2, <1>3, <1>5, <2>1, <2>2, <2>3 DEF Inv, TypeOK, Map!Entry
<1> QED BY <1>2, <1>6, <1>7, <1>9, <1>10, <1>11 DEF Inv, BookSound

\* The order being added is released and the call returns.
Discarding ==
  /\ pc \in {"match", "rest"} /\ Return
  /\ orders' = [orders EXCEPT ![order] = Unused]
  /\ free_list_' = <<order>> \o free_list_
  /\ UNCHANGED <<mapVars, bookVars, clears>>

LEMMA DiscardStep ==
  ASSUME Inv, Discarding
  PROVE  Inv'
<1>1. /\ order \in Slots /\ order # NULL /\ InFlight = {order}
  BY DEF Inv, TypeOK, Discarding, InFlight
<1>2. /\ pc' = "idle" /\ call' = NULL /\ order' = NULL /\ trades' = <<>> /\ InFlight' = {}
      /\ clears' = clears /\ UNCHANGED mapVars /\ UNCHANGED bookVars
  BY DEF Discarding, Return, InFlight
<1>3. SameQueues /\ QueuesFilled' /\ Arrived' /\ Queued' = Queued
  BY <1>2, UnchangedBook, QueuesKept DEF Inv, BookSound
<1>4. Queued \subseteq Slots /\ order \notin Queued
  BY <1>1, QueuedType DEF Inv, BookSound, Apart
<1>5. /\ orders' \in [Slots -> OrderRecord]
      /\ \A s \in Slots : s # order => orders'[s] = orders[s]
  <2>1. Unused \in OrderRecord
    BY DomainAssumption DEF Unused, OrderRecord, Sides
  <2> QED BY <1>1, <2>1 DEF Discarding, Inv, TypeOK
<1>6. Placed'
  BY <1>3, <1>4, <1>5, StillPlaced DEF Inv, BookSound, SameQueues, SameButQuantity
<1>7. /\ free_list_' \in Seq(Slots) /\ Distinct(free_list_')
      /\ Elements(free_list_') = Elements(free_list_) \cup {order}
  <2>1. free_list_ \in Seq(Slots) /\ Distinct(free_list_) /\ order \notin Elements(free_list_)
    BY <1>1 DEF Inv, TypeOK, BookSound, Apart
  <2> QED BY <1>1, <2>1, Released DEF Discarding
<1>8. Apart' /\ AllUsed'
  <2>1. Elements(free_list_') \cap (Queued' \cup InFlight') = {}
    BY <1>1, <1>2, <1>3, <1>4, <1>7 DEF Inv, BookSound, Apart
  <2>2. Queued' \cap InFlight' = {}
    BY <1>2
  <2>3. Elements(free_list_') \cup Queued' \cup InFlight'
          = Elements(free_list_) \cup Queued \cup InFlight
    BY <1>1, <1>2, <1>3, <1>7
  <2> QED BY <1>2, <1>7, <2>1, <2>2, <2>3, SlotsMoved DEF Inv, BookSound
<1>9. LevelsCounted'
  BY <1>2, <1>3, CountKept DEF Inv, BookSound, SameQueues
<1>10. MapSound'
  <2>1. MapKept
    BY <1>2, MapUnchanged DEF Inv, MapSound
  <2> QED BY <1>3, <1>4, <1>5, <2>1, AgreesKept DEF Inv, BookSound
<1>11. Uncrossed'
  BY <1>3, StillUncrossed DEF Inv, SameQueues
<1>12. TakerSound' /\ Control' /\ ModifyReadmits'
  BY <1>2 DEF TakerSound, Control, ModifyReadmits
<1>13. TypeOK'
  <2>1. /\ order_map_' \in [0..MapSize - 1 -> Map!Entry \cup {Vacant}]
        /\ map_size' \in 0..MaxOrders
    BY <1>3, <1>4, <1>10, MapTypesNext
  <2>2. Len(free_list_') <= MaxOrders
    BY <1>7, DistinctLen
  <2>3. /\ levels' \in [Sides -> [Prices -> Level \cup {NULL}]]
        /\ level_available' \in 0..MaxLevels /\ arrivals' \in Seq(Slots)
        /\ clears' \in 0..MaxClears /\ trades' \in Seq(Report)
    BY <1>2, EmptySeq DEF Inv, TypeOK, bookVars
  <2> QED BY <1>2, <1>5, <1>7, <2>1, <2>2, <2>3 DEF TypeOK, Map!Entry
<1> QED BY <1>3, <1>6, <1>8, <1>9, <1>10, <1>11, <1>12, <1>13 DEF Inv, BookSound

\* What no variable of the pool, the book or the map takes part in.
LEMMA ControlStep ==
  ASSUME Inv, UNCHANGED <<mapVars, poolVars, bookVars, clears, order, call>>,
         pc = "match", pc' = "rest", trades' = trades, Control'
  PROVE  Inv'
<1>1. SameQueues /\ QueuesFilled' /\ Arrived' /\ Queued' = Queued /\ InFlight' = InFlight
  BY UnchangedBook, QueuesKept DEF Inv, BookSound, InFlight
<1>2. Queued \subseteq Slots /\ orders' = orders /\ free_list_' = free_list_
  BY QueuedType DEF Inv, poolVars
<1>3. Placed'
  BY <1>1, <1>2, StillPlaced DEF Inv, BookSound, SameQueues, SameButQuantity
<1>4. Apart' /\ AllUsed' /\ LevelsCounted' /\ Uncrossed'
  BY <1>1, <1>2, CountKept, StillUncrossed
     DEF Inv, BookSound, Apart, AllUsed, SameQueues, Distinct, Elements
<1>5. MapKept
  BY MapUnchanged DEF Inv, MapSound
<1>6. MapSound'
  BY <1>1, <1>2, <1>5, AgreesKept DEF Inv, BookSound
<1>7. TakerSound' /\ ModifyReadmits'
  BY <1>2, <1>5 DEF Inv, TakerSound, ModifyReadmits, MapKept, Live
<1>8. TypeOK'
  <2>1. /\ order_map_' \in [0..MapSize - 1 -> Map!Entry \cup {Vacant}]
        /\ map_size' \in 0..MaxOrders
    BY <1>1, <1>2, <1>6, MapTypesNext
  <2> QED BY <1>2, <2>1 DEF Inv, TypeOK, bookVars, Map!Entry
<1> QED BY <1>1, <1>3, <1>4, <1>6, <1>7, <1>8 DEF Inv, BookSound

LEMMA MatchEndStep ==
  ASSUME Inv, MatchEnd
  PROVE  Inv'
<1>1. CASE orders[order].quantity = 0
  <2>1. Discarding
    BY <1>1 DEF MatchEnd, Discarding
  <2> QED BY <2>1, DiscardStep
<1>2. CASE orders[order].quantity # 0
  <2>1. /\ pc = "match" /\ pc' = "rest" /\ ~Reaches(orders[order])
        /\ UNCHANGED <<mapVars, poolVars, bookVars, clears, order, call>>
        /\ trades' = trades
    BY <1>2 DEF MatchEnd
  <2>2. order \in Slots /\ orders[order] \in OrderRecord
        /\ orders[order].quantity \in Nat
    BY <2>1, OrderFacts DEF Inv, TypeOK
  <2>3. LevelKeys' = LevelKeys /\ orders' = orders /\ order' = order
        /\ level_available' = level_available
    BY <2>1, UnchangedBook DEF SameQueues, poolVars
  <2>4. Reaches(orders[order])' <=> Reaches(orders[order])
    <3>1. PICK o \in OrderRecord : o = orders[order]
      BY <2>2
    <3>2. Reaches(o)' <=> Reaches(o)
      BY <2>3, SameReach
    <3> QED BY <2>3, <3>1, <3>2 DEF Reaches
  <2>5. Control'
    <3>1. trades = <<>> \/ level_available > 0
      BY <1>2, <2>1 DEF Inv, Control
    <3>2. orders[order].quantity > 0
      BY <1>2, <2>2
    <3> QED BY <2>1, <2>3, <2>4, <3>1, <3>2 DEF Control
  <2> QED BY <2>1, <2>5, ControlStep
<1> QED BY <1>1, <1>2

LEMMA DropStep ==
  ASSUME Inv, Drop
  PROVE  Inv'
<1>1. Discarding
  BY DEF Drop, Discarding
<1> QED BY <1>1, DiscardStep

\* An order that reaches no level of the other side may rest.
LEMMA RestsUncrossed ==
  ASSUME TypeOK, LevelsCounted, Uncrossed, NEW o \in OrderRecord, o.price \in Prices,
         ~Reaches(o), NEW k \in Sides \X Prices, k = <<o.side, o.price>>,
         LevelKeys' = LevelKeys \cup {k}
  PROVE  Uncrossed'
<1>1. \A side \in Sides, p \in Prices :
        p \in LevelPrices(side)' => p \in LevelPrices(side) \/ (side = o.side /\ p = o.price)
  <2> SUFFICES ASSUME NEW side \in Sides, NEW p \in Prices, levels'[side][p] # NULL
               PROVE  levels[side][p] # NULL \/ (side = o.side /\ p = o.price)
    BY DEF LevelPrices
  <2>1. <<side, p>> \in Sides \X Prices /\ <<side, p>>[1] = side /\ <<side, p>>[2] = p
    OBVIOUS
  <2>2. <<side, p>> \in LevelKeys'
    BY <2>1 DEF LevelKeys
  <2>3. <<side, p>> \in LevelKeys \/ <<side, p>> = <<o.side, o.price>>
    BY <2>2
  <2> QED BY <2>1, <2>3 DEF LevelKeys
<1>2. \A p \in LevelPrices(Opposite(o.side)) : Before(Opposite(o.side), o.price, p)
  BY ReachesSome DEF LevelsCounted
<1>3. o.side \in {"Buy", "Sell"}
  BY DEF OrderRecord, Sides
<1> SUFFICES ASSUME NEW p \in LevelPrices("Buy")', NEW q \in LevelPrices("Sell")'
             PROVE  p < q
  BY DEF Uncrossed
<1>4. /\ p \in Prices /\ q \in Prices
      /\ p \in LevelPrices("Buy") \/ (o.side = "Buy" /\ p = o.price)
      /\ q \in LevelPrices("Sell") \/ (o.side = "Sell" /\ q = o.price)
  BY <1>1 DEF Sides, LevelPrices
<1>5. CASE p \in LevelPrices("Buy") /\ q \in LevelPrices("Sell")
  BY <1>5 DEF Uncrossed
<1>6. CASE o.side = "Buy" /\ p = o.price
  <2>1. q \in LevelPrices(Opposite(o.side))
    BY <1>4, <1>6 DEF Opposite
  <2> QED BY <1>2, <1>6, <2>1 DEF Before, Opposite
<1>7. CASE o.side = "Sell" /\ q = o.price
  <2>1. p \in LevelPrices(Opposite(o.side)) /\ p \in Int /\ q \in Int
    BY <1>4, <1>7, DomainAssumption DEF Opposite
  <2> QED BY <1>2, <1>7, <2>1 DEF Before, Opposite
<1> QED BY <1>4, <1>5, <1>6, <1>7

LEMMA RestStep ==
  ASSUME Inv, Rest
  PROVE  Inv'
<1> DEFINE o == orders[order]
           k == <<orders[order].side, orders[order].price>>
<1>1. /\ pc = "rest" /\ order \in Slots /\ order # NULL /\ InFlight = {order}
      /\ order \notin Queued /\ Queued \subseteq Slots
      /\ o \in OrderRecord /\ o.id \in Ids /\ ~Live(o.id) /\ o.price \in Prices
      /\ o.side \in Sides /\ ~Reaches(o)
  <2>1. pc = "rest" /\ order \in Slots /\ order # NULL
    BY DEF Rest, Inv, TypeOK
  <2>2. InFlight = {order} /\ order \notin Queued /\ Queued \subseteq Slots
    BY <2>1, QueuedType DEF Inv, BookSound, Apart, InFlight
  <2> QED BY <2>1, <2>2, OrderFacts DEF Inv, TakerSound, Control
<1>2. /\ k \in Sides \X Prices /\ k[1] = o.side /\ k[2] = o.price
      /\ k = <<o.side, o.price>>
  BY <1>1
<1>3. /\ Linking(k, order) /\ Map!Insert(o.id, order)
      /\ k \in LevelKeys \/ level_available > 0
      /\ orders' = [orders EXCEPT ![order].resting = TRUE]
      /\ pc' = "idle" /\ call' = NULL /\ order' = NULL /\ trades' = <<>>
      /\ free_list_' = free_list_ /\ clears' = clears
  <2>1. k \in LevelKeys \/ level_available > 0
    BY <1>2 DEF Rest, CanRest, LevelKeys
  <2> QED BY <1>2, <2>1 DEF Rest, Linking, Return
<1> HIDE DEF o, k
<1>4. InFlight' = {}
  BY <1>3 DEF InFlight
<1>5. /\ QueuesFilled' /\ Arrived' /\ arrivals' \in Seq(Slots)
      /\ Queued' = Queued \cup {order}
      /\ \A j \in LevelKeys' : \A s \in Elements(Queue(j)') :
           (s = order /\ j = k) \/ (j \in LevelKeys /\ s \in Elements(Queue(j)))
  BY <1>1, <1>2, <1>3, LinkedQueues DEF Inv, BookSound
<1>6. /\ levels' \in [Sides -> [Prices -> Level \cup {NULL}]]
      /\ LevelKeys' = LevelKeys \cup {k}
  BY <1>1, <1>2, <1>3, LinkedKeys DEF Inv, BookSound
<1>7. LevelsCounted' /\ level_available' \in 0..MaxLevels
  BY <1>1, <1>2, <1>3, LinkedCount DEF Inv, BookSound
<1>8. /\ orders' \in [Slots -> OrderRecord]
      /\ \A s \in Slots : s # order => orders'[s] = orders[s]
      /\ orders'[order].id = o.id /\ orders'[order].side = o.side
      /\ orders'[order].price = o.price /\ orders'[order].resting
  <2>1. orders' = [orders EXCEPT ![order] = [o EXCEPT !.resting = TRUE]]
    BY <1>3 DEF o
  <2>2. [o EXCEPT !.resting = TRUE] \in OrderRecord
    BY <1>1 DEF OrderRecord
  <2>3. /\ [o EXCEPT !.resting = TRUE].id = o.id /\ [o EXCEPT !.resting = TRUE].side = o.side
        /\ [o EXCEPT !.resting = TRUE].price = o.price /\ [o EXCEPT !.resting = TRUE].resting
    BY <1>1 DEF OrderRecord
  <2> QED BY <1>1, <2>1, <2>2, <2>3 DEF Inv, TypeOK
<1>9. Placed'
  <2> SUFFICES ASSUME NEW j \in LevelKeys', NEW s \in Elements(Queue(j)')
               PROVE  /\ orders'[s].id \in Ids /\ orders'[s].resting
                      /\ orders'[s].side = j[1] /\ orders'[s].price = j[2]
    BY DEF Placed, Elements
  <2>1. CASE s = order /\ j = k
    BY <1>1, <1>2, <1>8, <2>1
  <2>2. CASE j \in LevelKeys /\ s \in Elements(Queue(j))
    <3>1. s \in Queued
      BY <2>2 DEF Queued
    <3> QED BY <1>1, <1>8, <2>2, <3>1 DEF Inv, BookSound, Placed
  <2> QED BY <1>5, <2>1, <2>2
<1>10. Apart' /\ AllUsed'
  <2>1. /\ Distinct(free_list_') /\ Elements(free_list_') = Elements(free_list_)
        /\ Elements(free_list_) \cap (Queued \cup {order}) = {}
    BY <1>1, <1>3 DEF Inv, BookSound, Apart
  <2>2. Elements(free_list_') \cap (Queued' \cup InFlight') = {}
    BY <1>4, <1>5, <2>1
  <2>3. Queued' \cap InFlight' = {}
    BY <1>4
  <2>4. Elements(free_list_') \cup Queued' \cup InFlight'
          = Elements(free_list_) \cup Queued \cup InFlight
    BY <1>1, <1>4, <1>5, <2>1
  <2> QED BY <1>3, <2>1, <2>2, <2>3, <2>4, SlotsMoved DEF Inv, BookSound
<1>11. MapSound'
  <2>1. map_size < MapSize
    <3>1. /\ Cardinality(Queued \cup {order}) = Cardinality(Queued) + 1
          /\ Cardinality(Queued \cup {order}) <= MaxOrders /\ Cardinality(Queued) \in Nat
      BY <1>1, SlotsFinite, FS_AddElement
    <3> QED BY <3>1, MapAssumption, PoolAssumption DEF Inv, MapSound, MapAgrees
  <2>2. MapAdded(o.id, order)
    BY <1>1, <1>3, <2>1, MapInsert DEF Inv, MapSound
  <2>3. \A s \in Queued : orders'[s].id = orders[s].id
    BY <1>1, <1>8
  <2> QED BY <1>1, <1>5, <1>8, <2>2, <2>3, AgreesAdded DEF Inv, BookSound
<1>12. Uncrossed'
  BY <1>1, <1>2, <1>6, RestsUncrossed DEF Inv, BookSound
<1>13. TakerSound' /\ Control' /\ ModifyReadmits'
  BY <1>3 DEF TakerSound, Control, ModifyReadmits
<1>14. TypeOK'
  <2>1. /\ order_map_' \in [0..MapSize - 1 -> Map!Entry \cup {Vacant}]
        /\ map_size' \in 0..MaxOrders
    <3>1. Queued' \subseteq Slots
      BY <1>1, <1>5
    <3> QED BY <1>11, <3>1, MapTypesNext
  <2>2. trades' \in Seq(Report)
    BY <1>3, EmptySeq
  <2> QED BY <1>3, <1>5, <1>6, <1>7, <1>8, <2>1, <2>2 DEF Inv, TypeOK, Map!Entry
<1> QED BY <1>5, <1>7, <1>9, <1>10, <1>11, <1>12, <1>13, <1>14 DEF Inv, BookSound

\* cancel_order unlinks the order it has found from the level the order points to.
LEMMA WithdrawUnlinks ==
  ASSUME Inv, NEW id \in Ids, Live(id), Withdraw(id), NEW slot, slot = Map!Find(id),
         NEW k, k = <<orders[slot].side, orders[slot].price>>
  PROVE  /\ slot \in Queued /\ slot \in Slots /\ orders[slot].id = id
         /\ k \in LevelKeys /\ slot \in Elements(Queue(k)) /\ Unlinking(k, slot)
         /\ Map!Remove(id)
         /\ orders' = [orders EXCEPT ![slot] = Unused]
         /\ free_list_' = <<slot>> \o free_list_
<1> DEFINE o == orders[slot]
           level == levels[k[1]][k[2]]
<1>1. slot \in Queued /\ slot \in Slots /\ o.id = id
  <2>1. slot \in Queued /\ o.id = id
    BY DEF Live, Inv, MapSound, MapAgrees
  <2> QED BY <2>1, QueuedType DEF Inv
<1>2. k \in LevelKeys /\ slot \in Elements(Queue(k)) /\ o.resting
      /\ k[1] = o.side /\ k[2] = o.price
  <2>1. PICK j \in LevelKeys : slot \in Elements(Queue(j))
    BY <1>1 DEF Queued
  <2>2. o.resting /\ o.side = j[1] /\ o.price = j[2] /\ j = <<j[1], j[2]>>
    BY <2>1, LevelFacts DEF Inv, BookSound, Placed
  <2> QED BY <2>1, <2>2
<1>3. /\ StoreLevel(k[1], k[2], Unlinked(level, slot, o.quantity))
      /\ arrivals' = RemoveFirst(arrivals, slot)
      /\ Map!Remove(id)
      /\ orders' = [orders EXCEPT ![slot] = Unused]
      /\ free_list_' = <<slot>> \o free_list_
  BY <1>2 DEF Withdraw, Forget
<1>4. level \in Level /\ Queue(k) = level.queue /\ level.order_count = Len(Queue(k))
  BY <1>2, LevelFacts DEF Inv, BookSound, QueuesFilled
<1>5. WrapQ(level.total_quantity - o.quantity) \in 0..QuantityRange - 1
  <2>1. o.quantity \in Int
    BY <1>1, OrderFacts DEF Inv
  <2> HIDE DEF level, o
  <2>2. level.total_quantity \in Int
    <3>1. level.total_quantity \in 0..QuantityRange - 1
      BY <1>4 DEF Level
    <3> QED BY <3>1, DomainAssumption
  <2>3. level.total_quantity - o.quantity \in Int
    BY <2>1, <2>2
  <2> QED BY <2>3, DomainAssumption, ModRange DEF WrapQ
<1>6. Unlinked(level, slot, o.quantity) =
        [queue |-> RemoveFirst(Queue(k), slot),
         total_quantity |-> WrapQ(level.total_quantity - o.quantity),
         order_count |-> Len(Queue(k)) - 1]
  BY <1>4 DEF Unlinked
<1> HIDE DEF level, o
<1>7. Unlinking(k, slot)
  BY <1>3, <1>5, <1>6 DEF Unlinking
<1> QED BY <1>1, <1>2, <1>3, <1>7 DEF o

\* What cancel_order does, before the call returns or goes on.
LEMMA WithdrawStep ==
  ASSUME Inv, NEW id \in Ids, pc = "idle", Live(id), Withdraw(id), CutsNone,
         order' = order, trades' = trades, clears' = clears,
         pc' \in {"idle", "readmit"}, call' \in Call \cup {NULL},
         call' = NULL <=> pc' = "idle",
         pc' = "readmit" => call'.id = id
  PROVE  Inv'
<1> DEFINE slot == Map!Find(id)
           o == orders[slot]
           k == <<orders[Map!Find(id)].side, orders[Map!Find(id)].price>>
<1>2. /\ slot \in Queued /\ slot \in Slots /\ o.id = id
      /\ k \in LevelKeys /\ slot \in Elements(Queue(k))
  BY WithdrawUnlinks
<1>3. /\ Map!Remove(id)
      /\ orders' = [orders EXCEPT ![slot] = Unused]
      /\ free_list_' = <<slot>> \o free_list_
  BY WithdrawUnlinks
<1>4. Unlinking(k, slot)
  BY WithdrawUnlinks
<1> HIDE DEF slot, o, k
<1>1. /\ slot \in Queued /\ slot \in Slots /\ Queued \subseteq Slots /\ o.id = id
      /\ order = NULL /\ InFlight = {} /\ InFlight' = {} /\ trades = <<>>
  <2>1. order = NULL /\ trades = <<>>
    BY DEF Inv, TypeOK, Control
  <2> QED BY <1>2, <2>1, QueuedType DEF Inv, InFlight
<1>5. /\ QueuesFilled' /\ Arrived' /\ arrivals' \in Seq(Slots)
      /\ Queued' = Queued \ {slot}
      /\ \A j \in LevelKeys' :
           j \in LevelKeys /\ Elements(Queue(j)') = Elements(Queue(j)) \ {slot}
  BY <1>2, <1>4, UnlinkedQueues DEF Inv, BookSound
<1>6. LevelsCounted' /\ level_available' \in 0..MaxLevels
  BY <1>2, <1>4, UnlinkedCount DEF Inv, BookSound
<1>7. levels' \in [Sides -> [Prices -> Level \cup {NULL}]]
  BY <1>2, <1>4, UnlinkedKeys DEF Inv, BookSound
<1>8. /\ orders' \in [Slots -> OrderRecord]
      /\ \A s \in Slots : s # slot => orders'[s] = orders[s]
  <2>1. Unused \in OrderRecord
    BY DomainAssumption DEF Unused, OrderRecord, Sides
  <2> QED BY <1>1, <1>3, <2>1 DEF Inv, TypeOK
<1>9. Placed'
  BY <1>1, <1>5, <1>8, StillPlaced DEF Inv, BookSound, SameButQuantity
<1>10. /\ free_list_' \in Seq(Slots) /\ Distinct(free_list_') /\ free_list_' # <<>>
       /\ Elements(free_list_') = Elements(free_list_) \cup {slot}
       /\ slot \notin Elements(free_list_)
  <2>1. free_list_ \in Seq(Slots) /\ Distinct(free_list_) /\ slot \notin Elements(free_list_)
    BY <1>1 DEF Inv, TypeOK, BookSound, Apart
  <2> QED BY <1>1, <1>3, <2>1, Released
<1>11. Apart' /\ AllUsed'
  <2>1. Elements(free_list_') \cap (Queued' \cup InFlight') = {}
    BY <1>1, <1>5, <1>10 DEF Inv, BookSound, Apart
  <2>2. Queued' \cap InFlight' = {}
    BY <1>1
  <2>3. Elements(free_list_') \cup Queued' \cup InFlight'
          = Elements(free_list_) \cup Queued \cup InFlight
    BY <1>1, <1>5, <1>10
  <2> QED BY <1>10, <2>1, <2>2, <2>3, SlotsMoved DEF Inv, BookSound
<1>12. MapRemoved(id)
  BY <1>3, MapRemove DEF Inv, MapSound, CutsNone
<1>13. MapSound'
  <2>1. \A s \in Queued' : orders'[s].id = orders[s].id
    BY <1>1, <1>5, <1>8
  <2>2. MapRemoved(orders[slot].id)
    BY <1>1, <1>12 DEF o
  <2> QED BY <1>1, <1>5, <2>1, <2>2, AgreesRemoved DEF Inv, BookSound
<1>14. Uncrossed'
  BY <1>5, StillUncrossed DEF Inv
<1>15. TakerSound' /\ Control'
  BY <1>1 DEF TakerSound, Control
<1>16. ModifyReadmits'
  BY <1>10, <1>12 DEF ModifyReadmits, MapRemoved, Live
<1>17. TypeOK'
  <2>1. /\ order_map_' \in [0..MapSize - 1 -> Map!Entry \cup {Vacant}]
        /\ map_size' \in 0..MaxOrders
    <3>1. Queued' \subseteq Slots
      BY <1>1, <1>5
    <3> QED BY <1>13, <3>1, MapTypesNext
  <2>2. Len(free_list_') <= MaxOrders
    BY <1>10, DistinctLen
  <2> QED BY <1>1, <1>5, <1>6, <1>7, <1>8, <1>10, <2>1, <2>2 DEF Inv, TypeOK, Map!Entry
<1> QED BY <1>5, <1>6, <1>9, <1>11, <1>13, <1>14, <1>15, <1>16, <1>17
        DEF Inv, BookSound

LEMMA ClearStep ==
  ASSUME Inv, Clear
  PROVE  Inv'
<1>1. /\ pc = "idle" /\ pc' = "idle" /\ call' = call /\ order' = order /\ trades' = trades
      /\ orders' = orders /\ free_list_' = free_list_ /\ level_available' = level_available
      /\ levels' = [side \in Sides |-> [p \in Prices |-> NULL]] /\ arrivals' = <<>>
      /\ clears' = clears + 1 /\ clears < MaxClears /\ Map!Clear
  BY DEF Clear, poolVars, callVars
<1>2. clears' \in 0..MaxClears /\ clears' # 0
  BY <1>1, PoolAssumption DEF Inv, TypeOK
<1>3. /\ LevelKeys' = {} /\ Queued' = {} /\ order = NULL
      /\ InFlight = {} /\ InFlight' = {}
  BY <1>1 DEF LevelKeys, Queued, Inv, TypeOK, InFlight
<1>4. MapSound'
  <2>1. MapEmptied
    BY <1>1, MapClear DEF Inv, MapSound
  <2> QED BY <1>3, <2>1, FS_EmptySet
          DEF MapEmptied, MapSound, MapAgrees, RestingOrdersAreFound
<1>5. QueuesFilled' /\ Placed' /\ Arrived'
  BY <1>1, <1>3 DEF QueuesFilled, Placed, Arrived, Distinct, Elements
<1>6. Apart' /\ AllUsed'
  BY <1>1, <1>2, <1>3 DEF Inv, BookSound, Apart, AllUsed, Distinct, Elements
<1>7. LevelsCounted'
  <2>1. level_available \in Nat /\ level_available <= MaxLevels
    BY PoolAssumption DEF Inv, TypeOK
  <2> QED BY <1>1, <1>2, <1>3, <2>1, FS_EmptySet DEF LevelsCounted
<1>8. Uncrossed'
  BY <1>1 DEF Uncrossed, LevelPrices, Sides
<1>9. TakerSound' /\ Control' /\ ModifyReadmits'
  BY <1>1, <1>3 DEF Inv, TakerSound, Control, ModifyReadmits
<1>10. TypeOK'
  <2>1. /\ order_map_' \in [0..MapSize - 1 -> Map!Entry \cup {Vacant}]
        /\ map_size' \in 0..MaxOrders
    BY <1>3, <1>4, MapTypesNext
  <2>2. /\ levels' \in [Sides -> [Prices -> Level \cup {NULL}]]
        /\ arrivals' \in Seq(Slots)
    BY <1>1, EmptySeq
  <2> QED BY <1>1, <1>2, <2>1, <2>2 DEF Inv, TypeOK, Map!Entry
<1> QED BY <1>4, <1>5, <1>6, <1>7, <1>8, <1>9, <1>10 DEF Inv, BookSound

LEMMA StutterStep ==
  ASSUME Inv, UNCHANGED vars
  PROVE  Inv'
<1>1. /\ UNCHANGED mapVars /\ UNCHANGED bookVars /\ orders' = orders
      /\ free_list_' = free_list_ /\ pc' = pc /\ call' = call /\ order' = order
      /\ trades' = trades /\ clears' = clears
  BY DEF vars, poolVars, callVars
<1>2. SameQueues /\ QueuesFilled' /\ Arrived' /\ Queued' = Queued /\ InFlight' = InFlight
  BY <1>1, UnchangedBook, QueuesKept DEF Inv, BookSound, InFlight
<1>3. Queued \subseteq Slots
  BY QueuedType DEF Inv
<1>4. Placed'
  BY <1>1, <1>2, StillPlaced DEF Inv, BookSound, SameQueues, SameButQuantity
<1>5. Apart' /\ AllUsed' /\ LevelsCounted' /\ Uncrossed'
  BY <1>1, <1>2, CountKept, StillUncrossed
     DEF Inv, BookSound, Apart, AllUsed, SameQueues, Distinct, Elements
<1>6. MapKept
  BY <1>1, MapUnchanged DEF Inv, MapSound
<1>7. MapSound'
  BY <1>1, <1>2, <1>3, <1>6, AgreesKept DEF Inv, BookSound
<1>8. TakerSound' /\ ModifyReadmits'
  <2>1. TakerSound'
    BY <1>1, <1>6 DEF Inv, TakerSound, MapKept, Live
  <2>2. pc = "readmit" => call.id \in Ids
    BY CallIsNotNull DEF Inv, TypeOK, Call
  <2>3. ModifyReadmits'
    BY <1>1, <1>6, <2>2 DEF Inv, ModifyReadmits, MapKept, Live
  <2> QED BY <2>1, <2>3
<1>9. Control'
  <2>1. levels' = levels /\ level_available' = level_available
    BY <1>1 DEF bookVars
  <2>2. Reaches(orders[order])' <=> Reaches(orders[order])
    BY <1>1, <2>1 DEF Reaches, BestPrice, LevelPrices
  <2> QED BY <1>1, <2>1, <2>2 DEF Inv, Control
<1>10. TypeOK'
  BY <1>1 DEF Inv, TypeOK, mapVars, bookVars, Map!Entry
<1> QED BY <1>2, <1>4, <1>5, <1>7, <1>8, <1>9, <1>10 DEF Inv, BookSound

LEMMA InvStep == Inv /\ [Next]_vars /\ [CutsNone]_vars => Inv'
<1> SUFFICES ASSUME Inv, [Next]_vars, [CutsNone]_vars PROVE Inv'
  OBVIOUS
<1>1. CASE UNCHANGED vars
  BY <1>1, StutterStep
<1>2. CASE Next /\ CutsNone
  <2>1. ASSUME NEW id \in Ids, NEW side \in Sides, NEW price \in Prices,
               NEW quantity \in Quantities, AddOrder(id, side, price, quantity)
        PROVE  Inv'
    BY <2>1, AdmitStep DEF AddOrder
  <2>2. CASE Readmit
    <3>1. pc = "readmit" /\ call \in Call
      BY <2>2 DEF Readmit, Inv, TypeOK
    <3>2. /\ call.id \in Ids /\ call.side \in Sides /\ call.price \in Prices
          /\ call.quantity \in Quantities
      BY <3>1 DEF Call
    <3> QED BY <2>2, <3>1, <3>2, AdmitStep DEF Readmit
  <2>3. CASE Trade
    BY <1>2, <2>3, TradeStep
  <2>4. CASE MatchEnd
    BY <2>4, MatchEndStep
  <2>5. CASE Rest
    BY <2>5, RestStep
  <2>6. CASE Drop
    BY <2>6, DropStep
  <2>7. ASSUME NEW id \in Ids, CancelOrder(id) PROVE Inv'
    <3>1. /\ pc = "idle" /\ Live(id) /\ Withdraw(id) /\ order' = order
          /\ trades' = trades /\ clears' = clears /\ pc' = pc /\ call' = call
      BY <2>7 DEF CancelOrder, callVars
    <3>2. call \in Call \cup {NULL} /\ (call = NULL <=> pc = "idle")
      BY DEF Inv, TypeOK
    <3> QED BY <1>2, <3>1, <3>2, WithdrawStep
  <2>8. ASSUME NEW id \in Ids, NEW price \in Prices, NEW quantity \in Quantities,
               ModifyOrder(id, price, quantity)
        PROVE  Inv'
    <3>1. /\ pc = "idle" /\ Live(id) /\ Withdraw(id) /\ order' = order
          /\ trades' = trades /\ clears' = clears /\ pc' = "readmit"
          /\ call' = [id |-> id, side |-> orders[Map!Find(id)].side, price |-> price,
                      quantity |-> quantity]
      BY <2>8 DEF ModifyOrder
    <3>2. Map!Find(id) \in Slots
      BY <3>1, FindType DEF Live, Inv, MapSound
    <3>3. orders[Map!Find(id)].side \in Sides
      BY <3>2, OrderFacts DEF Inv
    <3>4. call' \in Call /\ call' # NULL /\ call'.id = id
      BY <3>1, <3>3, CallIsNotNull DEF Call
    <3> QED BY <1>2, <3>1, <3>4, WithdrawStep
  <2>9. ASSUME NEW id \in Ids, RefusedAdd(id) \/ UnknownId(id) PROVE Inv'
    BY <2>9, StutterStep DEF RefusedAdd, UnknownId
  <2>10. CASE Clear
    BY <2>10, ClearStep
  <2> QED BY <1>2, <2>1, <2>2, <2>3, <2>4, <2>5, <2>6, <2>7, <2>8, <2>9, <2>10 DEF Next
<1> QED BY <1>1, <1>2

------------------------------------------------------------------------------
(* What the orders of a level add up to.                                   *)

Sum(m, S) == MapThenSumSet(LAMBDA s : m[s].quantity, S)

\* One turn of the recursion that MapThenSumSet is, on the sums of smaller sets.
AnyOf(s) == CHOOSE x \in s : TRUE
SumStep(a, m, S) ==
  [s \in SUBSET S |-> IF s = {} THEN 0
                      ELSE m[AnyOf(s)].quantity + a[s \ {AnyOf(s)}]]
Sums(a, m, S) == a = SumStep(a, m, S)
Whole(m, S) == \A x \in S : m[x].quantity \in Int

LEMMA SumDef ==
  ASSUME NEW m, NEW S
  PROVE  Sum(m, S) = (CHOOSE a : Sums(a, m, S))[S]
BY DEF Sum, Sums, SumStep, AnyOf, MapThenSumSet, MapThenFoldSet

\* Whatever holds of a finite set if it holds of the smaller ones holds of it.
LEMMA Smallest ==
  ASSUME NEW S, IsFiniteSet(S), NEW D \in SUBSET SUBSET S, D # {}
  PROVE  \E s \in D : /\ IsFiniteSet(s) /\ Cardinality(s) \in Nat
                      /\ \A x \in s : s \ {x} \notin D
<1> DEFINE N == {n \in Nat : \E s \in D : Cardinality(s) = n}
<1>1. \A s \in SUBSET S : IsFiniteSet(s) /\ Cardinality(s) \in Nat
  BY FS_Subset, FS_CardinalityType
<1>2. N \in SUBSET Nat /\ N # {}
  BY <1>1
<1>3. PICK n \in N : \A k \in N : ~(k < n)
  <2> HIDE DEF N
  <2>1. PICK n \in N : \A k \in N : ~(<<k, n>> \in OpToRel(<, Nat))
    BY <1>2, WFMin, NatLessThanWellFounded
  <2>2. n \in N /\ \A k \in N : ~(k < n)
    BY <1>2, <2>1 DEF OpToRel
  <2> QED BY <2>2
<1>4. PICK s \in D : Cardinality(s) = n
  BY <1>3
<1>5. ASSUME NEW x \in s, s \ {x} \in D PROVE FALSE
  <2>1. IsFiniteSet(s) /\ n \in Nat
    BY <1>1, <1>3, <1>4
  <2>2. Cardinality(s \ {x}) = n - 1
    BY <1>4, <2>1, FS_RemoveElement
  <2>3. Cardinality(s \ {x}) \in Nat
    BY <1>1, <1>5
  <2>4. n - 1 \in N
    BY <1>5, <2>2, <2>3
  <2> QED BY <1>3, <2>1, <2>4
<1> QED BY <1>1, <1>4, <1>5

LEMMA AnyIsOne == \A s : s # {} => AnyOf(s) \in s
BY DEF AnyOf

LEMMA SumsAt ==
  ASSUME NEW a, NEW m, NEW S, Sums(a, m, S)
  PROVE  \A s \in SUBSET S :
           a[s] = IF s = {} THEN 0 ELSE m[AnyOf(s)].quantity + a[s \ {AnyOf(s)}]
<1>1. PICK b : b = SumStep(a, m, S)
  OBVIOUS
<1>2. a = b
  BY <1>1 DEF Sums
<1>3. \A s \in SUBSET S :
        b[s] = IF s = {} THEN 0 ELSE m[AnyOf(s)].quantity + a[s \ {AnyOf(s)}]
  BY <1>1 DEF SumStep
<1> QED BY <1>2, <1>3

LEMMA SumsUnique ==
  ASSUME NEW S, IsFiniteSet(S), NEW m, NEW a, NEW b, Sums(a, m, S), Sums(b, m, S)
  PROVE  a = b
<1> DEFINE D == {s \in SUBSET S : a[s] # b[s]}
<1>1. D = {}
  <2> SUFFICES ASSUME D # {} PROVE FALSE
    OBVIOUS
  <2>1. PICK s \in D : \A x \in s : s \ {x} \notin D
    <3>1. D \in SUBSET SUBSET S
      OBVIOUS
    <3> HIDE DEF D
    <3> QED BY <3>1, Smallest
  <2>2. s \in SUBSET S /\ a[s] # b[s]
    OBVIOUS
  <2>3. s # {}
    BY <2>2, SumsAt
  <2>4. AnyOf(s) \in s /\ s \ {AnyOf(s)} \in SUBSET S
    BY <2>2, <2>3, AnyIsOne
  <2>5. a[s \ {AnyOf(s)}] = b[s \ {AnyOf(s)}]
    BY <2>1, <2>4
  <2> HIDE DEF D
  <2> QED BY <2>2, <2>3, <2>5, SumsAt
<1>2. \A s \in SUBSET S : a[s] = b[s]
  BY <1>1
<1>3. a = [s \in SUBSET S |-> a[s]] /\ b = [s \in SUBSET S |-> b[s]]
  BY DEF Sums, SumStep
<1> QED BY <1>2, <1>3

LEMMA SumsExist ==
  ASSUME NEW S, IsFiniteSet(S), NEW m
  PROVE  \E a : Sums(a, m, S)
<1> DEFINE good(a, s) ==
             a[s] = IF s = {} THEN 0 ELSE m[AnyOf(s)].quantity + a[s \ {AnyOf(s)}]
           upto(a, n) == /\ a = [s \in SUBSET S |-> a[s]]
                         /\ \A s \in SUBSET S : Cardinality(s) <= n => good(a, s)
           D == {n \in Nat : \A a : ~upto(a, n)}
<1>1. \A s \in SUBSET S : /\ IsFiniteSet(s) /\ Cardinality(s) \in Nat
                          /\ Cardinality(s) <= Cardinality(S)
                          /\ (Cardinality(s) = 0 <=> s = {})
  BY FS_Subset, FS_CardinalityType, FS_EmptySet
<1>2. D = {}
  <2> SUFFICES ASSUME D # {} PROVE FALSE
    OBVIOUS
  <2>1. PICK n \in D : \A k \in D : ~(k < n)
    <3>1. D \in SUBSET Nat
      OBVIOUS
    <3> HIDE DEF D
    <3>2. PICK n \in D : \A k \in D : ~(<<k, n>> \in OpToRel(<, Nat))
      BY <3>1, WFMin, NatLessThanWellFounded
    <3>3. n \in D /\ \A k \in D : ~(k < n)
      BY <3>1, <3>2 DEF OpToRel
    <3> QED BY <3>3
  <2>2. n \in Nat /\ \A a : ~upto(a, n)
    OBVIOUS
  <2>3. CASE n = 0
    <3>1. PICK a : a = [s \in SUBSET S |-> 0]
      OBVIOUS
    <3>2. a = [s \in SUBSET S |-> a[s]] /\ \A s \in SUBSET S : a[s] = 0
      BY <3>1
    <3>3. ASSUME NEW s \in SUBSET S, Cardinality(s) <= 0 PROVE good(a, s)
      <4>1. s = {}
        BY <1>1, <3>3
      <4> QED BY <3>2, <4>1
    <3> QED BY <2>2, <2>3, <3>2, <3>3
  <2>4. CASE n # 0
    <3>1. n - 1 \in Nat /\ n - 1 < n
      BY <2>2, <2>4
    <3>2. PICK a : upto(a, n - 1)
      <4>1. n - 1 \notin D
        <5> HIDE DEF D
        <5> QED BY <2>1, <3>1
      <4> QED BY <3>1, <4>1
    <3>3. PICK b : b = SumStep(a, m, S)
      OBVIOUS
    <3>4. /\ b = [s \in SUBSET S |-> b[s]]
          /\ \A s \in SUBSET S :
               b[s] = IF s = {} THEN 0 ELSE m[AnyOf(s)].quantity + a[s \ {AnyOf(s)}]
      BY <3>3 DEF SumStep
    <3>5. ASSUME NEW s \in SUBSET S, Cardinality(s) <= n PROVE good(b, s)
      <4>1. CASE s = {}
        BY <3>4, <4>1
      <4>2. CASE s # {}
        <5>1. PICK t : t = s \ {AnyOf(s)}
          OBVIOUS
        <5>2. AnyOf(s) \in s /\ t \in SUBSET S
          BY <4>2, <5>1, AnyIsOne
        <5>3. Cardinality(t) = Cardinality(s) - 1
          BY <1>1, <5>1, <5>2, FS_RemoveElement
        <5>4. Cardinality(t) <= n - 1
          BY <1>1, <2>2, <3>5, <5>3
        <5>5. good(a, t)
          BY <3>2, <5>2, <5>4
        <5>6. b[t] = a[t]
          BY <3>4, <5>2, <5>5
        <5>7. b[s] = m[AnyOf(s)].quantity + a[t]
          BY <3>4, <4>2, <5>1
        <5> QED BY <4>2, <5>1, <5>6, <5>7
      <4> QED BY <4>1, <4>2
    <3>6. upto(b, n)
      <4> HIDE DEF good
      <4> QED BY <3>4, <3>5
    <3> HIDE DEF upto
    <3> QED BY <2>2, <3>6
  <2> QED BY <2>3, <2>4
<1>3. Cardinality(S) \in Nat
  BY <1>1
<1>4. PICK a : upto(a, Cardinality(S))
  <2> HIDE DEF upto
  <2> QED BY <1>2, <1>3
<1>5. \A s \in SUBSET S : good(a, s)
  <2> HIDE DEF good
  <2> QED BY <1>1, <1>4
<1>6. Sums(a, m, S)
  BY <1>4, <1>5 DEF Sums, SumStep
<1> QED BY <1>6

LEMMA SumIs ==
  ASSUME NEW S, IsFiniteSet(S), NEW m, NEW a, Sums(a, m, S)
  PROVE  Sum(m, S) = a[S]
<1>1. PICK b : b = CHOOSE c : Sums(c, m, S)
  OBVIOUS
<1>2. Sums(b, m, S)
  BY <1>1
<1>3. a = b
  BY <1>2, SumsUnique
<1>4. Sum(m, S) = b[S]
  BY <1>1, SumDef
<1> QED BY <1>3, <1>4

\* The sums of a smaller set are among those of a larger.
LEMMA SumIsPart ==
  ASSUME NEW S, IsFiniteSet(S), NEW T \in SUBSET S, NEW m, NEW a, Sums(a, m, S)
  PROVE  Sum(m, T) = a[T]
<1>1. PICK b : b = [s \in SUBSET T |-> a[s]]
  OBVIOUS
<1>2. ASSUME NEW s \in SUBSET T
      PROVE  b[s] = IF s = {} THEN 0 ELSE m[AnyOf(s)].quantity + b[s \ {AnyOf(s)}]
  <2>1. s \in SUBSET S /\ b[s] = a[s] /\ b[s \ {AnyOf(s)}] = a[s \ {AnyOf(s)}]
    BY <1>1
  <2> QED BY <2>1, SumsAt
<1>3. b = [s \in SUBSET T |-> b[s]]
  BY <1>1
<1>4. Sums(b, m, T)
  BY <1>2, <1>3 DEF Sums, SumStep
<1>5. IsFiniteSet(T)
  BY FS_Subset
<1>6. Sum(m, T) = b[T]
  BY <1>4, <1>5, SumIs
<1> QED BY <1>1, <1>6

LEMMA SumIsInt ==
  ASSUME NEW S, IsFiniteSet(S), NEW m, Whole(m, S)
  PROVE  Sum(m, S) \in Int
<1>1. PICK a : Sums(a, m, S)
  BY SumsExist
<1> DEFINE D == {s \in SUBSET S : a[s] \notin Int}
<1>2. D = {}
  <2> SUFFICES ASSUME D # {} PROVE FALSE
    OBVIOUS
  <2>1. PICK s \in D : \A x \in s : s \ {x} \notin D
    <3>1. D \in SUBSET SUBSET S
      OBVIOUS
    <3> HIDE DEF D
    <3> QED BY <3>1, Smallest
  <2>2. s \in SUBSET S /\ a[s] \notin Int
    OBVIOUS
  <2>3. s # {}
    <3>1. a[{}] = 0
      BY <1>1, SumsAt
    <3> QED BY <2>2, <3>1
  <2>4. AnyOf(s) \in s /\ s \ {AnyOf(s)} \in SUBSET S
    BY <2>2, <2>3, AnyIsOne
  <2>5. a[s \ {AnyOf(s)}] \in Int
    BY <2>1, <2>4
  <2>6. m[AnyOf(s)].quantity \in Int
    BY <2>2, <2>4 DEF Whole
  <2>7. a[s] = m[AnyOf(s)].quantity + a[s \ {AnyOf(s)}]
    <3> HIDE DEF D
    <3> QED BY <1>1, <2>2, <2>3, SumsAt
  <2> QED BY <2>2, <2>5, <2>6, <2>7
<1>3. Sum(m, S) = a[S]
  BY <1>1, SumIs
<1> QED BY <1>2, <1>3

\* An order's share may be taken out of a sum, whichever order it is.
LEMMA SumWithout ==
  ASSUME NEW S, IsFiniteSet(S), NEW m, Whole(m, S), NEW x \in S
  PROVE  Sum(m, S) = m[x].quantity + Sum(m, S \ {x})
<1>1. PICK a : Sums(a, m, S)
  BY SumsExist
<1>2. \A s \in SUBSET S : a[s] \in Int
  <2> SUFFICES ASSUME NEW s \in SUBSET S PROVE a[s] \in Int
    OBVIOUS
  <2>1. IsFiniteSet(s) /\ Whole(m, s)
    BY FS_Subset DEF Whole
  <2>2. Sum(m, s) = a[s]
    BY <1>1, SumIsPart
  <2> QED BY <2>1, <2>2, SumIsInt
<1> DEFINE D == {s \in SUBSET S : \E y \in s : a[s] # m[y].quantity + a[s \ {y}]}
<1>3. D = {}
  <2> SUFFICES ASSUME D # {} PROVE FALSE
    OBVIOUS
  <2>1. PICK s \in D : \A y \in s : s \ {y} \notin D
    <3>1. D \in SUBSET SUBSET S
      OBVIOUS
    <3> HIDE DEF D
    <3> QED BY <3>1, Smallest
  <2>2. s \in SUBSET S /\ \E y \in s : a[s] # m[y].quantity + a[s \ {y}]
    OBVIOUS
  <2>3. PICK y \in s : a[s] # m[y].quantity + a[s \ {y}]
    BY <2>2
  <2>4. PICK z : z = AnyOf(s)
    OBVIOUS
  <2>5. z \in s /\ a[s] = m[z].quantity + a[s \ {z}]
    BY <1>1, <2>2, <2>4, AnyIsOne, SumsAt
  <2>6. y # z
    BY <2>3, <2>5
  <2>7. a[s \ {z}] = m[y].quantity + a[(s \ {z}) \ {y}]
    <3>1. s \ {z} \notin D /\ s \ {z} \in SUBSET S /\ y \in s \ {z}
      BY <2>1, <2>2, <2>5, <2>6
    <3> QED BY <3>1
  <2>8. a[s \ {y}] = m[z].quantity + a[(s \ {y}) \ {z}]
    <3>1. s \ {y} \notin D /\ s \ {y} \in SUBSET S /\ z \in s \ {y}
      BY <2>1, <2>2, <2>5, <2>6
    <3> QED BY <3>1
  <2>9. (s \ {z}) \ {y} = (s \ {y}) \ {z}
    OBVIOUS
  <2>10. /\ m[y].quantity \in Int /\ m[z].quantity \in Int
         /\ a[(s \ {y}) \ {z}] \in Int
    BY <1>2, <2>2, <2>5 DEF Whole
  <2>11. PICK p, q, c : p = m[y].quantity /\ q = m[z].quantity /\ c = a[(s \ {y}) \ {z}]
    OBVIOUS
  <2>12. a[s \ {z}] = p + c /\ a[s \ {y}] = q + c
    BY <2>7, <2>8, <2>9, <2>11
  <2>13. a[s] = q + (p + c) /\ a[s] # p + (q + c)
    BY <2>3, <2>5, <2>11, <2>12
  <2>14. p \in Int /\ q \in Int /\ c \in Int
    BY <2>10, <2>11
  <2>15. q + (p + c) = p + (q + c)
    BY <2>14
  <2> QED BY <2>13, <2>15
<1>4. a[S] = m[x].quantity + a[S \ {x}]
  BY <1>3
<1>5. Sum(m, S) = a[S] /\ Sum(m, S \ {x}) = a[S \ {x}]
  BY <1>1, SumIsPart
<1> QED BY <1>4, <1>5

\* A sum depends on the quantities of its orders only.
LEMMA SumSame ==
  ASSUME NEW S, IsFiniteSet(S), NEW m, NEW n, \A x \in S : m[x].quantity = n[x].quantity
  PROVE  Sum(m, S) = Sum(n, S)
<1>1. PICK a : Sums(a, m, S)
  BY SumsExist
<1>2. \A s \in SUBSET S :
        a[s] = IF s = {} THEN 0 ELSE m[AnyOf(s)].quantity + a[s \ {AnyOf(s)}]
  BY <1>1, SumsAt
<1>3. ASSUME NEW s \in SUBSET S
      PROVE  a[s] = IF s = {} THEN 0 ELSE n[AnyOf(s)].quantity + a[s \ {AnyOf(s)}]
  <2>1. s # {} => m[AnyOf(s)].quantity = n[AnyOf(s)].quantity
    <3>1. s # {} => AnyOf(s) \in S
      BY AnyIsOne
    <3> QED BY <3>1
  <2>2. a[s] = IF s = {} THEN 0 ELSE m[AnyOf(s)].quantity + a[s \ {AnyOf(s)}]
    BY <1>2
  <2> QED BY <2>1, <2>2
<1>4. a = [s \in SUBSET S |-> a[s]]
  BY <1>1 DEF Sums, SumStep
<1>5. Sums(a, n, S)
  BY <1>3, <1>4 DEF Sums, SumStep
<1> QED BY <1>1, <1>5, SumIs

LEMMA SumOfNone == ASSUME NEW m PROVE Sum(m, {}) = 0
<1>1. IsFiniteSet({})
  BY FS_EmptySet
<1>2. PICK a : Sums(a, m, {})
  BY <1>1, SumsExist
<1> QED BY <1>1, <1>2, SumIs, SumsAt

------------------------------------------------------------------------------
(* The totals of the levels.                                               *)

\* A level's total_quantity is what its orders add up to.
Right(level, m) == level.total_quantity = WrapQ(Sum(m, Elements(level.queue)))
Totals == \A k \in LevelKeys : Right(levels[k[1]][k[2]], orders)

LEMMA TotalsNext == Totals' <=> \A k \in LevelKeys' : Right(levels'[k[1]][k[2]], orders')
BY DEF Totals, Right, Sum, MapThenSumSet, MapThenFoldSet, Elements, WrapQ

LEMMA WrapSum ==
  ASSUME NEW a \in Int, NEW c \in Int
  PROVE  /\ WrapQ(WrapQ(a) + c) = WrapQ(a + c) /\ WrapQ(WrapQ(a) - c) = WrapQ(a - c)
         /\ WrapQ(WrapQ(a) - 0) = WrapQ(a) /\ WrapQ(0) = 0 /\ WrapQ(a) \in Int
<1>1. QuantityRange \in Nat \ {0} /\ -c \in Int
  BY DomainAssumption
<1>2. WrapQ(a) \in 0..QuantityRange - 1
  BY <1>1, ModRange DEF WrapQ
<1>3. WrapQ(WrapQ(a) + c) = WrapQ(a + c)
  BY <1>1, ModAdd DEF WrapQ
<1>4. WrapQ(WrapQ(a) + (-c)) = WrapQ(a + (-c))
  BY <1>1, ModAdd DEF WrapQ
<1>5. WrapQ(a) + (-c) = WrapQ(a) - c /\ a + (-c) = a - c /\ WrapQ(a) - 0 = WrapQ(a)
  BY <1>1, <1>2
<1>6. WrapQ(WrapQ(a)) = WrapQ(a) /\ WrapQ(0) = 0
  <2>1. 0 \in 0..QuantityRange - 1
    BY <1>1
  <2> QED BY <1>1, <1>2, <2>1, ModSmall DEF WrapQ
<1> QED BY <1>1, <1>2, <1>3, <1>4, <1>5, <1>6

\* The orders of a level have a sum.
LEMMA SumsOfLevel ==
  ASSUME NEW m \in [Slots -> OrderRecord], NEW T \in SUBSET Slots
  PROVE  /\ IsFiniteSet(T) /\ Whole(m, T) /\ Sum(m, T) \in Int
         /\ \A s \in T : m[s].quantity \in Int
<1>1. \A s \in T : m[s].quantity \in Int
  <2> SUFFICES ASSUME NEW s \in T PROVE m[s].quantity \in Int
    OBVIOUS
  <2>1. m[s] \in OrderRecord
    OBVIOUS
  <2>2. m[s].quantity \in Quantities \cup 0..QuantityRange - 1
    BY <2>1 DEF OrderRecord
  <2>3. m[s].quantity \in 0..QuantityRange - 1
    BY <2>2, DomainAssumption
  <2> QED BY <2>3, DomainAssumption
<1>2. IsFiniteSet(T) /\ Whole(m, T)
  BY <1>1, SlotsFinite DEF Whole
<1> QED BY <1>1, <1>2, SumIsInt

\* A step changes the totals of the levels K only.
LEMMA TotalsKept ==
  ASSUME TypeOK, Totals, NEW K,
         \A j \in LevelKeys' : j \notin K =>
           /\ j \in LevelKeys /\ levels'[j[1]][j[2]] = levels[j[1]][j[2]]
           /\ \A s \in Elements(Queue(j)) : orders'[s].quantity = orders[s].quantity,
         \A j \in LevelKeys' : j \in K => Right(levels'[j[1]][j[2]], orders')
  PROVE  Totals'
<1> SUFFICES ASSUME NEW j \in LevelKeys', j \notin K
             PROVE  Right(levels'[j[1]][j[2]], orders')
  BY TotalsNext
<1>1. /\ j \in LevelKeys /\ levels'[j[1]][j[2]] = levels[j[1]][j[2]]
      /\ \A s \in Elements(Queue(j)) : orders'[s].quantity = orders[s].quantity
  OBVIOUS
<1>2. PICK L, m, n : L = levels[j[1]][j[2]] /\ m = orders /\ n = orders'
  OBVIOUS
<1>3. /\ Elements(L.queue) \in SUBSET Slots /\ Right(L, m)
      /\ \A s \in Elements(L.queue) : m[s].quantity = n[s].quantity
  BY <1>1, <1>2, LevelFacts DEF Totals, Queue
<1>4. Sum(m, Elements(L.queue)) = Sum(n, Elements(L.queue))
  BY <1>3, SlotsFinite, SumSame
<1>5. Right(L, n)
  BY <1>3, <1>4 DEF Right
<1> QED BY <1>1, <1>2, <1>5

LEMMA QuietTotals ==
  ASSUME TypeOK, Totals, levels' = levels,
         \A s \in Queued : orders'[s].quantity = orders[s].quantity
  PROVE  Totals'
<1>1. LevelKeys' = LevelKeys
  BY DEF LevelKeys
<1>2. \A j \in LevelKeys : \A s \in Elements(Queue(j)) : s \in Queued
  BY DEF Queued
<1>3. PICK K : K = {}
  OBVIOUS
<1>4. ASSUME NEW j \in LevelKeys'
      PROVE  /\ j \notin K /\ j \in LevelKeys
             /\ levels'[j[1]][j[2]] = levels[j[1]][j[2]]
             /\ \A s \in Elements(Queue(j)) : orders'[s].quantity = orders[s].quantity
  BY <1>1, <1>2, <1>3
<1> QED BY <1>4, TotalsKept

\* The level of an order that leaves it: each of its fills was subtracted from the
\* total, what is left of it is now.
LEMMA RightWithout ==
  ASSUME NEW level \in Level, NEW m \in [Slots -> OrderRecord],
         NEW n \in [Slots -> OrderRecord], Right(level, m), Distinct(level.queue),
         NEW slot \in Elements(level.queue),
         \A s \in Elements(level.queue) : s # slot => n[s].quantity = m[s].quantity,
         NEW new, new.queue = RemoveFirst(level.queue, slot),
         new.total_quantity = WrapQ(level.total_quantity - m[slot].quantity)
  PROVE  Right(new, n)
<1> DEFINE E == Elements(level.queue)
           B == Sum(m, E \ {slot})
<1>1. level.queue \in Seq(Slots)
  BY DEF Level
<1>2. E \in SUBSET Slots /\ E \ {slot} \in SUBSET Slots /\ slot \in E
  BY <1>1, SeqFacts
<1>3. Elements(new.queue) = E \ {slot}
  BY <1>1, Removed
<1> HIDE DEF E
<1>4. Sum(m, E) = m[slot].quantity + B /\ B \in Int /\ m[slot].quantity \in Int
  BY <1>2, SumsOfLevel, SumWithout
<1>5. Sum(n, E \ {slot}) = B
  <2>1. \A s \in E \ {slot} : n[s].quantity = m[s].quantity
    BY DEF E
  <2> QED BY <1>2, <2>1, SumsOfLevel, SumSame
<1> HIDE DEF B
<1>6. PICK q, b : q = m[slot].quantity /\ b = B
  OBVIOUS
<1>7. q \in Int /\ q + b \in Int /\ (q + b) - q = b
  BY <1>4, <1>6
<1>8. level.total_quantity = WrapQ(q + b)
  BY <1>4, <1>6 DEF Right, E
<1>9. WrapQ(WrapQ(q + b) - q) = WrapQ(b)
  BY <1>7, WrapSum
<1>10. new.total_quantity = WrapQ(b)
  BY <1>6, <1>8, <1>9
<1> QED BY <1>3, <1>5, <1>6, <1>10 DEF Right

\* The level of an order that trades and stays.
LEMMA RightReduced ==
  ASSUME NEW level \in Level, NEW m \in [Slots -> OrderRecord],
         NEW n \in [Slots -> OrderRecord], Right(level, m), NEW q \in Int,
         NEW slot \in Elements(level.queue), n[slot].quantity = m[slot].quantity - q,
         \A s \in Elements(level.queue) : s # slot => n[s].quantity = m[s].quantity,
         NEW new, new.queue = level.queue,
         new.total_quantity = WrapQ(level.total_quantity - q)
  PROVE  Right(new, n)
<1> DEFINE E == Elements(level.queue)
           B == Sum(m, E \ {slot})
<1>1. level.queue \in Seq(Slots)
  BY DEF Level
<1>2. E \in SUBSET Slots /\ E \ {slot} \in SUBSET Slots /\ slot \in E
  BY <1>1, SeqFacts
<1> HIDE DEF E
<1>3. Sum(m, E) = m[slot].quantity + B /\ B \in Int /\ m[slot].quantity \in Int
  BY <1>2, SumsOfLevel, SumWithout
<1>4. Sum(n, E) = n[slot].quantity + Sum(n, E \ {slot})
  BY <1>2, SumsOfLevel, SumWithout
<1>5. Sum(n, E \ {slot}) = B
  <2>1. \A s \in E \ {slot} : n[s].quantity = m[s].quantity
    BY DEF E
  <2> QED BY <1>2, <2>1, SumsOfLevel, SumSame
<1> HIDE DEF B
<1>6. PICK p, b : p = m[slot].quantity /\ b = B
  OBVIOUS
<1>7. p + b \in Int /\ (p + b) - q = (p - q) + b
  BY <1>3, <1>6
<1>8. level.total_quantity = WrapQ(p + b)
  BY <1>3, <1>6 DEF Right, E
<1>9. WrapQ(WrapQ(p + b) - q) = WrapQ((p - q) + b)
  BY <1>7, WrapSum
<1>10. Sum(n, E) = (p - q) + b
  BY <1>4, <1>5, <1>6
<1> QED BY <1>8, <1>9, <1>10 DEF Right, E

\* The level of an order that joins it.
LEMMA RightWith ==
  ASSUME NEW level, level.queue \in Seq(Slots), Distinct(level.queue),
         NEW m \in [Slots -> OrderRecord], NEW n \in [Slots -> OrderRecord],
         Right(level, m), NEW slot \in Slots, slot \notin Elements(level.queue),
         \A s \in Slots : n[s].quantity = m[s].quantity,
         NEW new, new.queue = Append(level.queue, slot),
         new.total_quantity = WrapQ(level.total_quantity + m[slot].quantity)
  PROVE  Right(new, n)
<1> DEFINE E == Elements(level.queue)
           F == Elements(new.queue)
<1>1. E \in SUBSET Slots
  BY SeqFacts
<1>2. F = E \cup {slot}
  BY Appended
<1>3. Sum(m, E) = Sum(n, E)
  BY <1>1, SumsOfLevel, SumSame
<1>4. level.total_quantity = WrapQ(Sum(m, E))
  BY DEF Right
<1> HIDE DEF E, F
<1>5. F \in SUBSET Slots /\ slot \in F /\ F \ {slot} = E
  BY <1>1, <1>2 DEF E
<1>6. Sum(n, F) = n[slot].quantity + Sum(n, E) /\ Sum(n, E) \in Int
      /\ n[slot].quantity \in Int
  BY <1>1, <1>5, SumsOfLevel, SumWithout
<1>7. PICK q, b : q = n[slot].quantity /\ b = Sum(n, E)
  OBVIOUS
<1>8. q \in Int /\ b \in Int /\ q + b = b + q
  BY <1>6, <1>7
<1>9. WrapQ(WrapQ(b) + q) = WrapQ(q + b)
  BY <1>8, WrapSum
<1>10. new.total_quantity = WrapQ(WrapQ(b) + q)
  BY <1>3, <1>4, <1>7
<1> QED BY <1>6, <1>7, <1>9, <1>10 DEF Right, F

LEMMA TradeTotals ==
  ASSUME Inv, Totals, Trade
  PROVE  Totals'
<1> DEFINE k == TradeKey
           head == TradeHead
           q == TradeQuantity
           level == levels[k[1]][k[2]]
           reduced == [level EXCEPT !.total_quantity = WrapQ(@ - q)]
           last == Unlinked(reduced, head, 0)
<1>1. /\ order \in Slots /\ k \in LevelKeys /\ head \in Elements(Queue(k))
      /\ head \in Slots /\ head \in Queued /\ head # order /\ q \in Nat
  BY TradeParties DEF Trade
<1>2. /\ orders' \in [Slots -> OrderRecord] /\ orders \in [Slots -> OrderRecord]
      /\ orders'[head] = IF Fills THEN Unused
                         ELSE [orders[head] EXCEPT !.quantity = @ - q]
      /\ \A s \in Slots : s # order /\ s # head => orders'[s] = orders[s]
  BY TradeShape DEF Inv, TypeOK
<1>3. order \notin Queued /\ Queued \subseteq Slots
  BY <1>1, QueuedType, SentinelAssumption DEF Inv, BookSound, Apart, InFlight, TypeOK
<1>4. /\ level \in Level /\ k[1] \in Sides /\ k[2] \in Prices /\ k = <<k[1], k[2]>>
      /\ level # NULL /\ Queue(k) = level.queue /\ Distinct(level.queue)
      /\ Right(level, orders) /\ Elements(Queue(k)) \subseteq Queued
  BY <1>1, LevelFacts DEF Inv, BookSound, QueuesFilled, Totals
<1>5. /\ reduced.queue = level.queue
      /\ reduced.total_quantity = WrapQ(level.total_quantity - q)
      /\ level.total_quantity \in Int
  BY <1>4, DomainAssumption DEF Level
<1>6. /\ last.queue = RemoveFirst(level.queue, head)
      /\ last.total_quantity = WrapQ(level.total_quantity - q)
  <2>1. /\ last.queue = RemoveFirst(reduced.queue, head)
        /\ last.total_quantity = WrapQ(reduced.total_quantity - 0)
    BY DEF Unlinked
  <2>2. level.total_quantity - q \in Int
    BY <1>1, <1>5
  <2> HIDE DEF last, reduced, level
  <2> QED BY <1>5, <2>1, <2>2, WrapSum
<1>7. \E new : /\ levels' = [levels EXCEPT ![k[1]][k[2]] = new]
               /\ Fills /\ new # NULL => new = last
               /\ ~Fills => new = reduced
  <2>1. Opposite(orders[order].side) = k[1] /\ BestPrice(k[1]) = k[2]
    BY DEF TradeKey
  <2>2. head = level.queue[1]
    BY DEF TradeHead, Queue
  <2>3. IF [orders[head] EXCEPT !.quantity = @ - q].quantity = 0
        THEN StoreLevel(k[1], k[2], last)
        ELSE levels' = [levels EXCEPT ![k[1]][k[2]] = reduced]
    BY <2>1, <2>2 DEF Trade, TradeQuantity
  <2>4. [orders[head] EXCEPT !.quantity = @ - q].quantity = 0 <=> Fills
    <3>1. orders[head] \in OrderRecord /\ orders[head].quantity \in Int
      BY <1>1, OrderFacts DEF Inv
    <3>2. [orders[head] EXCEPT !.quantity = @ - q].quantity = orders[head].quantity - q
      BY <3>1 DEF OrderRecord
    <3> QED BY <1>1, <3>1, <3>2 DEF Fills
  <2> HIDE DEF last, reduced, level, k, head, q
  <2> QED BY <2>3, <2>4 DEF StoreLevel
<1> HIDE DEF k, head, q, level, reduced, last
<1>8. PICK new : /\ levels' = [levels EXCEPT ![k[1]][k[2]] = new]
                 /\ Fills /\ new # NULL => new = last
                 /\ ~Fills => new = reduced
  BY <1>7
<1>9. levels' \in [Sides -> [Prices -> Level \cup {NULL}]]
  BY TradeShape, TradeParties, UnlinkedKeys DEF Trade, Inv, BookSound
<1>10. /\ levels'[k[1]][k[2]] = new
       /\ \A j \in Sides \X Prices : j # k => levels'[j[1]][j[2]] = levels[j[1]][j[2]]
  <2>1. levels \in [Sides -> [Prices -> Level \cup {NULL}]]
    BY DEF Inv, TypeOK
  <2>2. \A side \in Sides, p \in Prices :
          levels'[side][p] = IF side = k[1] /\ p = k[2] THEN new ELSE levels[side][p]
    BY <1>4, <1>8, <2>1
  <2> QED BY <1>4, <2>2
<1>11. \A s \in Elements(level.queue) : s # head => orders'[s].quantity = orders[s].quantity
  BY <1>2, <1>3, <1>4
<1>12. ASSUME k \in LevelKeys' PROVE Right(new, orders')
  <2>1. new # NULL
    BY <1>10, <1>12 DEF LevelKeys
  <2>2. CASE Fills
    <3>1. new = last /\ q = orders[head].quantity
      BY <1>8, <2>1, <2>2 DEF Fills, q, head
    <3> QED BY <1>1, <1>2, <1>4, <1>6, <1>11, <3>1, RightWithout
  <2>3. CASE ~Fills
    <3>1. new = reduced
      BY <1>8, <2>3
    <3>2. orders'[head].quantity = orders[head].quantity - q
      <4>1. orders[head] \in OrderRecord
        BY <1>1, OrderFacts DEF Inv
      <4> QED BY <1>2, <2>3, <4>1 DEF OrderRecord
    <3>3. q \in Int /\ head \in Elements(level.queue)
      BY <1>1, <1>4
    <3>4. /\ level \in Level /\ Right(level, orders)
          /\ orders \in [Slots -> OrderRecord] /\ orders' \in [Slots -> OrderRecord]
      BY <1>2, <1>4
    <3>5. reduced.queue = level.queue /\ reduced.total_quantity = WrapQ(level.total_quantity - q)
      BY <1>5
    <3>6. Right(reduced, orders')
      BY <1>11, <3>2, <3>3, <3>4, <3>5, RightReduced
    <3> QED BY <3>1, <3>6
  <2> QED BY <2>2, <2>3
<1>13. ASSUME NEW j \in LevelKeys', j \notin {k}
       PROVE  /\ j \in LevelKeys /\ levels'[j[1]][j[2]] = levels[j[1]][j[2]]
              /\ \A s \in Elements(Queue(j)) : orders'[s].quantity = orders[s].quantity
  <2>1. j \in LevelKeys /\ levels'[j[1]][j[2]] = levels[j[1]][j[2]]
    BY <1>10, <1>13 DEF LevelKeys
  <2>2. ASSUME NEW s \in Elements(Queue(j)) PROVE orders'[s].quantity = orders[s].quantity
    <3>1. s \in Queued
      BY <2>1 DEF Queued
    <3>2. s # head
      BY <1>1, <1>13, <2>1, OneLevel DEF Inv, BookSound
    <3> QED BY <1>2, <1>3, <3>1, <3>2
  <2> QED BY <2>1, <2>2
<1>14. \A j \in LevelKeys' : j \in {k} => Right(levels'[j[1]][j[2]], orders')
  BY <1>10, <1>12
<1>15. TypeOK
  BY DEF Inv
<1> QED BY <1>13, <1>14, <1>15, TotalsKept

LEMMA RestTotals ==
  ASSUME Inv, Totals, Rest
  PROVE  Totals'
<1> DEFINE o == orders[order]
           k == <<orders[order].side, orders[order].price>>
           found == levels[k[1]][k[2]]
           level == IF found = NULL THEN NewLevel ELSE found
           new == Linked(level, order)
<1>1. /\ order \in Slots /\ order # NULL /\ order \notin Queued /\ Queued \subseteq Slots
      /\ o \in OrderRecord /\ o.price \in Prices /\ o.side \in Sides
  <2>1. order \in Slots /\ order # NULL
    BY DEF Rest, Inv, TypeOK
  <2>2. order \notin Queued /\ Queued \subseteq Slots
    BY <2>1, QueuedType DEF Inv, BookSound, Apart, InFlight
  <2> QED BY <2>1, <2>2, OrderFacts DEF Inv, TakerSound
<1>2. /\ k \in Sides \X Prices /\ k[1] = o.side /\ k[2] = o.price
      /\ k = <<k[1], k[2]>>
  BY <1>1
<1>3. /\ levels' = [levels EXCEPT ![k[1]][k[2]] = new]
      /\ orders' = [orders EXCEPT ![order].resting = TRUE]
  BY <1>2 DEF Rest
<1>4. /\ orders \in [Slots -> OrderRecord] /\ orders' \in [Slots -> OrderRecord]
      /\ \A s \in Slots : orders'[s].quantity = orders[s].quantity
  <2>1. orders \in [Slots -> OrderRecord]
    BY DEF Inv, TypeOK
  <2>2. orders' = [orders EXCEPT ![order] = [o EXCEPT !.resting = TRUE]]
    BY <1>3
  <2>3. [o EXCEPT !.resting = TRUE] \in OrderRecord
        /\ [o EXCEPT !.resting = TRUE].quantity = o.quantity
    BY <1>1 DEF OrderRecord
  <2> QED BY <1>1, <2>1, <2>2, <2>3
<1>5. /\ level.queue \in Seq(Slots) /\ Distinct(level.queue) /\ Right(level, orders)
      /\ order \notin Elements(level.queue)
  <2>1. CASE found = NULL
    <3>1. level = NewLevel
      BY <2>1
    <3> HIDE DEF level
    <3>2. level.queue = <<>> /\ level.total_quantity = 0
      BY <3>1 DEF NewLevel
    <3>3. Elements(level.queue) = {} /\ Distinct(level.queue) /\ level.queue \in Seq(Slots)
      BY <3>2, EmptySeq DEF Elements, Distinct
    <3>4. WrapQ(0) = 0
      BY WrapSum
    <3> QED BY <3>2, <3>3, <3>4, SumOfNone DEF Right
  <2>2. CASE found # NULL
    <3>1. k \in LevelKeys /\ level = found
      BY <1>2, <2>2 DEF LevelKeys
    <3>2. /\ found.queue = Queue(k) /\ Queue(k) \in Seq(Slots)
          /\ Elements(Queue(k)) \subseteq Queued
          /\ Distinct(Queue(k)) /\ Right(found, orders)
      BY <3>1, LevelFacts DEF Inv, BookSound, QueuesFilled, Totals
    <3> QED BY <1>1, <3>1, <3>2
  <2> QED BY <2>1, <2>2
<1>6. /\ new.queue = Append(level.queue, order)
      /\ new.total_quantity = WrapQ(level.total_quantity + orders[order].quantity)
  BY DEF Linked
<1> HIDE DEF level, new, found, o, k
<1>7. Right(new, orders')
  BY <1>1, <1>4, <1>5, <1>6, RightWith
<1>8. /\ levels'[k[1]][k[2]] = new
      /\ \A j \in Sides \X Prices : j # k => levels'[j[1]][j[2]] = levels[j[1]][j[2]]
  <2>1. levels \in [Sides -> [Prices -> Level \cup {NULL}]]
    BY DEF Inv, TypeOK
  <2>2. \A side \in Sides, p \in Prices :
          levels'[side][p] = IF side = k[1] /\ p = k[2] THEN new ELSE levels[side][p]
    BY <1>2, <1>3, <2>1
  <2> QED BY <1>2, <2>2
<1>9. ASSUME NEW j \in LevelKeys', j \notin {k}
      PROVE  /\ j \in LevelKeys /\ levels'[j[1]][j[2]] = levels[j[1]][j[2]]
             /\ \A s \in Elements(Queue(j)) : orders'[s].quantity = orders[s].quantity
  <2>1. j \in LevelKeys /\ levels'[j[1]][j[2]] = levels[j[1]][j[2]]
    BY <1>8, <1>9 DEF LevelKeys
  <2>2. \A s \in Elements(Queue(j)) : s \in Slots
    BY <2>1, LevelFacts DEF Inv
  <2> QED BY <1>4, <2>1, <2>2
<1>10. \A j \in LevelKeys' : j \in {k} => Right(levels'[j[1]][j[2]], orders')
  BY <1>7, <1>8
<1>11. TypeOK
  BY DEF Inv
<1> QED BY <1>9, <1>10, <1>11, TotalsKept

LEMMA WithdrawTotals ==
  ASSUME Inv, Totals, NEW id \in Ids, Live(id), Withdraw(id)
  PROVE  Totals'
<1> DEFINE slot == Map!Find(id)
           o == orders[slot]
           k == <<orders[Map!Find(id)].side, orders[Map!Find(id)].price>>
           level == levels[k[1]][k[2]]
           new == Unlinked(level, slot, o.quantity)
<1>1. slot \in Queued /\ slot \in Slots /\ Queued \subseteq Slots
  BY QueuedType DEF Live, Inv, MapSound, MapAgrees
<1>2. k \in LevelKeys /\ slot \in Elements(Queue(k)) /\ o.resting
      /\ k[1] = o.side /\ k[2] = o.price
  <2>1. PICK j \in LevelKeys : slot \in Elements(Queue(j))
    BY <1>1 DEF Queued
  <2>2. o.resting /\ o.side = j[1] /\ o.price = j[2] /\ j = <<j[1], j[2]>>
    BY <2>1, LevelFacts DEF Inv, BookSound, Placed
  <2> QED BY <2>1, <2>2
<1>3. StoreLevel(k[1], k[2], new) /\ orders' = [orders EXCEPT ![slot] = Unused]
  BY <1>2 DEF Withdraw
<1>4. /\ level \in Level /\ k[1] \in Sides /\ k[2] \in Prices /\ k = <<k[1], k[2]>>
      /\ Queue(k) = level.queue /\ Distinct(level.queue) /\ Right(level, orders)
  BY <1>2, LevelFacts DEF Inv, BookSound, QueuesFilled, Totals
<1>5. /\ new.queue = RemoveFirst(level.queue, slot)
      /\ new.total_quantity = WrapQ(level.total_quantity - orders[slot].quantity)
  BY DEF Unlinked
<1> HIDE DEF slot, o, k, level, new
<1>6. /\ orders \in [Slots -> OrderRecord] /\ orders' \in [Slots -> OrderRecord]
      /\ \A s \in Slots : s # slot => orders'[s] = orders[s]
  <2>1. Unused \in OrderRecord
    BY DomainAssumption DEF Unused, OrderRecord, Sides
  <2> QED BY <1>1, <1>3, <2>1 DEF Inv, TypeOK
<1>7. \A s \in Elements(level.queue) : s # slot => orders'[s].quantity = orders[s].quantity
  BY <1>2, <1>4, <1>6, LevelFacts DEF Inv
<1>8. Right(new, orders')
  BY <1>2, <1>4, <1>5, <1>6, <1>7, RightWithout
<1>9. /\ levels'[k[1]][k[2]] \in {new, NULL}
      /\ \A j \in Sides \X Prices : j # k => levels'[j[1]][j[2]] = levels[j[1]][j[2]]
  <2>1. levels \in [Sides -> [Prices -> Level \cup {NULL}]]
    BY DEF Inv, TypeOK
  <2>2. PICK l \in {new, NULL} : levels' = [levels EXCEPT ![k[1]][k[2]] = l]
    BY <1>3 DEF StoreLevel
  <2>3. \A side \in Sides, p \in Prices :
          levels'[side][p] = IF side = k[1] /\ p = k[2] THEN l ELSE levels[side][p]
    BY <1>4, <2>1, <2>2
  <2> QED BY <1>4, <2>3
<1>10. ASSUME NEW j \in LevelKeys', j \notin {k}
       PROVE  /\ j \in LevelKeys /\ levels'[j[1]][j[2]] = levels[j[1]][j[2]]
              /\ \A s \in Elements(Queue(j)) : orders'[s].quantity = orders[s].quantity
  <2>1. j \in LevelKeys /\ levels'[j[1]][j[2]] = levels[j[1]][j[2]]
    BY <1>9, <1>10 DEF LevelKeys
  <2>2. ASSUME NEW s \in Elements(Queue(j)) PROVE orders'[s].quantity = orders[s].quantity
    <3>1. s \in Slots
      BY <2>1, LevelFacts DEF Inv
    <3>2. s # slot
      BY <1>2, <1>10, <2>1, OneLevel DEF Inv, BookSound
    <3> QED BY <1>6, <3>1, <3>2
  <2> QED BY <2>1, <2>2
<1>11. \A j \in LevelKeys' : j \in {k} => Right(levels'[j[1]][j[2]], orders')
  BY <1>8, <1>9 DEF LevelKeys
<1>12. TypeOK
  BY DEF Inv
<1> QED BY <1>10, <1>11, <1>12, TotalsKept

LEMMA TotalsStep == Inv /\ Totals /\ [Next]_vars => Totals'
<1> SUFFICES ASSUME Inv, Totals, [Next]_vars PROVE Totals'
  OBVIOUS
<1>1. TypeOK /\ Queued \subseteq Slots /\ orders \in [Slots -> OrderRecord]
  BY QueuedType DEF Inv, TypeOK
<1>2. ASSUME UNCHANGED vars PROVE Totals'
  BY <1>1, <1>2, QuietTotals DEF vars, poolVars, bookVars
<1>3. ASSUME NEW slot \in Slots, slot \notin Queued, levels' = levels,
             NEW new, orders' = [orders EXCEPT ![slot] = new]
      PROVE  Totals'
  BY <1>1, <1>3, QuietTotals
<1>4. ASSUME NEW id, NEW side, NEW price, NEW quantity, Admit(id, side, price, quantity)
      PROVE  Totals'
  <2>1. Head(free_list_) \in Slots /\ Head(free_list_) \in Elements(free_list_)
    BY <1>4, Acquired DEF Admit, Inv, TypeOK, BookSound, Apart
  <2>2. Head(free_list_) \notin Queued
    BY <2>1 DEF Inv, BookSound, Apart
  <2> QED BY <1>3, <1>4, <2>1, <2>2 DEF Admit, bookVars
<1>5. pc \in {"match", "rest"} => order \in Slots /\ order \notin Queued
  <2>1. pc \in {"match", "rest"} => order \in Slots /\ order # NULL
    BY DEF Inv, TypeOK
  <2> QED BY <2>1 DEF Inv, BookSound, Apart, InFlight
<1>6. CASE MatchEnd
  <2>1. pc \in {"match", "rest"} /\ levels' = levels
    BY <1>6 DEF MatchEnd, bookVars
  <2>2. orders' = [orders EXCEPT ![order] = Unused] \/ orders' = orders
    BY <1>6 DEF MatchEnd, poolVars
  <2> QED BY <1>1, <1>3, <1>5, <2>1, <2>2, QuietTotals
<1>7. CASE Drop
  BY <1>3, <1>5, <1>7 DEF Drop, bookVars
<1>8. CASE Clear
  <2>1. LevelKeys' = {}
    BY <1>8 DEF Clear, LevelKeys
  <2> QED BY <2>1, TotalsNext
<1>9. ASSUME NEW id \in Ids, CancelOrder(id) PROVE Totals'
  BY <1>9, WithdrawTotals DEF CancelOrder
<1>10. ASSUME NEW id \in Ids, NEW price, NEW quantity, ModifyOrder(id, price, quantity)
       PROVE  Totals'
  BY <1>10, WithdrawTotals DEF ModifyOrder
<1>11. ASSUME NEW id, RefusedAdd(id) \/ UnknownId(id) PROVE Totals'
  BY <1>2, <1>11 DEF RefusedAdd, UnknownId
<1>12. ASSUME NEW id, NEW side, NEW price, NEW quantity,
              AddOrder(id, side, price, quantity)
       PROVE  Totals'
  BY <1>4, <1>12 DEF AddOrder
<1>13. CASE Readmit
  BY <1>4, <1>13 DEF Readmit
<1> QED BY <1>2, <1>6, <1>7, <1>8, <1>9, <1>10, <1>11, <1>12, <1>13, TradeTotals,
        RestTotals DEF Next

------------------------------------------------------------------------------
(* The depth queries.                                                      *)

\* f lists the prices S, the lowest first.
InOrder(f, S) ==
  /\ f \in [1..Cardinality(S) -> S]
  /\ \A i, j \in 1..Cardinality(S) : i < j => f[i] < f[j]
  /\ \A s \in S : \E i \in 1..Cardinality(S) : f[i] = s

LEMMA OrderExists ==
  ASSUME NEW S \in SUBSET Int, IsFiniteSet(S)
  PROVE  \E f : InOrder(f, S)
<1> DEFINE D == {s \in SUBSET S : \A f : ~InOrder(f, s)}
<1>1. D = {}
  <2> SUFFICES ASSUME D # {} PROVE FALSE
    OBVIOUS
  <2>1. PICK s \in D : /\ IsFiniteSet(s) /\ Cardinality(s) \in Nat
                       /\ \A x \in s : s \ {x} \notin D
    <3>1. D \in SUBSET SUBSET S
      OBVIOUS
    <3> HIDE DEF D
    <3> QED BY <3>1, Smallest
  <2>2. s \in SUBSET S /\ s \in SUBSET Int /\ \A f : ~InOrder(f, s)
    OBVIOUS
  <2>3. CASE s = {}
    <3>1. Cardinality(s) = 0
      BY <2>3, FS_EmptySet
    <3>2. PICK f : f = [i \in 1..0 |-> 0]
      OBVIOUS
    <3>3. InOrder(f, s)
      BY <2>3, <3>1, <3>2 DEF InOrder
    <3> QED BY <2>2, <3>3
  <2>4. CASE s # {}
    <3>1. PICK m \in s : \A q \in s : ~(q > m)
      BY <2>1, <2>2, <2>4, BestExists DEF Sides, Before
    <3>2. PICK c : c = Cardinality(s)
      OBVIOUS
    <3>3. PICK t : t = s \ {m}
      OBVIOUS
    <3>4. Cardinality(t) = c - 1 /\ c - 1 \in Nat /\ c \in Nat
      <4>1. Cardinality(t) = c - 1 /\ IsFiniteSet(t)
        BY <2>1, <3>1, <3>2, <3>3, FS_RemoveElement, FS_Subset
      <4> QED BY <2>1, <3>2, <4>1, FS_CardinalityType
    <3>5. PICK g : InOrder(g, t)
      BY <2>1, <2>2, <3>3
    <3>6. PICK f : f = [i \in 1..c |-> IF i = c THEN m ELSE g[i]]
      OBVIOUS
    <3> HIDE DEF D
    <3>7. /\ \A i \in 1..c - 1 : g[i] \in t /\ g[i] \in s /\ g[i] < m
          /\ \A i, j \in 1..c - 1 : i < j => g[i] < g[j]
          /\ \A x \in t : \E i \in 1..c - 1 : g[i] = x
      <4>1. /\ g \in [1..c - 1 -> t]
            /\ \A i, j \in 1..c - 1 : i < j => g[i] < g[j]
            /\ \A x \in t : \E i \in 1..c - 1 : g[i] = x
        BY <3>4, <3>5 DEF InOrder
      <4>2. \A x \in t : x \in s /\ x < m
        BY <2>2, <3>1, <3>3
      <4> QED BY <4>1, <4>2
    <3>8. \A i \in 1..c : f[i] = (IF i = c THEN m ELSE g[i]) /\ (i # c => i \in 1..c - 1)
      BY <3>4, <3>6
    <3>9. f \in [1..c -> s]
      BY <3>1, <3>6, <3>7, <3>8
    <3>10. \A i, j \in 1..c : i < j => f[i] < f[j]
      BY <3>4, <3>7, <3>8
    <3>11. \A x \in s : \E i \in 1..c : f[i] = x
      <4>1. c \in 1..c /\ \A i \in 1..c - 1 : i \in 1..c /\ i # c
        BY <3>4
      <4> QED BY <3>3, <3>7, <3>8, <4>1
    <3>12. InOrder(f, s)
      BY <3>2, <3>9, <3>10, <3>11 DEF InOrder
    <3> QED BY <2>2, <3>12
  <2> QED BY <2>3, <2>4
<1> QED BY <1>1

\* The levels a walk visits, one after the other.
Steps(a, side, next, n) ==
  a = [k \in 1..n |-> IF k = 1 THEN BestPrice(side)
                      ELSE IF a[k - 1] = INVALID_PRICE THEN INVALID_PRICE
                      ELSE next[a[k - 1]]]

LEMMA WalkSteps ==
  ASSUME NEW side, NEW next, NEW n \in Nat, NEW a, Steps(a, side, next, n)
  PROVE  Walk(side, next, n)
           = [k \in 1..Cardinality({i \in 1..n : a[i] # INVALID_PRICE}) |-> a[k]]
<1>1. PICK b : b = CHOOSE c : Steps(c, side, next, n)
  OBVIOUS
<1>2. Steps(b, side, next, n)
  BY <1>1
<1>3. Walk(side, next, n)
        = [k \in 1..Cardinality({i \in 1..n : b[i] # INVALID_PRICE}) |-> b[k]]
  BY <1>1 DEF Walk, Steps
<1> DEFINE D == {k \in 1..n : a[k] # b[k]}
<1>4. D = {}
  <2> SUFFICES ASSUME D # {} PROVE FALSE
    OBVIOUS
  <2>1. PICK k \in D : \A j \in D : k <= j
    <3>1. D \in SUBSET Nat
      OBVIOUS
    <3> HIDE DEF D
    <3> QED BY <3>1, MapFits, P!Least
  <2>2. k \in 1..n /\ a[k] # b[k]
    OBVIOUS
  <2>3. k # 1 => a[k - 1] = b[k - 1]
    <3>1. k # 1 => k - 1 \in 1..n /\ ~(k <= k - 1)
      BY <2>2
    <3> QED BY <2>1, <3>1
  <2>4. a[k] = IF k = 1 THEN BestPrice(side)
               ELSE IF a[k - 1] = INVALID_PRICE THEN INVALID_PRICE ELSE next[a[k - 1]]
    BY <2>2 DEF Steps
  <2>5. b[k] = IF k = 1 THEN BestPrice(side)
               ELSE IF b[k - 1] = INVALID_PRICE THEN INVALID_PRICE ELSE next[b[k - 1]]
    BY <1>2, <2>2 DEF Steps
  <2> HIDE DEF D
  <2> QED BY <2>2, <2>3, <2>4, <2>5
<1>5. a = [k \in 1..n |-> a[k]] /\ b = [k \in 1..n |-> b[k]]
  BY <1>2 DEF Steps
<1>6. a = b
  BY <1>4, <1>5
<1> QED BY <1>3, <1>6

\* The next price of the tree is the next of the list.
LEMMA AskSuccessor ==
  ASSUME IsFiniteSet(LevelKeys), NEW f, InOrder(f, LevelPrices("Sell"))
  PROVE  LET c == Cardinality(LevelPrices("Sell")) IN
         /\ c \in Nat
         /\ BestPrice("Sell") = IF c = 0 THEN INVALID_PRICE ELSE f[1]
         /\ \A k \in 1..c : /\ f[k] \in Prices /\ f[k] # INVALID_PRICE
                            /\ Successor("Sell", f[k])
                                 = IF k = c THEN INVALID_PRICE ELSE f[k + 1]
<1> DEFINE S == LevelPrices("Sell")
           c == Cardinality(S)
<1>1. /\ IsFiniteSet(S) /\ S \in SUBSET Int /\ INVALID_PRICE \notin S
      /\ S \subseteq Prices
  BY PricesFinite, KeysOfPrices DEF Sides
<1>2. c \in Nat /\ (c = 0 <=> S = {})
  BY <1>1, FS_CardinalityType, FS_EmptySet
<1>3. S # {} => BestPrice("Sell") \in S /\ \A q \in S : ~(q < BestPrice("Sell"))
  BY BestIsFirst DEF Sides, Before
<1>4. S = {} => BestPrice("Sell") = INVALID_PRICE
  BY DEF BestPrice
<1>5. \A p : Successor("Sell", p) =
        IF {q \in S : p < q} = {} THEN INVALID_PRICE
        ELSE CHOOSE r \in {q \in S : p < q} : \A q \in {q \in S : p < q} : ~(q < r)
  BY DEF Successor, MinimumOf, Before
<1> HIDE DEF S
<1>6. /\ \A i \in 1..c : f[i] \in S /\ f[i] \in Int
      /\ \A i, j \in 1..c : i < j => f[i] < f[j]
      /\ \A s \in S : \E i \in 1..c : f[i] = s
  BY <1>1 DEF InOrder, S
<1> HIDE DEF c
<1>7. BestPrice("Sell") = IF c = 0 THEN INVALID_PRICE ELSE f[1]
  <2>1. CASE c = 0
    BY <1>2, <1>4, <2>1
  <2>2. CASE c # 0
    <3>1. 1 \in 1..c /\ \A i \in 1..c : i = 1 \/ 1 < i
      BY <1>2, <2>2
    <3>2. PICK b : b = BestPrice("Sell")
      OBVIOUS
    <3>3. b \in S /\ \A q \in S : ~(q < b)
      BY <1>2, <1>3, <2>2, <3>2
    <3>4. PICK i \in 1..c : f[i] = b
      BY <1>6, <3>3
    <3>5. ~(1 < i)
      BY <1>6, <3>1, <3>3, <3>4
    <3> QED BY <2>2, <3>1, <3>2, <3>4, <3>5
  <2> QED BY <2>1, <2>2
<1>8. ASSUME NEW k \in 1..c
      PROVE  Successor("Sell", f[k]) = IF k = c THEN INVALID_PRICE ELSE f[k + 1]
  <2>1. PICK after : after = {q \in S : f[k] < q}
    OBVIOUS
  <2>2. Successor("Sell", f[k]) =
          IF after = {} THEN INVALID_PRICE
          ELSE CHOOSE r \in after : \A q \in after : ~(q < r)
    BY <1>5, <2>1
  <2>3. CASE k = c
    <3>1. ASSUME NEW q \in after PROVE FALSE
      <4>1. PICK i \in 1..c : f[i] = q
        BY <1>6, <2>1
      <4>2. f[k] < f[i] /\ (i = k \/ i < k)
        BY <1>2, <2>1, <2>3, <4>1
      <4> QED BY <1>6, <4>2
    <3> QED BY <2>2, <2>3, <3>1
  <2>4. CASE k # c
    <3>1. k + 1 \in 1..c /\ k < k + 1
      BY <1>2, <2>4
    <3>2. f[k + 1] \in after
      BY <1>6, <2>1, <3>1
    <3>3. \A q \in after : q = f[k + 1] \/ f[k + 1] < q
      <4> SUFFICES ASSUME NEW q \in after PROVE q = f[k + 1] \/ f[k + 1] < q
        OBVIOUS
      <4>1. PICK i \in 1..c : f[i] = q
        BY <1>6, <2>1
      <4>2. f[k] < f[i]
        BY <2>1, <4>1
      <4>3. ~(i < k) /\ i # k
        BY <1>6, <4>2
      <4>4. i = k + 1 \/ k + 1 < i
        BY <1>2, <4>3
      <4> QED BY <1>6, <3>1, <4>1, <4>4
    <3>4. PICK r : r = CHOOSE a \in after : \A q \in after : ~(q < a)
      OBVIOUS
    <3>5. \A q \in after : q \in Int
      BY <1>1, <2>1
    <3>6. \A q \in after : ~(q < f[k + 1])
      BY <1>6, <3>1, <3>3, <3>5
    <3>7. r \in after /\ \A q \in after : ~(q < r)
      BY <3>2, <3>4, <3>6
    <3>8. r = f[k + 1]
      BY <3>2, <3>3, <3>7
    <3> QED BY <2>2, <2>4, <3>2, <3>4, <3>8
  <2> QED BY <2>3, <2>4
<1>9. \A k \in 1..c : f[k] \in Prices /\ f[k] # INVALID_PRICE
  BY <1>1, <1>6
<1> QED BY <1>2, <1>7, <1>8, <1>9 DEF c, S

LEMMA AsksWalked ==
  ASSUME IsFiniteSet(LevelKeys), NEW n \in Nat, NEW f, InOrder(f, LevelPrices("Sell"))
  PROVE  GetAsks(n) = [i \in 1..Lesser(n, Cardinality(LevelPrices("Sell"))) |-> f[i]]
<1>1. PICK c : c = Cardinality(LevelPrices("Sell"))
  OBVIOUS
<1>2. PICK next : next = [p \in Prices |-> Successor("Sell", p)]
  OBVIOUS
<1>3. /\ c \in Nat
      /\ BestPrice("Sell") = IF c = 0 THEN INVALID_PRICE ELSE f[1]
      /\ \A k \in 1..c : /\ f[k] # INVALID_PRICE
                         /\ next[f[k]] = IF k = c THEN INVALID_PRICE ELSE f[k + 1]
  BY <1>1, <1>2, AskSuccessor
<1>4. PICK a : a = [k \in 1..n |-> IF k <= c THEN f[k] ELSE INVALID_PRICE]
  OBVIOUS
<1>5. ASSUME NEW k \in 1..n
      PROVE  a[k] = IF k = 1 THEN BestPrice("Sell")
                    ELSE IF a[k - 1] = INVALID_PRICE THEN INVALID_PRICE
                    ELSE next[a[k - 1]]
  <2>1. a[k] = IF k <= c THEN f[k] ELSE INVALID_PRICE
    BY <1>4
  <2>2. CASE k = 1
    <3>1. k <= c <=> c # 0
      BY <1>3, <2>2
    <3> QED BY <1>3, <2>1, <2>2, <3>1
  <2>3. CASE k # 1
    <3>1. k - 1 \in 1..n /\ (k - 1) + 1 = k
      BY <2>3
    <3>2. a[k - 1] = IF k - 1 <= c THEN f[k - 1] ELSE INVALID_PRICE
      BY <1>4, <3>1
    <3>3. CASE k <= c
      <4>1. k - 1 \in 1..c /\ k - 1 # c /\ k - 1 <= c
        BY <1>3, <2>3, <3>1, <3>3
      <4>2. next[f[k - 1]] = f[k] /\ f[k - 1] # INVALID_PRICE
        BY <1>3, <3>1, <4>1
      <4> QED BY <2>1, <2>3, <3>2, <3>3, <4>1, <4>2
    <3>4. CASE k - 1 = c
      <4>1. ~(k <= c) /\ k - 1 <= c /\ k - 1 \in 1..c
        BY <1>3, <3>1, <3>4
      <4>2. next[f[k - 1]] = INVALID_PRICE
        BY <1>3, <3>4, <4>1
      <4> QED BY <2>1, <2>3, <3>2, <4>1, <4>2
    <3>5. CASE ~(k <= c) /\ k - 1 # c
      <4>1. ~(k - 1 <= c)
        BY <1>3, <3>1, <3>5
      <4> QED BY <2>1, <2>3, <3>2, <3>5, <4>1
    <3> QED BY <3>3, <3>4, <3>5
  <2> QED BY <2>2, <2>3
<1>6. Steps(a, "Sell", next, n)
  BY <1>4, <1>5 DEF Steps
<1>7. GetAsks(n) = [k \in 1..Cardinality({i \in 1..n : a[i] # INVALID_PRICE}) |-> a[k]]
  <2>1. GetAsks(n) = Walk("Sell", next, n)
    BY <1>2 DEF GetAsks
  <2> QED BY <1>6, <2>1, WalkSteps
<1>8. PICK l : l = Lesser(n, c)
  OBVIOUS
<1>9. l \in Nat /\ l <= n /\ l <= c /\ \A i \in 1..n : i <= c <=> i <= l
  BY <1>3, <1>8 DEF Lesser
<1>10. {i \in 1..n : a[i] # INVALID_PRICE} = 1..l
  <2>1. \A i \in 1..n : a[i] # INVALID_PRICE <=> i <= l
    <3>1. \A i \in 1..n : i <= c => i \in 1..c
      BY <1>3
    <3> QED BY <1>3, <1>4, <1>9, <3>1
  <2>2. \A i \in 1..l : i \in 1..n /\ i <= l
    BY <1>9
  <2>3. \A i \in 1..n : i <= l => i \in 1..l
    BY <1>9
  <2> QED BY <2>1, <2>2, <2>3
<1>11. Cardinality(1..l) = l
  <2>1. 1 \in Int /\ l \in Int /\ (1 > l => l = 0) /\ l - 1 + 1 = l
    BY <1>9
  <2> QED BY <2>1, FS_Interval
<1>12. \A k \in 1..l : a[k] = f[k]
  <2>1. \A k \in 1..l : k \in 1..n /\ k <= c
    BY <1>3, <1>9
  <2> QED BY <1>4, <2>1
<1>13. GetAsks(n) = [k \in 1..l |-> a[k]]
  BY <1>7, <1>10, <1>11
<1>14. GetAsks(n) = [k \in 1..l |-> f[k]]
  BY <1>12, <1>13
<1> QED BY <1>1, <1>8, <1>14

------------------------------------------------------------------------------
(* What the invariant says of the runs' properties.                        *)

LEMMA Invariance == Spec /\ NoCut => []Inv
<1>1. Init => Inv
  BY InitSound
<1>2. Inv /\ [Next]_vars /\ [CutsNone]_vars => Inv'
  BY InvStep
<1> QED BY <1>1, <1>2, PTL DEF Spec, NoCut

LEMMA ApartInPlaces == Inv => NoSlotInTwoPlaces
<1> SUFFICES ASSUME Inv PROVE NoSlotInTwoPlaces
  OBVIOUS
<1>1. \A i, j \in DOMAIN free_list_ : free_list_[i] = free_list_[j] => i = j
  BY DEF Inv, BookSound, Apart, Distinct
<1>2. \A i, j \in DOMAIN arrivals : arrivals[i] = arrivals[j] => i = j
  BY DEF Inv, BookSound, Arrived, Distinct
<1>3. ASSUME NEW k \in LevelKeys, NEW l \in LevelKeys, NEW i \in DOMAIN Queue(k),
             NEW j \in DOMAIN Queue(l), Queue(k)[i] = Queue(l)[j]
      PROVE  k = l /\ i = j
  <2>1. Queue(k)[i] \in Elements(Queue(k)) /\ Queue(k)[i] \in Elements(Queue(l))
    BY <1>3 DEF Elements
  <2>2. k = l
    BY <2>1, OneLevel DEF Inv, BookSound
  <2> QED BY <1>3, <2>2 DEF Inv, BookSound, QueuesFilled, Distinct
<1> QED BY <1>1, <1>2, <1>3 DEF NoSlotInTwoPlaces, Inv, BookSound, Arrived, Apart

LEMMA CountedSlots == Inv => (clears = 0 => NothingLeaks)
<1> SUFFICES ASSUME Inv, clears = 0 PROVE NothingLeaks
  OBVIOUS
<1> DEFINE F == Elements(free_list_)
<1>1. free_list_ \in Seq(Slots) /\ order \in Slots \cup {NULL}
  BY DEF Inv, TypeOK
<1>2. F \subseteq Slots /\ Queued \subseteq Slots /\ InFlight \subseteq Slots
  BY <1>1, SeqFacts, QueuedType DEF InFlight, Inv
<1>3. Len(free_list_) = Cardinality(F)
  BY <1>1, DistinctLen DEF Inv, BookSound, Apart
<1> HIDE DEF F
<1>4. /\ IsFiniteSet(F) /\ IsFiniteSet(Queued) /\ IsFiniteSet(InFlight)
      /\ Cardinality(F) \in Nat /\ Cardinality(Queued) \in Nat
      /\ Cardinality(InFlight) \in Nat
  BY <1>2, SlotsFinite
<1>5. /\ F \cap (Queued \cup InFlight) = {} /\ Queued \cap InFlight = {}
      /\ F \cup (Queued \cup InFlight) = Slots
  BY <1>2 DEF Inv, BookSound, Apart, AllUsed, F
<1>6. ASSUME NEW S, NEW T, IsFiniteSet(S), IsFiniteSet(T), S \cap T = {}
      PROVE  /\ IsFiniteSet(S \cup T)
             /\ Cardinality(S \cup T) = Cardinality(S) + Cardinality(T)
  <2>1. /\ IsFiniteSet(S \cup T)
        /\ Cardinality(S \cup T) = Cardinality(S) + Cardinality(T) - Cardinality({})
    BY <1>6, FS_Union
  <2>2. Cardinality({}) = 0 /\ Cardinality(S) \in Nat /\ Cardinality(T) \in Nat
    BY <1>6, FS_EmptySet, FS_CardinalityType
  <2> QED BY <2>1, <2>2
<1>7. Cardinality(Slots) = Cardinality(F) + (Cardinality(Queued) + Cardinality(InFlight))
  <2>1. /\ IsFiniteSet(Queued \cup InFlight)
        /\ Cardinality(Queued \cup InFlight) = Cardinality(Queued) + Cardinality(InFlight)
    BY <1>4, <1>5, <1>6
  <2>2. Cardinality(F \cup (Queued \cup InFlight))
          = Cardinality(F) + Cardinality(Queued \cup InFlight)
    BY <1>4, <1>5, <1>6, <2>1
  <2> QED BY <1>5, <2>1, <2>2
<1>8. Cardinality(Slots) = MaxOrders
  <2>1. 1 \in Int /\ MaxOrders \in Int /\ MaxOrders >= 1
    BY PoolAssumption
  <2>2. Cardinality(1..MaxOrders) = IF 1 > MaxOrders THEN 0 ELSE MaxOrders - 1 + 1
    BY <2>1, FS_Interval
  <2> QED BY <2>1, <2>2 DEF Slots
<1>9. Len(free_list_) + Cardinality(Queued) + Cardinality(InFlight) = MaxOrders
  BY <1>3, <1>4, <1>7, <1>8
<1> QED BY <1>9 DEF NothingLeaks, Inv, BookSound, LevelsCounted

\* Nothing but Drop ends a call in which an order came to rest without adding it to
\* the book.
LEMMA OnlyDropDrops ==
  ASSUME Inv, Next, Drops
  PROVE  Drop
<1>1. pc = "rest" /\ pc' = "idle" /\ arrivals' = arrivals
  BY DEF Drops
<1>2. ~Rest
  <2> SUFFICES ASSUME Rest PROVE FALSE
    OBVIOUS
  <2>1. arrivals' = Append(arrivals, order) /\ arrivals \in Seq(Slots) /\ order \in Slots
    BY <1>1 DEF Rest, Inv, TypeOK
  <2>2. Len(arrivals') = Len(arrivals) + 1 /\ Len(arrivals) \in Nat
    BY <2>1, AppendProperties, LenProperties
  <2> QED BY <1>1, <2>2
<1> QED BY <1>1, <1>2 DEF Next, AddOrder, Readmit, Trade, MatchEnd, CancelOrder,
           RefusedAdd, UnknownId, ModifyOrder, Clear

LEMMA DroppedUntraded ==
  ASSUME Inv, [Next]_vars, Drops
  PROVE  trades = <<>> /\ (clears = 0 => Cardinality(LevelKeys) = MaxLevels)
<1>1. Next
  <2>1. pc' # pc
    BY DEF Drops
  <2> QED BY <2>1 DEF vars, callVars
<1>2. Drop
  BY <1>1, OnlyDropDrops
<1>3. level_available \in Nat /\ order \in Slots /\ pc = "rest"
  BY <1>2, PoolAssumption DEF Drop, Inv, TypeOK
<1>4. ~(level_available > 0)
  BY <1>2 DEF Drop, CanRest
<1>5. trades = <<>>
  BY <1>3, <1>4 DEF Inv, Control
<1>6. ASSUME clears = 0 PROVE Cardinality(LevelKeys) = MaxLevels
  <2>1. level_available = 0
    BY <1>3, <1>4
  <2>2. Cardinality(LevelKeys) \in Nat
    BY FS_CardinalityType DEF Inv, BookSound, LevelsCounted
  <2> QED BY <1>6, <2>1, <2>2, PoolAssumption DEF Inv, BookSound, LevelsCounted
<1> QED BY <1>5, <1>6

------------------------------------------------------------------------------
(* The theorems.                                                           *)

\* Every variable keeps its type; in particular free_list_ never holds more slots than
\* order_pool_ has, and levels are never acquired from an empty level_pool_
\* (memory_pool.hpp:31-60).
THEOREM TypeCorrect == Spec /\ NoCut => []TypeOK
<1>1. Inv => TypeOK
  BY DEF Inv
<1> QED BY <1>1, Invariance, PTL

\* A slot of order_pool_ is used for one thing at a time: no order is in two lists,
\* released twice or released while it is linked, and add_order is never given the
\* slot of an order that rests (orderbook.cpp:14-47, 54-69).
THEOREM SlotsApart == Spec /\ NoCut => []NoSlotInTwoPlaces
BY Invariance, ApartInPlaces, PTL

\* cancel_order and modify_order reach every resting order by its own id, find no
\* order that has left the book, and size() counts the resting orders
\* (orderbook.cpp:54-84, orderbook.hpp:226).
THEOREM MapIsTheBook == Spec /\ NoCut => []MapAgrees
<1>1. Inv => MapAgrees
  BY DEF Inv, MapSound
<1> QED BY <1>1, Invariance, PTL

\* Except while an order is being matched every bid is below every ask
\* (orderbook.cpp:145-225).
THEOREM BookUncrossed == Spec /\ NoCut => []NeverCrossed
<1>1. Inv => NeverCrossed
  BY DEF Inv, Uncrossed, NeverCrossed
<1> QED BY <1>1, Invariance, PTL

\* Every level is linked to the orders that point to it, is not empty, and its counts
\* are those of its list, total_quantity modulo 2^32: each fill is subtracted as it
\* happens and what is left of an order when it is cancelled (orderbook.cpp:242,
\* orderbook.hpp:91-117).
THEOREM LevelTotals == Spec /\ NoCut => []LevelsAddUp
<1>1. Init => Totals
  BY DEF Init, Totals, LevelKeys
<1>2. Inv /\ Totals /\ [Next]_vars => Totals'
  BY TotalsStep
<1>3. Inv /\ Totals => LevelsAddUp
  <2> SUFFICES ASSUME Inv, Totals, NEW k \in LevelKeys
               PROVE  LET level == levels[k[1]][k[2]] IN
                      /\ level.queue # <<>>
                      /\ \A s \in Elements(level.queue) :
                           /\ orders[s].side = k[1] /\ orders[s].price = k[2]
                           /\ orders[s].resting
                      /\ level.order_count = Len(level.queue)
                      /\ level.total_quantity = WrapQ(Sum(orders, Elements(level.queue)))
    BY DEF LevelsAddUp, Sum, MapThenSumSet, MapThenFoldSet
  <2>1. QueuesFilled /\ Placed /\ Right(levels[k[1]][k[2]], orders)
    BY DEF Inv, BookSound, Totals
  <2> QED BY <2>1 DEF QueuesFilled, Placed, Queue, Right
<1> QED BY <1>1, <1>2, <1>3, Invariance, PTL DEF Spec

\* get_asks returns the n best asks, best first (orderbook.cpp:131-138).
THEOREM AsksBestFirst == Spec /\ NoCut => []AskDepth
<1>1. Inv => AskDepth
  <2> SUFFICES ASSUME Inv, NEW n \in 0..MaxLevels PROVE Depth("Sell", n, GetAsks(n))
    BY DEF AskDepth
  <2>1. IsFiniteSet(LevelKeys)
    BY DEF Inv, BookSound, LevelsCounted
  <2>2. PICK S : S = LevelPrices("Sell")
    OBVIOUS
  <2>3. IsFiniteSet(S) /\ S \in SUBSET Int
    BY <2>1, <2>2, PricesFinite DEF Sides
  <2>4. PICK f : InOrder(f, S)
    BY <2>3, OrderExists
  <2>5. PICK c : c = Cardinality(S) /\ c \in Nat
    BY <2>3, FS_CardinalityType
  <2>6. PICK l : l = Lesser(n, c)
    OBVIOUS
  <2>7. l \in Nat /\ l <= c
    BY <2>5, <2>6, PoolAssumption DEF Lesser
  <2>8. PICK out : out = [i \in 1..l |-> f[i]]
    OBVIOUS
  <2>9. n \in Nat
    BY PoolAssumption
  <2>10. GetAsks(n) = out
    BY <2>1, <2>2, <2>4, <2>5, <2>6, <2>8, <2>9, AsksWalked
  <2>11. /\ \A i \in 1..c : f[i] \in S /\ f[i] \in Int
         /\ \A i, j \in 1..c : i < j => f[i] < f[j]
         /\ \A p \in S : \E i \in 1..c : f[i] = p
    BY <2>3, <2>4, <2>5 DEF InOrder
  <2>12. \A i \in 1..l : i \in 1..c /\ out[i] = f[i]
    BY <2>5, <2>7, <2>8
  <2>13. out \in Seq(S) /\ Len(out) = l /\ DOMAIN out = 1..l
    <3>1. \A i \in 1..l : f[i] \in S
      BY <2>11, <2>12
    <3> QED BY <2>7, <2>8, <3>1, IsASeq
  <2>14. Elements(out) = {f[i] : i \in 1..l}
    BY <2>12, <2>13 DEF Elements
  <2>15. \A p \in S \ Elements(out), i \in 1..l : out[i] < p
    <3> SUFFICES ASSUME NEW p \in S \ Elements(out), NEW i \in 1..l PROVE out[i] < p
      OBVIOUS
    <3>1. PICK j \in 1..c : f[j] = p
      BY <2>11
    <3>2. j \notin 1..l
      BY <2>14, <3>1
    <3>3. i < j
      BY <2>5, <2>7, <3>2
    <3> QED BY <2>11, <2>12, <3>1, <3>3
  <2>16. \A i, j \in 1..l : i < j => out[i] < out[j]
    BY <2>11, <2>12
  <2>17. Elements(out) \subseteq S
    BY <2>11, <2>12, <2>14
  <2>18. Depth("Sell", n, out)
    BY <2>2, <2>5, <2>6, <2>13, <2>15, <2>16, <2>17 DEF Depth, Before
  <2> QED BY <2>10, <2>18
<1> QED BY <1>1, Invariance, PTL

\* modify_order, having cancelled the order, is not refused by add_order for its id or
\* for want of a slot (orderbook.cpp:72-84).
THEOREM ModifyCanReadmit == Spec /\ NoCut => []ModifyReadmits
<1>1. Inv => ModifyReadmits
  BY DEF Inv
<1> QED BY <1>1, Invariance, PTL

\* Until clear() is called every slot and every level is free or in the book
\* (orderbook.cpp:87-103).
THEOREM NothingLeaksUncleared == Spec /\ NoCut => [](clears = 0 => NothingLeaks)
BY Invariance, CountedSlots, PTL

\* add_order leaves an order out of the book for want of a level only when it has
\* traded nothing, and, until clear() is called, every level is in use
\* (orderbook.cpp:33-37).
THEOREM NoOrderPartlyDropped ==
  /\ Spec /\ NoCut => [][Drops => trades = <<>>]_vars
  /\ Spec /\ NoCut /\ [](clears = 0) => NoPartialDrop
<1>1. Inv /\ [Next]_vars => [Drops => trades = <<>>]_vars
  BY DroppedUntraded
<1>2. Inv /\ [Next]_vars /\ clears = 0
        => [Drops => trades = <<>> /\ Cardinality(LevelKeys) = MaxLevels]_vars
  BY DroppedUntraded
<1>3. Spec /\ NoCut => [][Drops => trades = <<>>]_vars
  BY <1>1, Invariance, PTL DEF Spec
<1>4. Spec /\ NoCut /\ [](clears = 0) => NoPartialDrop
  BY <1>2, Invariance, PTL DEF Spec, NoPartialDrop
<1> QED BY <1>3, <1>4

------------------------------------------------------------------------------
(* Ids that share no bucket of the order map.                              *)

\* What a call does to the order map is one of the map's operations, or nothing.
LEMMA MapStep ==
  ASSUME Inv, [Next]_vars
  PROVE  [P!Next]_(P!vars)
<1>1. UNCHANGED mapVars => UNCHANGED P!vars
  BY DEF mapVars, P!vars
<1>2. \A id \in Ids : Map!Remove(id) => P!Next
  BY SameMap DEF P!Next
<1>3. CASE UNCHANGED vars
  BY <1>1, <1>3 DEF vars
<1>4. CASE Trade
  <2>1. pc = "match" /\ Reaches(orders[order])
    BY <1>4 DEF Trade
  <2>2. Fills => Map!Remove(orders[TradeHead].id)
    BY <1>4, TradeShape
  <2>3. ~Fills => UNCHANGED mapVars
    BY <1>4, TradeShape
  <2>4. orders[TradeHead].id \in Ids
    <3>1. TradeKey \in LevelKeys /\ TradeHead \in Elements(Queue(TradeKey))
      BY <2>1, TradeParties
    <3> QED BY <3>1 DEF Inv, BookSound, Placed
  <2> QED BY <1>1, <1>2, <2>2, <2>3, <2>4
<1>5. CASE Rest
  <2>1. order \in Slots /\ order # NULL
    BY <1>5 DEF Rest, Inv, TypeOK
  <2>2. orders[order].id \in Ids
    BY <2>1 DEF Inv, TakerSound
  <2>3. P!Insert(orders[order].id, order)
    BY <1>5, SameMap DEF Rest
  <2> QED BY <2>1, <2>2, <2>3 DEF P!Next
<1>6. ASSUME NEW id \in Ids, Withdraw(id) PROVE P!Next
  BY <1>2, <1>6 DEF Withdraw, Forget
<1>7. CASE Clear
  BY <1>7, SameMap DEF Clear, P!Next
<1> QED BY <1>1, <1>3, <1>4, <1>5, <1>6, <1>7
        DEF Next, AddOrder, Admit, Readmit, MatchEnd, Drop, CancelOrder, RefusedAdd,
            UnknownId, ModifyOrder, vars

\* A book whose ids all have a bucket of their own never cuts a chain, so that all
\* that is said of books that cut none holds of it (orderbook.hpp:226).
THEOREM DistinctHomesCutNothing ==
  ASSUME P!DistinctHomes
  PROVE  Spec => NoCut
<1>1. Init => Inv /\ P!AtHome
  BY InitSound, SameMap DEF Init, P!Init, P!AtHome, P!Occupied
<1>2. P!AtHome => CutsNone
  BY MapFits, P!HomeCutsNothing DEF CutsNone
<1>3. Inv /\ P!AtHome /\ [Next]_vars => Inv' /\ P!AtHome'
  <2> SUFFICES ASSUME Inv, P!AtHome, [Next]_vars PROVE Inv' /\ P!AtHome'
    OBVIOUS
  <2>1. Inv'
    BY <1>2, InvStep
  <2>2. P!AtHome'
    BY MapStep, MapFits, P!HomeStep DEF Inv, MapSound
  <2> QED BY <2>1, <2>2
<1>4. P!AtHome => [CutsNone]_vars
  BY <1>2
<1> QED BY <1>1, <1>3, <1>4, PTL DEF Spec, NoCut
==============================================================================

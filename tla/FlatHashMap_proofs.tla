-------------------------- MODULE FlatHashMap_proofs --------------------------
(***************************************************************************)
(* When FlatHashMap of orderbook.hpp is a dictionary, for every set of     *)
(* keys, hash function and capacity: as long as no removal takes out an    *)
(* entry that the search for another key goes past.  OrderBook_collide     *)
(* shows what happens otherwise.                                           *)
(***************************************************************************)
EXTENDS FlatHashMap, RingArithmetic, FiniteSetTheorems, TLAPS

\* The buckets that a search for k goes past.
Passed(k) ==
  {Bucket(k, i) : i \in {j \in Buckets : \A m \in 0..j : Passes(k, m)}}

\* Removing k takes out nothing that the search for another stored key goes past.
CutsNothing(k) ==
  Found(k) => \A b \in Occupied : StopBucket(k) \notin Passed(entries_[b].key)

\* No call of remove breaks a chain (orderbook.hpp:226).
NoCut == [][\A k \in Removable : Remove(k) => CutsNothing(k)]_vars

------------------------------------------------------------------------------
(* Buckets and searches.                                                   *)

LEMMA BucketType ==
  ASSUME NEW k \in Keys, NEW i \in Nat
  PROVE  Bucket(k, i) \in Buckets
<1>1. Hash[k] + i \in Int /\ Capacity \in Nat \ {0}
  BY HashAssumption, CapacityAssumption
<1> QED BY <1>1, ModRange DEF Bucket, Buckets

\* A search looks at each bucket once.
LEMMA BucketInjective ==
  ASSUME NEW k \in Keys, NEW i \in Buckets, NEW j \in Buckets,
         Bucket(k, i) = Bucket(k, j)
  PROVE  i = j
<1>1. Hash[k] \in Nat /\ Capacity \in Nat \ {0} /\ i \in Int /\ j \in Int
  BY HashAssumption, CapacityAssumption DEF Buckets
<1>2. ASSUME NEW a \in Buckets, NEW b \in Buckets, a <= b, Bucket(k, a) = Bucket(k, b)
      PROVE  a = b
  <2>1. /\ Hash[k] + a \in Int /\ Hash[k] + b \in Int /\ Hash[k] + a <= Hash[k] + b
        /\ (Hash[k] + b) - (Hash[k] + a) < Capacity
    BY <1>1, <1>2 DEF Buckets
  <2>2. Hash[k] + a = Hash[k] + b
    BY <1>1, <1>2, <2>1, ModInjective DEF Bucket
  <2> QED BY <1>1, <2>2 DEF Buckets
<1>3. i <= j \/ j <= i
  BY <1>1
<1> QED BY <1>2, <1>3

LEMMA StopUnique ==
  ASSUME NEW k \in Keys, NEW i \in Stops(k)
  PROVE  /\ Stops(k) = {i} /\ StopBucket(k) = Bucket(k, i)
         /\ i \in Buckets /\ i \in Nat /\ StopBucket(k) \in Buckets
<1>1. i \in Buckets /\ i \in Nat
  BY CapacityAssumption DEF Stops, Buckets
<1>2. ASSUME NEW j \in Stops(k) PROVE j = i
  <2>1. j \in Nat
    BY CapacityAssumption DEF Stops, Buckets
  <2>2. ~(i < j)
    <3> SUFFICES ASSUME i < j PROVE FALSE
      OBVIOUS
    <3>1. i \in 0..j - 1
      BY <1>1, <2>1
    <3> QED BY <3>1 DEF Stops
  <2>3. ~(j < i)
    <3> SUFFICES ASSUME j < i PROVE FALSE
      OBVIOUS
    <3>1. j \in 0..i - 1
      BY <1>1, <2>1
    <3> QED BY <3>1 DEF Stops
  <2> QED BY <1>1, <2>1, <2>2, <2>3
<1>3. Stops(k) = {i}
  BY <1>2
<1>4. StopBucket(k) = Bucket(k, i)
  BY <1>3 DEF StopBucket
<1> QED BY <1>1, <1>3, <1>4, BucketType

\* The search for the key of bucket b goes past other keys until it comes to b.
Reached(b) ==
  \E i \in Buckets :
    /\ Bucket(entries_[b].key, i) = b
    /\ \A j \in 0..i - 1 : Passes(entries_[b].key, j)

LEMMA ReachedIsFound ==
  ASSUME TypeOK, NEW b \in Occupied
  PROVE  Reached(b) <=> Found(entries_[b].key) /\ StopBucket(entries_[b].key) = b
<1> DEFINE k == entries_[b].key
<1>1. k \in Keys /\ entries_[b] # Vacant /\ b \in Buckets
  BY DEF TypeOK, Occupied, Entry
<1>2. ASSUME Reached(b) PROVE Found(k) /\ StopBucket(k) = b
  <2>1. PICK i \in Buckets : Bucket(k, i) = b /\ \A j \in 0..i - 1 : Passes(k, j)
    BY <1>2 DEF Reached
  <2>2. i \in Stops(k)
    BY <2>1 DEF Stops, Passes
  <2> QED BY <1>1, <2>1, <2>2, StopUnique DEF Found, Meets
<1>3. ASSUME Found(k), StopBucket(k) = b PROVE Reached(b)
  <2>1. PICK i \in Stops(k) : TRUE
    BY <1>3 DEF Found, Meets
  <2>2. Bucket(k, i) = b /\ i \in Buckets
    BY <1>1, <1>3, <2>1, StopUnique
  <2> QED BY <2>1, <2>2 DEF Reached, Stops
<1> QED BY <1>2, <1>3

\* A search that finds its key stops at it, one that does not at a vacant bucket.
LEMMA WhereItStops ==
  ASSUME TypeOK, NEW k \in Keys, Stops(k) # {}
  PROVE  /\ StopBucket(k) \in Buckets
         /\ Found(k) <=> entries_[StopBucket(k)] # Vacant
         /\ Found(k) => entries_[StopBucket(k)].key = k
         /\ Found(k) => Find(k) = entries_[StopBucket(k)].value
<1>1. PICK i \in Stops(k) : TRUE
  OBVIOUS
<1>2. Stops(k) = {i} /\ StopBucket(k) = Bucket(k, i) /\ StopBucket(k) \in Buckets
  BY StopUnique
<1>3. Found(k) <=> entries_[StopBucket(k)] # Vacant
  BY <1>2 DEF Found, Meets
<1>4. Found(k) => entries_[StopBucket(k)].key = k
  BY <1>2, <1>3 DEF Stops, Passes
<1>5. Found(k) => Find(k) = entries_[StopBucket(k)].value
  <2> SUFFICES ASSUME Found(k) PROVE Find(k) = entries_[StopBucket(k)].value
    OBVIOUS
  <2>1. Meets(k) = {i}
    BY <1>2 DEF Found, Meets
  <2> QED BY <1>2, <2>1 DEF Find
<1> QED BY <1>2, <1>3, <1>4, <1>5

LEMMA FoundStops == \A k : Found(k) => Stops(k) # {}
BY DEF Found, Meets

------------------------------------------------------------------------------
(* size_ counts the occupied buckets.                                      *)

LEMMA OccupiedFinite == IsFiniteSet(Occupied) /\ Cardinality(Occupied) \in Nat
<1>1. IsFiniteSet(Buckets)
  BY CapacityAssumption, FS_Interval DEF Buckets
<1>2. IsFiniteSet(Occupied)
  BY <1>1, FS_Subset DEF Occupied
<1> QED BY <1>2, FS_CardinalityType

LEMMA InitType == Init => TypeOK /\ EveryEntryFound
<1> SUFFICES ASSUME Init PROVE TypeOK /\ EveryEntryFound
  OBVIOUS
<1>1. Occupied = {}
  BY DEF Init, Occupied
<1> QED BY <1>1, FS_EmptySet DEF Init, TypeOK, EveryEntryFound

LEMMA TypeStep == TypeOK /\ [Next]_vars => TypeOK'
<1> SUFFICES ASSUME TypeOK, [Next]_vars PROVE TypeOK'
  OBVIOUS
<1> USE DEF TypeOK
<1>1. ASSUME NEW k \in Keys, NEW v \in Values, Insert(k, v) PROVE TypeOK'
  <2>1. CASE Stops(k) = {}
    BY <1>1, <2>1 DEF Insert, vars, Occupied
  <2>2. CASE Stops(k) # {}
    <3> DEFINE B == StopBucket(k)
    <3>1. /\ entries_' = [entries_ EXCEPT ![B] = [key |-> k, value |-> v]]
          /\ size_' = IF Found(k) THEN size_ ELSE size_ + 1
      BY <1>1, <2>2 DEF Insert
    <3>2. B \in Buckets /\ (Found(k) <=> entries_[B] # Vacant)
      BY <2>2, WhereItStops
    <3> HIDE DEF B
    <3>3. [key |-> k, value |-> v] \in Entry /\ [key |-> k, value |-> v] # Vacant
      BY SentinelAssumption DEF Entry
    <3>4. entries_' \in [Buckets -> Entry \cup {Vacant}]
      BY <3>1, <3>2, <3>3
    <3>5. Occupied' = Occupied \cup {B}
      BY <3>1, <3>2, <3>3 DEF Occupied
    <3>6. Found(k) <=> B \in Occupied
      BY <3>2 DEF Occupied
    <3> QED BY <3>1, <3>4, <3>5, <3>6, OccupiedFinite, FS_AddElement
  <2> QED BY <2>1, <2>2
<1>2. ASSUME NEW k \in Removable, Remove(k) PROVE TypeOK'
  <2>1. CASE ~Found(k)
    BY <1>2, <2>1 DEF Remove, vars, Occupied
  <2>2. CASE Found(k)
    <3> DEFINE B == StopBucket(k)
    <3>1. entries_' = [entries_ EXCEPT ![B] = Vacant] /\ size_' = size_ - 1
      BY <1>2, <2>2 DEF Remove
    <3>2. B \in Buckets /\ entries_[B] # Vacant
      BY <2>2, FoundStops, WhereItStops, HashAssumption
    <3> HIDE DEF B
    <3>3. entries_' \in [Buckets -> Entry \cup {Vacant}]
      BY <3>1, <3>2
    <3>4. Occupied' = Occupied \ {B} /\ B \in Occupied
      BY <3>1, <3>2 DEF Occupied
    <3> QED BY <3>1, <3>3, <3>4, OccupiedFinite, FS_RemoveElement
  <2> QED BY <2>1, <2>2
<1>3. CASE Clear
  <2>1. Occupied' = {} /\ size_' = 0 /\ entries_' \in [Buckets -> Entry \cup {Vacant}]
    BY <1>3 DEF Clear, Occupied
  <2> QED BY <2>1, FS_EmptySet
<1>4. CASE UNCHANGED vars
  BY <1>4 DEF vars, Occupied
<1> QED BY <1>1, <1>2, <1>3, <1>4 DEF Next
------------------------------------------------------------------------------
(* Chains.                                                                 *)

AllReached == \A b \in Occupied : Reached(b)

LEMMA ReachedAll == TypeOK => (EveryEntryFound <=> AllReached)
BY ReachedIsFound DEF EveryEntryFound, AllReached

\* An insertion only fills the vacant bucket at the end of its own search, or writes
\* over its own key.
LEMMA InsertReaches ==
  ASSUME TypeOK, AllReached, NEW k \in Keys, NEW v \in Values, Insert(k, v),
         Stops(k) # {}
  PROVE  AllReached'
<1> DEFINE B == StopBucket(k)
           new == [key |-> k, value |-> v]
<1>1. PICK i \in Stops(k) : TRUE
  OBVIOUS
<1>2. B = Bucket(k, i) /\ i \in Buckets /\ i \in Nat /\ B \in Buckets
      /\ \A j \in 0..i - 1 : Passes(k, j)
  BY StopUnique DEF Stops
<1>3. entries_' = [entries_ EXCEPT ![B] = new] /\ new # Vacant /\ new.key = k
  BY SentinelAssumption DEF Insert, Entry
<1>4. entries_[B] # Vacant => entries_[B].key = k
  BY <1>2 DEF Stops, Passes
<1> HIDE DEF B, new
<1>5. \A b \in Buckets : entries_'[b] = IF b = B THEN new ELSE entries_[b]
  BY <1>2, <1>3 DEF TypeOK
<1>6. ASSUME NEW b \in Occupied' PROVE Reached(b)'
  <2>1. b \in Buckets /\ entries_'[b] # Vacant
    BY DEF Occupied
  <2>2. CASE b = B
    <3>1. entries_'[b].key = k
      BY <1>3, <1>5, <2>1, <2>2
    <3>2. ASSUME NEW j \in 0..i - 1
          PROVE  entries_'[Bucket(k, j)] # Vacant /\ entries_'[Bucket(k, j)].key # k
      <4>1. j \in Buckets /\ j # i
        BY <1>2, CapacityAssumption DEF Buckets
      <4>2. Bucket(k, j) # B /\ Bucket(k, j) \in Buckets
        BY <1>2, <4>1, BucketInjective, BucketType
      <4>3. Passes(k, j)
        BY <1>2
      <4> QED BY <1>5, <4>2, <4>3 DEF Passes
    <3>3. Bucket(k, i) = b
      BY <1>2, <2>2
    <3> QED BY <1>2, <3>1, <3>2, <3>3 DEF Reached, Passes, Bucket
  <2>3. CASE b # B
    <3> DEFINE key == entries_[b].key
    <3>1. entries_'[b] = entries_[b] /\ b \in Occupied
      BY <1>5, <2>1, <2>3 DEF Occupied
    <3>2. key \in Keys
      BY <2>1, <3>1 DEF TypeOK, Occupied, Entry
    <3>3. PICK n \in Buckets :
            Bucket(key, n) = b /\ \A j \in 0..n - 1 : Passes(key, j)
      BY <3>1 DEF AllReached, Reached
    <3>4. ASSUME NEW j \in 0..n - 1
          PROVE  entries_'[Bucket(key, j)] # Vacant
                 /\ entries_'[Bucket(key, j)].key # key
      <4>1. Passes(key, j)
        BY <3>3
      <4>2. Bucket(key, j) \in Buckets
        <5>1. j \in Nat
          BY <3>3 DEF Buckets
        <5> QED BY <3>2, <5>1, BucketType
      <4>3. CASE Bucket(key, j) = B
        <5>1. k # key
          BY <1>4, <4>1, <4>3 DEF Passes
        <5> QED BY <1>3, <1>5, <4>2, <4>3, <5>1
      <4>4. CASE Bucket(key, j) # B
        BY <1>5, <4>1, <4>2, <4>4 DEF Passes
      <4> QED BY <4>3, <4>4
    <3>5. entries_'[b].key = key
      BY <3>1
    <3> QED BY <3>3, <3>4, <3>5 DEF Reached, Passes, Bucket
  <2> QED BY <2>2, <2>3
<1> QED BY <1>6 DEF AllReached

\* A removal that cuts nothing leaves the other searches as they were.
LEMMA RemoveReaches ==
  ASSUME TypeOK, AllReached, NEW k \in Keys, Remove(k), Found(k), CutsNothing(k)
  PROVE  AllReached'
<1> DEFINE B == StopBucket(k)
<1>1. entries_' = [entries_ EXCEPT ![B] = Vacant] /\ B \in Buckets
  BY FoundStops, WhereItStops DEF Remove
<1>2. \A b \in Occupied : B \notin Passed(entries_[b].key)
  BY DEF CutsNothing
<1> HIDE DEF B
<1>3. \A b \in Buckets : entries_'[b] = IF b = B THEN Vacant ELSE entries_[b]
  BY <1>1 DEF TypeOK
<1>4. ASSUME NEW b \in Occupied' PROVE Reached(b)'
  <2> DEFINE key == entries_[b].key
  <2>1. b \in Buckets /\ entries_'[b] = entries_[b] /\ b \in Occupied
    BY <1>3 DEF Occupied
  <2>2. key \in Keys
    BY <2>1 DEF TypeOK, Occupied, Entry
  <2>3. PICK n \in Buckets :
          Bucket(key, n) = b /\ \A j \in 0..n - 1 : Passes(key, j)
    BY <2>1 DEF AllReached, Reached
  <2>4. ASSUME NEW j \in 0..n - 1
        PROVE  entries_'[Bucket(key, j)] # Vacant
               /\ entries_'[Bucket(key, j)].key # key
    <3>1. Passes(key, j) /\ j \in Nat /\ j \in Buckets
      BY <2>3, CapacityAssumption DEF Buckets
    <3>2. \A m \in 0..j : Passes(key, m)
      <4>1. \A m \in 0..j : m \in 0..n - 1
        BY <2>3 DEF Buckets
      <4> QED BY <2>3, <4>1
    <3>3. Bucket(key, j) \in Passed(key)
      BY <3>1, <3>2 DEF Passed
    <3>4. Bucket(key, j) # B /\ Bucket(key, j) \in Buckets
      BY <1>2, <2>1, <2>2, <3>1, <3>3, BucketType
    <3> QED BY <1>3, <3>1, <3>4 DEF Passes
  <2>5. entries_'[b].key = key
    BY <2>1
  <2> QED BY <2>3, <2>4, <2>5 DEF Reached, Passes, Bucket
<1> QED BY <1>4 DEF AllReached

LEMMA ReachedStep ==
  TypeOK /\ AllReached /\ [Next]_vars
    /\ [\A k \in Removable : Remove(k) => CutsNothing(k)]_vars => AllReached'
<1> SUFFICES ASSUME TypeOK, AllReached, [Next]_vars,
                    [\A k \in Removable : Remove(k) => CutsNothing(k)]_vars
             PROVE  AllReached'
  OBVIOUS
<1>1. CASE UNCHANGED vars
  BY <1>1 DEF vars, AllReached, Reached, Occupied, Passes, Bucket
<1>2. ASSUME NEW k \in Keys, NEW v \in Values, Insert(k, v) PROVE AllReached'
  <2>1. CASE Stops(k) = {}
    BY <1>1, <1>2, <2>1 DEF Insert
  <2> QED BY <1>2, <2>1, InsertReaches
<1>3. ASSUME NEW k \in Removable, Remove(k) PROVE AllReached'
  <2>1. CASE ~Found(k)
    BY <1>1, <1>3, <2>1 DEF Remove
  <2>2. CASE Found(k)
    <3>1. CutsNothing(k) \/ UNCHANGED vars
      BY <1>3
    <3> QED BY <1>1, <1>3, <2>2, <3>1, RemoveReaches, HashAssumption
  <2> QED BY <2>1, <2>2
<1>4. CASE Clear
  <2>1. Occupied' = {}
    BY <1>4 DEF Clear, Occupied
  <2> QED BY <2>1 DEF AllReached
<1> QED BY <1>1, <1>2, <1>3, <1>4 DEF Next

------------------------------------------------------------------------------
(* Room in the table.                                                      *)

LEMMA Least ==
  ASSUME NEW S \in SUBSET Nat, S # {}
  PROVE  \E m \in S : \A n \in S : m <= n
<1>1. PICK m \in S : \A n \in S : ~(<<n, m>> \in OpToRel(<, Nat))
  BY WFMin, NatLessThanWellFounded
<1>2. \A n \in S : ~(n < m)
  BY <1>1 DEF OpToRel
<1> QED BY <1>2

\* A search that is not stopped by its key comes to every bucket.
LEMMA BucketSurjective ==
  ASSUME NEW k \in Keys, NEW b \in Buckets
  PROVE  \E i \in Buckets : Bucket(k, i) = b
<1> DEFINE i == (b - Hash[k]) % Capacity
<1>1. Hash[k] \in Int /\ Capacity \in Nat \ {0} /\ b \in Int /\ b - Hash[k] \in Int
  BY HashAssumption, CapacityAssumption DEF Buckets
<1>2. i \in Buckets
  BY <1>1, ModRange DEF Buckets
<1>3. ((((b - Hash[k]) % Capacity) + Hash[k]) % Capacity)
        = (((b - Hash[k]) + Hash[k]) % Capacity)
  BY <1>1, ModAdd
<1>4. (b - Hash[k]) + Hash[k] = b
  BY <1>1
<1>5. (b % Capacity) = b
  BY <1>1, ModSmall DEF Buckets
<1>6. i + Hash[k] = Hash[k] + i /\ i \in Int
  BY <1>1, <1>2 DEF Buckets
<1>7. Bucket(k, i) = b
  <2>1. ((i + Hash[k]) % Capacity) = b
    BY <1>3, <1>4, <1>5
  <2> HIDE DEF i
  <2> QED BY <1>6, <2>1 DEF Bucket
<1> QED BY <1>2, <1>7

\* insert does nothing only when every bucket is occupied (orderbook.hpp:184-208).
LEMMA RoomToInsert ==
  ASSUME TypeOK, NEW k \in Keys, size_ < Capacity
  PROVE  Stops(k) # {}
<1> DEFINE free == {i \in Buckets : entries_[Bucket(k, i)] = Vacant}
<1>1. Occupied # Buckets
  <2>1. Cardinality(Buckets) = Capacity
    <3>1. 0 \in Int /\ Capacity - 1 \in Int /\ ~(0 > Capacity - 1)
          /\ (Capacity - 1) - 0 + 1 = Capacity
      BY CapacityAssumption
    <3> QED BY <3>1, FS_Interval DEF Buckets
  <2>2. size_ = Cardinality(Occupied) /\ size_ # Capacity
    BY OccupiedFinite, CapacityAssumption DEF TypeOK
  <2> QED BY <2>1, <2>2
<1>2. PICK b \in Buckets : entries_[b] = Vacant
  BY <1>1 DEF Occupied
<1>3. free # {} /\ free \in SUBSET Nat
  BY <1>2, BucketSurjective, CapacityAssumption DEF Buckets
<1> DEFINE stops == {i \in Buckets : ~Passes(k, i)}
<1>4. stops # {} /\ stops \in SUBSET Nat
  BY <1>3, CapacityAssumption DEF Passes, Buckets
<1>5. PICK m \in stops : \A n \in stops : m <= n
  <2> HIDE DEF stops
  <2> QED BY <1>4, Least
<1>6. ASSUME NEW j \in 0..m - 1 PROVE Passes(k, j)
  <2>1. j \in Buckets /\ ~(m <= j)
    BY <1>5, CapacityAssumption DEF Buckets
  <2> QED BY <1>5, <2>1
<1>7. m \in Stops(k)
  BY <1>5, <1>6 DEF Stops
<1> QED BY <1>7

------------------------------------------------------------------------------
(* What find answers.                                                      *)

Stored(k, v) == \E b \in Buckets : entries_[b] = [key |-> k, value |-> v]

\* find answers with the value that is stored with the key, in any bucket.
FindsStored ==
  \A k \in Keys :
    /\ Find(k) \in Values \cup {NULL}
    /\ \A v \in Values : Find(k) = v <=> Stored(k, v)

LEMMA Answering == TypeOK /\ EveryEntryFound => FindsStored
<1> SUFFICES ASSUME TypeOK, EveryEntryFound, NEW k \in Keys
             PROVE  /\ Find(k) \in Values \cup {NULL}
                    /\ \A v \in Values : Find(k) = v <=> Stored(k, v)
  BY DEF FindsStored
<1>1. CASE Found(k)
  <2> DEFINE B == StopBucket(k)
  <2>1. B \in Buckets /\ entries_[B] # Vacant /\ entries_[B].key = k
        /\ Find(k) = entries_[B].value
    BY <1>1, FoundStops, WhereItStops
  <2>2. entries_[B] \in Entry
    <3> HIDE DEF B
    <3> QED BY <2>1 DEF TypeOK
  <2>3. entries_[B] = [key |-> k, value |-> Find(k)] /\ Find(k) \in Values
    <3> HIDE DEF B
    <3> QED BY <2>1, <2>2 DEF Entry
  <2>4. ASSUME NEW v \in Values, Stored(k, v) PROVE Find(k) = v
    <3>1. PICK b \in Buckets : entries_[b] = [key |-> k, value |-> v]
      BY <2>4 DEF Stored
    <3>2. entries_[b] # Vacant /\ entries_[b].key = k /\ entries_[b].value = v
      BY <3>1, SentinelAssumption DEF Entry
    <3>3. b = B
      BY <3>2 DEF EveryEntryFound, Occupied
    <3> QED BY <2>1, <3>2, <3>3
  <2>5. Stored(k, Find(k))
    BY <2>1, <2>3 DEF Stored
  <2> QED BY <2>3, <2>4, <2>5
<1>2. CASE ~Found(k)
  <2>1. Find(k) = NULL /\ NULL \notin Values
    BY <1>2, SentinelAssumption DEF Found, Find
  <2>2. ASSUME NEW v \in Values, Stored(k, v) PROVE FALSE
    <3>1. PICK b \in Buckets : entries_[b] = [key |-> k, value |-> v]
      BY <2>2 DEF Stored
    <3>2. entries_[b] # Vacant /\ entries_[b].key = k
      BY <3>1, SentinelAssumption DEF Entry
    <3> QED BY <1>2, <3>2 DEF EveryEntryFound, Occupied
  <2> QED BY <2>1, <2>2
<1> QED BY <1>1, <1>2

\* Answers of find before and after a step compare like what is stored.
LEMMA SameAnswer ==
  ASSUME FindsStored, FindsStored', NEW k \in Keys,
         \A v \in Values : Stored(k, v)' <=> Stored(k, v)
  PROVE  Find(k)' = Find(k)
<1>1. \A v \in Values : Find(k) = v <=> Find(k)' = v
  BY DEF FindsStored
<1>2. Find(k) \in Values \cup {NULL} /\ Find(k)' \in Values \cup {NULL}
  BY DEF FindsStored
<1> QED BY <1>1, <1>2

LEMMA InsertAnswers ==
  ASSUME TypeOK, FindsStored, FindsStored', NEW k \in Keys, NEW v \in Values,
         Insert(k, v), Stops(k) # {}
  PROVE  Answers!Insert(k, v)
<1> DEFINE B == StopBucket(k)
<1>1. entries_' = [entries_ EXCEPT ![B] = [key |-> k, value |-> v]] /\ B \in Buckets
      /\ (entries_[B] # Vacant => entries_[B].key = k)
  BY WhereItStops DEF Insert
<1> HIDE DEF B
<1>2. \A b \in Buckets :
        entries_'[b] = IF b = B THEN [key |-> k, value |-> v] ELSE entries_[b]
  BY <1>1 DEF TypeOK
<1>3. Find(k)' = v
  <2>1. Stored(k, v)'
    BY <1>1, <1>2 DEF Stored
  <2> QED BY <2>1 DEF FindsStored
<1>4. ASSUME NEW other \in Keys, other # k PROVE Find(other)' = Find(other)
  <2>1. ASSUME NEW w \in Values PROVE Stored(other, w)' <=> Stored(other, w)
    <3>1. entries_[B] # [key |-> other, value |-> w]
          /\ [key |-> k, value |-> v] # [key |-> other, value |-> w]
      <4>1. [key |-> other, value |-> w] # Vacant
        BY SentinelAssumption DEF Entry
      <4>2. [key |-> other, value |-> w].key = other /\ [key |-> k, value |-> v].key = k
        OBVIOUS
      <4> QED BY <1>1, <1>4, <4>1, <4>2
    <3> QED BY <1>2, <3>1 DEF Stored
  <2> QED BY <2>1, SameAnswer
<1> QED BY <1>3, <1>4 DEF Answers!Insert

LEMMA RemoveAnswers ==
  ASSUME TypeOK, EveryEntryFound, FindsStored, FindsStored', NEW k \in Keys, Remove(k)
  PROVE  Answers!Remove(k)
<1>1. CASE Found(k)
  <2> DEFINE B == StopBucket(k)
  <2>1. entries_' = [entries_ EXCEPT ![B] = Vacant] /\ B \in Buckets
        /\ entries_[B] # Vacant /\ entries_[B].key = k
    BY <1>1, FoundStops, WhereItStops DEF Remove
  <2>2. \A b \in Occupied : entries_[b].key = k => b = B
    BY DEF EveryEntryFound
  <2> HIDE DEF B
  <2>3. \A b \in Buckets : entries_'[b] = IF b = B THEN Vacant ELSE entries_[b]
    BY <2>1 DEF TypeOK
  <2>4. \A key \in Keys, w \in Values :
          [key |-> key, value |-> w] # Vacant /\ [key |-> key, value |-> w].key = key
    BY SentinelAssumption DEF Entry
  <2>5. Find(k)' = NULL
    <3>1. ASSUME NEW w \in Values PROVE ~(Stored(k, w)')
      <4>1. ASSUME NEW b \in Buckets PROVE entries_'[b] # [key |-> k, value |-> w]
        BY <2>2, <2>3, <2>4 DEF Occupied
      <4> QED BY <4>1 DEF Stored
    <3> QED BY <3>1 DEF FindsStored
  <2>6. ASSUME NEW other \in Keys, other # k PROVE Find(other)' = Find(other)
    <3>1. ASSUME NEW w \in Values PROVE Stored(other, w)' <=> Stored(other, w)
      <4>1. entries_[B] # [key |-> other, value |-> w]
            /\ Vacant # [key |-> other, value |-> w]
        BY <2>1, <2>4, <2>6
      <4> QED BY <2>3, <4>1 DEF Stored
    <3> QED BY <3>1, SameAnswer
  <2> QED BY <2>5, <2>6 DEF Answers!Remove
<1>2. CASE ~Found(k)
  <2>1. entries_' = entries_ /\ Find(k) = NULL
    BY <1>2 DEF Remove, vars, Found, Find
  <2>2. \A key \in Keys : Find(key)' = Find(key)
    BY <2>1, SameAnswer DEF Stored
  <2> QED BY <2>1, <2>2 DEF Answers!Remove
<1> QED BY <1>1, <1>2

LEMMA ClearAnswers ==
  ASSUME FindsStored', Clear
  PROVE  Answers!Clear
<1>1. ASSUME NEW k \in Keys PROVE Find(k)' = NULL
  <2>1. ASSUME NEW v \in Values PROVE ~(Stored(k, v)')
    BY SentinelAssumption DEF Clear, Stored, Entry
  <2> QED BY <2>1 DEF FindsStored
<1> QED BY <1>1 DEF Answers!Clear

Faithful ==
  /\ \A k \in Keys, v \in Values :
       Insert(k, v) => Answers!Insert(k, v) \/ Stops(k) = {}
  /\ \A k \in Removable : Remove(k) => Answers!Remove(k)
  /\ Clear => Answers!Clear

LEMMA StepAnswers ==
  TypeOK /\ EveryEntryFound /\ FindsStored /\ FindsStored' => Faithful
BY InsertAnswers, RemoveAnswers, ClearAnswers, HashAssumption DEF Faithful

LEMMA StepIsAllowed ==
  Faithful /\ [Next]_vars => [Answers!Next]_([k \in Keys |-> Find(k)])
<1> SUFFICES ASSUME Faithful, [Next]_vars
             PROVE  [Answers!Next]_([k \in Keys |-> Find(k)])
  OBVIOUS
<1>1. CASE UNCHANGED vars
  BY <1>1 DEF vars, Find, Meets, Stops, Passes, Bucket
<1>2. ASSUME NEW k \in Keys, NEW v \in Values, Insert(k, v)
      PROVE  UNCHANGED vars \/ Answers!Insert(k, v)
  BY <1>2 DEF Faithful, Insert
<1> QED BY <1>1, <1>2, HashAssumption DEF Faithful, Next, Answers!Next

LEMMA InitAnswers == Init => Answers!Init
<1> SUFFICES ASSUME Init, NEW k \in Keys PROVE Find(k) = NULL
  BY DEF Answers!Init
<1>1. \A i \in Nat : entries_[Bucket(k, i)] = Vacant
  BY BucketType DEF Init
<1>2. Meets(k) = {}
  BY <1>1, CapacityAssumption DEF Meets, Stops, Buckets
<1> QED BY <1>2 DEF Find

------------------------------------------------------------------------------
(* Keys that share no home bucket.                                         *)

DistinctHomes == \A k, l \in Keys : Bucket(k, 0) = Bucket(l, 0) => k = l

\* Every key is in its home bucket.
AtHome == \A b \in Occupied : Bucket(entries_[b].key, 0) = b

\* A key at home is found at once: nothing is on the way to it.
LEMMA HomeCutsNothing ==
  ASSUME AtHome, NEW k
  PROVE  CutsNothing(k)
<1> SUFFICES ASSUME NEW b \in Occupied PROVE Passed(entries_[b].key) = {}
  BY DEF CutsNothing
<1>1. ~Passes(entries_[b].key, 0)
  BY DEF AtHome, Passes
<1>2. \A j \in Buckets : 0 \in 0..j
  BY CapacityAssumption DEF Buckets
<1> QED BY <1>1, <1>2 DEF Passed

LEMMA HomeStep ==
  ASSUME DistinctHomes, TypeOK, AtHome, [Next]_vars
  PROVE  AtHome'
<1>1. CASE UNCHANGED vars
  BY <1>1 DEF vars, AtHome, Occupied, Bucket
<1>2. ASSUME NEW k \in Keys, NEW v \in Values, Insert(k, v) PROVE AtHome'
  <2>1. Bucket(k, 0) \in Buckets /\ 0 \in Buckets
    BY BucketType, CapacityAssumption DEF Buckets
  <2>2. ~Passes(k, 0)
    <3> SUFFICES ASSUME Passes(k, 0) PROVE FALSE
      OBVIOUS
    <3> DEFINE key == entries_[Bucket(k, 0)].key
    <3>1. Bucket(k, 0) \in Occupied /\ key # k
      BY <2>1 DEF Passes, Occupied
    <3>2. key \in Keys /\ Bucket(key, 0) = Bucket(k, 0)
      BY <3>1 DEF TypeOK, Occupied, Entry, AtHome
    <3> QED BY <3>1, <3>2 DEF DistinctHomes
  <2>3. 0 \in Stops(k)
    BY <2>1, <2>2 DEF Stops
  <2>4. StopBucket(k) = Bucket(k, 0)
    BY <2>3, StopUnique
  <2> DEFINE B == Bucket(k, 0)
  <2>5. entries_' = [entries_ EXCEPT ![B] = [key |-> k, value |-> v]]
    BY <1>2, <2>3, <2>4 DEF Insert
  <2>6. \A b \in Buckets :
          entries_'[b] = IF b = B THEN [key |-> k, value |-> v] ELSE entries_[b]
    BY <2>1, <2>5 DEF TypeOK
  <2>7. \A n, i : Bucket(n, i)' = Bucket(n, i)
    BY DEF Bucket
  <2> QED BY <2>6, <2>7 DEF AtHome, Occupied
<1>3. ASSUME NEW k \in Removable, Remove(k) PROVE AtHome'
  <2>1. CASE ~Found(k)
    BY <1>1, <1>3, <2>1 DEF Remove
  <2>2. CASE Found(k)
    <3> DEFINE B == StopBucket(k)
    <3>1. entries_' = [entries_ EXCEPT ![B] = Vacant] /\ B \in Buckets
      BY <1>3, <2>2, FoundStops, WhereItStops, HashAssumption DEF Remove
    <3> HIDE DEF B
    <3>2. \A b \in Buckets : entries_'[b] = IF b = B THEN Vacant ELSE entries_[b]
      BY <3>1 DEF TypeOK
    <3>3. \A n, i : Bucket(n, i)' = Bucket(n, i)
      BY DEF Bucket
    <3> QED BY <3>2, <3>3 DEF AtHome, Occupied
  <2> QED BY <2>1, <2>2
<1>4. CASE Clear
  BY <1>4 DEF Clear, AtHome, Occupied
<1> QED BY <1>1, <1>2, <1>3, <1>4 DEF Next

------------------------------------------------------------------------------

\* Buckets hold entries and size() counts them, whatever is removed.
THEOREM TypeCorrect == Spec => []TypeOK
BY InitType, TypeStep, PTL DEF Spec

\* As long as no removal cuts a chain, no entry is lost in the table and no key is
\* in it twice (orderbook.hpp:184-234).
THEOREM NothingLost == Spec /\ NoCut => []EveryEntryFound
<1>1. Init => TypeOK /\ AllReached
  BY InitType, ReachedAll
<1> QED BY <1>1, TypeStep, ReachedStep, ReachedAll, PTL DEF Spec, NoCut

\* As long as no removal cuts a chain, the table is a dictionary: no operation on one
\* key changes what find answers for another, at any load and for any hash function.
THEOREM DictionaryUnlessCut == Spec /\ NoCut => ImplementsDictionary
<1>1. Spec => []TypeOK
  BY TypeCorrect
<1>2. Spec /\ NoCut => []EveryEntryFound
  BY NothingLost
<1>3. Spec /\ NoCut => [][Faithful]_vars
  BY <1>1, <1>2, Answering, StepAnswers, PTL
<1> QED BY <1>1, <1>2, <1>3, Answering, StepAnswers, StepIsAllowed, InitAnswers, PTL
        DEF Spec, ImplementsDictionary, Faithful, Answers!Spec

\* Keys that share no home bucket are never on each other's way: the dictionary holds
\* of them whatever is removed (orderbook.hpp:184-234).
THEOREM DictionaryOfDistinctHomes ==
  ASSUME DistinctHomes
  PROVE  Spec => NoCut /\ ImplementsDictionary
<1>1. Init => TypeOK /\ AtHome
  BY InitType DEF Init, AtHome, Occupied
<1>2. TypeOK /\ AtHome /\ [Next]_vars => TypeOK' /\ AtHome'
  BY TypeStep, HomeStep
<1>3. AtHome => [\A k \in Removable : Remove(k) => CutsNothing(k)]_vars
  BY HomeCutsNothing
<1>4. Spec => NoCut
  BY <1>1, <1>2, <1>3, PTL DEF Spec, NoCut
<1> QED BY <1>4, DictionaryUnlessCut, PTL
==============================================================================

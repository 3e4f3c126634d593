----------------------------- MODULE FlatHashMap -----------------------------
(***************************************************************************)
(* FlatHashMap of include/orderbook/orderbook.hpp: open addressing with    *)
(* linear probing.  find, insert and remove walk the same buckets from the *)
(* key's home and stop at the first that is not occupied or holds the key; *)
(* remove only clears the occupied flag.                                   *)
(***************************************************************************)
EXTENDS Integers, FiniteSets

CONSTANTS Keys, Values,
          Capacity,    \* number of buckets
          Hash,        \* key -> hash
          Removable,   \* the keys the client ever removes
          Vacant,      \* a bucket that is not occupied
          NULL         \* find's nullptr

Entry == [key : Keys, value : Values]

ASSUME CapacityAssumption == Capacity \in Nat \ {0}
ASSUME HashAssumption == Hash \in [Keys -> Nat] /\ Removable \subseteq Keys
ASSUME SentinelAssumption == Vacant \notin Entry /\ NULL \notin Values

VARIABLES entries_,   \* bucket -> its entry, or Vacant
          size_

vars == <<entries_, size_>>

Buckets == 0..Capacity - 1

\* The bucket the loop looks at after i steps.
Bucket(k, i) == (Hash[k] + i) % Capacity

\* The loop goes past another key's entry.
Passes(k, i) == entries_[Bucket(k, i)] # Vacant /\ entries_[Bucket(k, i)].key # k

\* Where the loop stops, if it does before it has seen every bucket.
Stops(k) == {i \in Buckets : ~Passes(k, i) /\ \A j \in 0..i - 1 : Passes(k, j)}
StopBucket(k) == Bucket(k, CHOOSE i \in Stops(k) : TRUE)

\* The step at which the loop meets the key, if it does.
Meets(k) == {i \in Stops(k) : entries_[Bucket(k, i)] # Vacant}
Found(k) == Meets(k) # {}
Find(k) ==
  LET meets == Meets(k) IN
  IF meets = {} THEN NULL ELSE entries_[Bucket(k, CHOOSE i \in meets : TRUE)].value

\* A definition whose comment begins with "Slip:" is a bug the code does not have;
\* each shows that a property notices it.

Init ==
  /\ entries_ = [b \in Buckets |-> Vacant]
  /\ size_ = 0

\* Slip: every insertion counts.
InsertCounted(k, v) ==
  /\ Stops(k) # {}
  /\ entries_' = [entries_ EXCEPT ![StopBucket(k)] = [key |-> k, value |-> v]]
  /\ size_' = size_ + 1
\* Slip: the key is not looked for on the way to a free bucket.
InsertAppended(k, v) ==
  LET free == {i \in Buckets : entries_[Bucket(k, i)] = Vacant} IN
  /\ free # {}
  /\ entries_' = [entries_ EXCEPT ![Bucket(k, CHOOSE i \in free : \A j \in free : i <= j)] =
                    [key |-> k, value |-> v]]
  /\ size_' = size_ + 1

Insert(k, v) ==
  IF Stops(k) = {}
  THEN UNCHANGED vars
  ELSE /\ entries_' = [entries_ EXCEPT ![StopBucket(k)] = [key |-> k, value |-> v]]
       /\ size_' = IF Found(k) THEN size_ ELSE size_ + 1

\* Slip: the index has moved on when the bucket is cleared.
RemoveNext(k) ==
  /\ Found(k)
  /\ entries_' = [entries_ EXCEPT ![(StopBucket(k) + 1) % Capacity] = Vacant]
  /\ size_' = size_ - 1

Remove(k) ==
  IF Found(k)
  THEN /\ entries_' = [entries_ EXCEPT ![StopBucket(k)] = Vacant]
       /\ size_' = size_ - 1
  ELSE UNCHANGED vars

Clear ==
  /\ entries_' = [b \in Buckets |-> Vacant]
  /\ size_' = 0

Next ==
  \/ \E k \in Keys, v \in Values : Insert(k, v)
  \/ \E k \in Removable : Remove(k)
  \/ Clear

Spec == Init /\ [][Next]_vars

------------------------------------------------------------------------------
Occupied == {b \in Buckets : entries_[b] # Vacant}

\* Buckets hold entries, and size() counts them, however often a key is inserted
\* over itself or a missing key removed (orderbook.hpp:193, 227, 239).
TypeOK ==
  /\ entries_ \in [Buckets -> Entry \cup {Vacant}]
  /\ size_ = Cardinality(Occupied)

\* No entry is lost inside the table: find reaches every occupied bucket, and a
\* key occupies only one (insert stops at the first free bucket of the chain,
\* orderbook.hpp:189, so a broken chain would store a key twice).
EveryEntryFound ==
  \A b \in Occupied : Found(entries_[b].key) /\ StopBucket(entries_[b].key) = b

Answers == INSTANCE Dictionary WITH lookup <- [k \in Keys |-> Find(k)]

\* The table implements a dictionary: each call does to find's answers what the same
\* call does to a dictionary, whatever else is in the table; only an insertion into
\* a full table does nothing (orderbook.hpp:184-240).
ImplementsDictionary ==
  /\ Answers!Spec
  /\ [][/\ \A k \in Keys, v \in Values :
             Insert(k, v) => Answers!Insert(k, v) \/ Stops(k) = {}
        /\ \A k \in Removable : Remove(k) => Answers!Remove(k)
        /\ Clear => Answers!Clear]_vars
==============================================================================

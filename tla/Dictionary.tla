----------------------------- MODULE Dictionary ------------------------------
(***************************************************************************)
(* What the order book takes its hash map for: a set of keys with a value  *)
(* each, where an operation on one key never changes the answer for        *)
(* another.  Lookup[k] is what find(k) answers, NULL when k is not stored. *)
(***************************************************************************)
CONSTANTS Keys, Values, NULL

VARIABLE lookup

Init == lookup = [k \in Keys |-> NULL]

Insert(k, v) == lookup' = [lookup EXCEPT ![k] = v]

Remove(k) == lookup' = [lookup EXCEPT ![k] = NULL]

Clear == lookup' = [k \in Keys |-> NULL]

Next ==
  \/ \E k \in Keys, v \in Values : Insert(k, v)
  \/ \E k \in Keys : Remove(k)
  \/ Clear

Spec == Init /\ [][Next]_lookup
==============================================================================

---------------------------- MODULE MCFlatHashMap ----------------------------
(* FlatHashMap with four buckets.                                           *)
EXTENDS FlatHashMap

\* Keys 1, 2, 3 and 5 share the home bucket 1 and fill the buckets 1, 2, 3 and 0, in
\* the order they come.  Key 4 has the home bucket 0, which ends their chain.
ChainHash == [k \in Keys |-> IF k = 4 THEN 4 ELSE 1]
==============================================================================

----------------------------- MODULE OrderedSet ------------------------------
(***************************************************************************)
(* What the order book takes a tree of price levels for: a set of keys     *)
(* that it can look up in and walk in order from either end.               *)
(***************************************************************************)
EXTENDS Integers

CONSTANTS Keys, NULL

VARIABLE members

Init == members = {}

Insert(k) == members' = members \cup {k}
Remove(k) == members' = members \ {k}
Clear == members' = {}

Next ==
  \/ \E k \in Keys : Insert(k) \/ Remove(k)
  \/ Clear

Spec == Init /\ [][Next]_members

\* The first member, and the members next to k, or NULL.
First == IF members = {} THEN NULL
         ELSE CHOOSE k \in members : \A j \in members : k <= j
After(k) ==
  LET above == {j \in members : j > k} IN
  IF above = {} THEN NULL ELSE CHOOSE j \in above : \A i \in above : j <= i
Before(k) ==
  LET below == {j \in members : j < k} IN
  IF below = {} THEN NULL ELSE CHOOSE j \in below : \A i \in below : i <= j
==============================================================================

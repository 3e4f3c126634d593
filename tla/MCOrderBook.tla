---------------------------- MODULE MCOrderBook ------------------------------
(* Instances of OrderBook: ids are numbers, so that they can be hashed.     *)
EXTENDS OrderBook

\* Every id has a bucket of its own.
SpreadHash == [id \in Ids |-> id]

\* Ids 1 and 2 start at the same bucket, as 121480 and 262151 do in the code.
CollidingHash == [id \in Ids |-> IF id <= 2 THEN 1 ELSE id]
==============================================================================

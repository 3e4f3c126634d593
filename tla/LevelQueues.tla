----------------------------- MODULE LevelQueues -----------------------------
(***************************************************************************)
(* What the order book takes its pool and its intrusive lists for: every   *)
(* level is a first-in first-out queue from whose middle an order may be   *)
(* withdrawn, and an order that is handed out is nowhere else until it is  *)
(* given back.                                                             *)
(***************************************************************************)
EXTENDS Naturals, Sequences

CONSTANTS Orders, Levels, None

VARIABLES queues,  \* level -> its orders, oldest first
          free,    \* the orders not in use
          new      \* the order handed out and not queued yet

vars == <<queues, free, new>>

Init ==
  /\ queues = [l \in Levels |-> <<>>]
  /\ free = Orders
  /\ new = None

Acquire(o) == new = None /\ o \in free /\ new' = o /\ free' = free \ {o} /\ UNCHANGED queues

GiveBack == new # None /\ new' = None /\ free' = free \cup {new} /\ UNCHANGED queues

Enqueue(l) ==
  /\ new # None
  /\ new' = None
  /\ queues' = [queues EXCEPT ![l] = Append(@, new)]
  /\ UNCHANGED free

Withdraw(l, i) ==
  /\ free' = free \cup {queues[l][i]}
  /\ queues' = [queues EXCEPT ![l] = SubSeq(@, 1, i - 1) \o SubSeq(@, i + 1, Len(@))]
  /\ UNCHANGED new

Next ==
  \/ \E o \in Orders : Acquire(o)
  \/ GiveBack
  \/ \E l \in Levels : Enqueue(l) \/ \E i \in 1..Len(queues[l]) : Withdraw(l, i)

Spec == Init /\ [][Next]_vars
==============================================================================

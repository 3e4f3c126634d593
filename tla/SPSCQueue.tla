------------------------------ MODULE SPSCQueue ------------------------------
(***************************************************************************)
(* The lock-free ring buffer of include/orderbook/spsc_queue.hpp: one      *)
(* producer thread (push, push_bulk, size_approx) and one consumer thread  *)
(* (pop, empty, size_approx) over two atomic indices, each with a plain    *)
(* cache private to the other side.                                        *)
(*                                                                         *)
(* The indices follow the C++ memory model.  An atomic is its modification *)
(* order: the sequence of the values stored so far, each with the clock    *)
(* that a release store carries.  A load may return any value not older    *)
(* than one the thread has already seen, so a thread may lag behind for as *)
(* long as it likes; an acquire load joins the clock of the store it reads.*)
(* A thread's clock counts its accesses to buffer_, and every slot keeps   *)
(* the clock of its last write and of its last read, so that an access     *)
(* that does not happen after the other side's last one is a data race.    *)
(***************************************************************************)
EXTENDS Integers, Sequences

CONSTANTS Capacity,   \* slots of the ring, a power of two
          BatchSize,  \* most items one push_bulk call tries
          MaxItems    \* length of the producer's stream (bounds the model)

ASSUME CapacityAssumption ==
  /\ Capacity \in Nat \ {0}
  /\ \E k \in 0..Capacity : 2^k = Capacity

ASSUME StreamAssumption == BatchSize \in Nat \ {0} /\ MaxItems \in Nat

VARIABLES
  tail_, head_,              \* modification orders of the two atomics
  buffer_,                   \* slot -> item
  head_cache_, tail_cache_,  \* the producer's copy of head_, the consumer's of tail_
  seen_head, seen_tail,      \* newest store of the other side each thread has read
  ppc, quota, pushed,        \* the producer: control, items to try, items pushed
  cpc, item,                 \* the consumer: control, the value pop has read
  pclock, cclock,            \* buffer_ writes of the producer, reads of the consumer
  psees, csees,              \* how much of the other's clock happened before
  wclock, rclock,            \* slot -> clock of its last write, of its last read
  accepted, received,        \* items push reported accepted, items pop returned
  room, avail                \* pushes and pops size_approx has promised to succeed

producerVars == <<tail_, head_cache_, seen_head, ppc, quota, pushed, pclock,
                  psees, wclock, accepted, room>>
consumerVars == <<head_, tail_cache_, seen_tail, cpc, item, cclock, csees,
                  rclock, received, avail>>
vars == <<producerVars, consumerVars, buffer_>>

Slots == 0..Capacity - 1

\* A definition whose comment begins with "Slip:" is a bug the code does not have;
\* each shows that a property notices it.

\* Slip: the index is not masked.
Unmasked(i) == i
\* (i) & MASK
Wrap(i) == i % Capacity

\* Only the owner stores an index, so its own relaxed load reads the last store.
CurrentTail == tail_[Len(tail_)].val
CurrentHead == head_[Len(head_)].val
NextTail == Wrap(CurrentTail + 1)

\* Slip: the store is memory_order_relaxed.
Relaxed(clock) == 0

\* The clock a memory_order_release store carries, and the one an acquire
\* load of that store leaves the reading thread with.
Released(clock) == clock
Acquired(clock, store) == IF store.clock > clock THEN store.clock ELSE clock

\* Slip: push_bulk sends items[0] in every turn.
OfferedAgain == accepted + 1
\* The item the producer offers next: item n is the n-th of its stream.
Offered == accepted + pushed + 1

Init ==
  /\ tail_ = <<[val |-> 0, clock |-> 0]>>
  /\ head_ = <<[val |-> 0, clock |-> 0]>>
  /\ buffer_ = [s \in Slots |-> 0]
  /\ head_cache_ = 0 /\ tail_cache_ = 0
  /\ seen_head = 1 /\ seen_tail = 1
  /\ ppc = "idle" /\ quota = 0 /\ pushed = 0
  /\ cpc = "idle" /\ item = 0
  /\ pclock = 0 /\ cclock = 0 /\ psees = 0 /\ csees = 0
  /\ wclock = [s \in Slots |-> 0] /\ rclock = [s \in Slots |-> 0]
  /\ accepted = 0 /\ received = <<>>
  /\ room = 0 /\ avail = 0

------------------------------------------------------------------------------
(* The producer.  push is the loop body of push_bulk: a batch of one.      *)

\* push_bulk returns the number of items it pushed.
Return(n) ==
  /\ ppc' = "idle"
  /\ accepted' = accepted + n
  /\ pushed' = 0
  /\ quota' = 0

PushCall(count) ==
  /\ ppc = "idle"
  /\ accepted + count <= MaxItems
  /\ ppc' = "check"
  /\ quota' = count
  /\ UNCHANGED <<tail_, head_cache_, seen_head, pushed, pclock, psees, wclock,
                 accepted, room, consumerVars, buffer_>>

\* Slip: push does not ask whether the ring is full.
PushUnchecked ==
  /\ ppc = "check"
  /\ ppc' = "write"
  /\ UNCHANGED <<tail_, head_cache_, seen_head, quota, pushed, pclock, psees,
                 wclock, accepted, room, consumerVars, buffer_>>

PushCheck ==
  /\ ppc = "check"
  /\ ppc' = IF NextTail = head_cache_ THEN "load" ELSE "write"
  /\ UNCHANGED <<tail_, head_cache_, seen_head, quota, pushed, pclock, psees,
                 wclock, accepted, room, consumerVars, buffer_>>

\* The acquire load of head_ that reads its k-th store.
ReadHead(k) ==
  /\ k >= seen_head
  /\ seen_head' = k
  /\ psees' = Acquired(psees, head_[k])

\* Slip: push trusts its stale cache and fails.
PushGivesUp(k) ==
  /\ ppc = "load"
  /\ ReadHead(k)
  /\ Return(pushed)
  /\ UNCHANGED <<tail_, head_cache_, pclock, wclock, room, consumerVars, buffer_>>

PushLoadHead(k) ==
  /\ ppc = "load"
  /\ ReadHead(k)
  /\ head_cache_' = head_[k].val
  /\ IF NextTail = head_[k].val
       THEN Return(pushed)
       ELSE ppc' = "write" /\ UNCHANGED <<accepted, pushed, quota>>
  /\ UNCHANGED <<tail_, pclock, wclock, room, consumerVars, buffer_>>

PushWrite ==
  /\ ppc = "write"
  /\ buffer_' = [buffer_ EXCEPT ![CurrentTail] = Offered]
  /\ pclock' = pclock + 1
  /\ wclock' = [wclock EXCEPT ![CurrentTail] = pclock + 1]
  /\ ppc' = "publish"
  /\ UNCHANGED <<tail_, head_cache_, seen_head, quota, pushed, psees, accepted,
                 room, consumerVars>>

PushPublish ==
  /\ ppc = "publish"
  /\ tail_' = Append(tail_, [val |-> NextTail, clock |-> Released(pclock)])
  /\ room' = IF room = 0 THEN 0 ELSE room - 1
  /\ IF pushed + 1 = quota
       THEN Return(pushed + 1)
       ELSE ppc' = "check" /\ pushed' = pushed + 1 /\ UNCHANGED <<accepted, quota>>
  /\ UNCHANGED <<head_cache_, seen_head, pclock, psees, wclock, consumerVars, buffer_>>

\* size_approx (and empty) between two pushes: what it leaves of the ring is
\* room for that many pushes.
ProducerSize(k) ==
  /\ ppc = "idle"
  /\ ReadHead(k)
  /\ room' = Capacity - 1 - Wrap(CurrentTail - head_[k].val)
  /\ UNCHANGED <<tail_, head_cache_, ppc, quota, pushed, pclock, wclock,
                 accepted, consumerVars, buffer_>>

------------------------------------------------------------------------------
(* The consumer.                                                           *)

PopCall ==
  /\ cpc = "idle"
  /\ cpc' = IF CurrentHead = tail_cache_ THEN "load" ELSE "read"
  /\ UNCHANGED <<head_, tail_cache_, seen_tail, item, cclock, csees, rclock,
                 received, avail, producerVars, buffer_>>

\* The acquire load of tail_ that reads its k-th store.
ReadTail(k) ==
  /\ k >= seen_tail
  /\ seen_tail' = k
  /\ csees' = Acquired(csees, tail_[k])

PopLoadTail(k) ==
  /\ cpc = "load"
  /\ ReadTail(k)
  /\ tail_cache_' = tail_[k].val
  /\ cpc' = IF CurrentHead = tail_[k].val THEN "idle" ELSE "read"
  /\ UNCHANGED <<head_, item, cclock, rclock, received, avail, producerVars, buffer_>>

PopRead ==
  /\ cpc = "read"
  /\ item' = buffer_[CurrentHead]
  /\ cclock' = cclock + 1
  /\ rclock' = [rclock EXCEPT ![CurrentHead] = cclock + 1]
  /\ cpc' = "publish"
  /\ UNCHANGED <<head_, tail_cache_, seen_tail, csees, received, avail,
                 producerVars, buffer_>>

PopPublish ==
  /\ cpc = "publish"
  /\ head_' = Append(head_, [val |-> Wrap(CurrentHead + 1), clock |-> Released(cclock)])
  /\ received' = Append(received, item)
  /\ avail' = IF avail = 0 THEN 0 ELSE avail - 1
  /\ cpc' = "idle"
  /\ UNCHANGED <<tail_cache_, seen_tail, item, cclock, csees, rclock,
                 producerVars, buffer_>>

\* size_approx (and empty) between two pops: that many pops have an item.
ConsumerSize(k) ==
  /\ cpc = "idle"
  /\ ReadTail(k)
  /\ avail' = Wrap(tail_[k].val - CurrentHead)
  /\ UNCHANGED <<head_, tail_cache_, cpc, item, cclock, rclock, received,
                 producerVars, buffer_>>

------------------------------------------------------------------------------
Producer ==
  \/ \E count \in 1..BatchSize : PushCall(count)
  \/ PushCheck
  \/ \E k \in 1..Len(head_) : PushLoadHead(k)
  \/ PushWrite
  \/ PushPublish
  \/ \E k \in 1..Len(head_) : ProducerSize(k)

Consumer ==
  \/ PopCall
  \/ \E k \in 1..Len(tail_) : PopLoadTail(k)
  \/ PopRead
  \/ PopPublish
  \/ \E k \in 1..Len(tail_) : ConsumerSize(k)

Next == Producer \/ Consumer

Spec == Init /\ [][Next]_vars

(***************************************************************************)
(* Each thread runs its client's retry loop, which is an assumption: no    *)
(* client in the repository runs two threads.  C++ makes a store visible   *)
(* to other threads in finite time: a thread that keeps loading an index   *)
(* cannot miss its newest store for ever.                                  *)
(***************************************************************************)
PushLoop ==
  \/ \E count \in 1..BatchSize : PushCall(count)
  \/ PushCheck \/ PushWrite \/ PushPublish
  \/ \E k \in 1..Len(head_) : PushLoadHead(k)

PopLoop ==
  \/ PopCall \/ PopRead \/ PopPublish
  \/ \E k \in 1..Len(tail_) : PopLoadTail(k)

Fairness ==
  /\ WF_vars(PushLoop) /\ SF_vars(PushLoadHead(Len(head_)))
  /\ WF_vars(PopLoop) /\ SF_vars(PopLoadTail(Len(tail_)))

FairSpec == Spec /\ Fairness

------------------------------------------------------------------------------
(* Properties.                                                             *)

Store == [val : Slots, clock : Nat]

\* The type of every variable: indices stay on the ring, both modification
\* orders keep their initial store, counters never go negative.
TypeOK ==
  /\ tail_ \in Seq(Store) /\ Len(tail_) > 0
  /\ head_ \in Seq(Store) /\ Len(head_) > 0
  /\ buffer_ \in [Slots -> Nat]
  /\ head_cache_ \in Slots /\ tail_cache_ \in Slots
  /\ seen_head \in 1..Len(head_) /\ seen_tail \in 1..Len(tail_)
  /\ ppc \in {"idle", "check", "load", "write", "publish"}
  /\ cpc \in {"idle", "load", "read", "publish"}
  /\ quota \in Nat /\ pushed \in Nat /\ accepted \in Nat
  /\ item \in Nat /\ received \in Seq(Nat)
  /\ pclock \in Nat /\ cclock \in Nat /\ psees \in Nat /\ csees \in Nat
  /\ wclock \in [Slots -> Nat] /\ rclock \in [Slots -> Nat]
  /\ room \in 0..Capacity - 1 /\ avail \in 0..Capacity - 1

(***************************************************************************)
(* The inductive invariant.  Everything is a function of two counters, the *)
(* number of pushes and of pops so far; the indices are these counters     *)
(* modulo Capacity, and the caches are never so old that an index of the   *)
(* round before could be taken for one of this round.                      *)
(***************************************************************************)
Sent == Len(tail_) - 1
Taken == Len(head_) - 1

\* 1 while a push has found its slot free, a pop its slot full.
Claimed == IF ppc \in {"write", "publish"} THEN 1 ELSE 0
Claiming == IF cpc \in {"read", "publish"} THEN 1 ELSE 0

IndexInv ==
  /\ \A k \in 1..Len(tail_) : tail_[k].val = Wrap(k - 1) /\ tail_[k].clock = k - 1
  /\ \A k \in 1..Len(head_) : head_[k].val = Wrap(k - 1) /\ head_[k].clock = k - 1

CacheInv ==
  /\ \E j \in 1..seen_head :
       head_cache_ = Wrap(j - 1) /\ Sent + Claimed - (j - 1) < Capacity
  /\ \E j \in 1..seen_tail :
       tail_cache_ = Wrap(j - 1) /\ Taken + Claiming <= j - 1

ClockInv ==
  /\ pclock = Sent + (IF ppc = "publish" THEN 1 ELSE 0)
  /\ cclock = Taken + (IF cpc = "publish" THEN 1 ELSE 0)
  /\ psees >= seen_head - 1 /\ csees >= seen_tail - 1
  /\ \A s \in Slots : wclock[s] > 0 => Wrap(wclock[s] - 1) = s /\ wclock[s] <= pclock
  /\ \A s \in Slots : rclock[s] > 0 => Wrap(rclock[s] - 1) = s /\ rclock[s] <= cclock

ContentInv ==
  /\ accepted + pushed = Sent
  /\ \A k \in Taken..pclock - 1 : buffer_[Wrap(k)] = k + 1
  /\ Len(received) = Taken
  /\ \A i \in 1..Len(received) : received[i] = i
  /\ cpc = "publish" => item = Taken + 1

PromiseInv ==
  /\ Sent - (seen_head - 1) + room < Capacity
  /\ Taken + avail <= seen_tail - 1

\* The strengthening that makes NoDataRace, InOrderOnce and SizeIsAPromise
\* inductive: how far each cached, seen and masked index of spsc_queue.hpp may
\* lag behind the counter it stands for.
IInv == TypeOK /\ IndexInv /\ CacheInv /\ ClockInv /\ ContentInv /\ PromiseInv

\* The plain accesses to buffer_ never race: when push is about to overwrite a
\* slot the last pop of that slot happened before it, and when pop is about to
\* read a slot the push that filled it happened before (spsc_queue.hpp:61, 79,
\* ordered only by the release stores of line 62 and 80).
NoDataRace ==
  /\ ppc = "write" => rclock[CurrentTail] <= psees
  /\ cpc = "read" => wclock[CurrentHead] <= csees

\* pop returns the producer's stream from its beginning: nothing lost, repeated
\* or reordered, even when the producer resumes a partly pushed batch at
\* items[pushed] (the count push_bulk returned).
InOrderOnce ==
  /\ \A i \in 1..Len(received) : received[i] = i
  /\ Len(received) <= accepted + pushed

\* A promise size_approx makes to the thread that calls it: after a producer
\* has seen n places left, its next n pushes succeed; after a consumer has
\* seen n items (not empty(), for n > 0), its next n pops succeed, however stale
\* the caches that push and pop consult first.
PushFails == ppc = "load" /\ ppc' = "idle"
PopFails == cpc = "load" /\ cpc' = "idle"
SizeIsAPromise == [][(PushFails => room = 0) /\ (PopFails => avail = 0)]_vars

\* The ring implements the abstract queue of Capacity - 1 places; a push takes
\* effect when it stores tail_, a pop when it stores head_.
Contents == [i \in 1..Wrap(CurrentTail - CurrentHead) |->
               buffer_[Wrap(CurrentHead + i - 1)]]
FIFO == INSTANCE BoundedFIFO WITH
          queue <- Contents, delivered <- received,
          Bound <- Capacity - 1, Stream <- MaxItems
ImplementsFIFO == FIFO!Spec

\* Every item of the stream is delivered in the end, if both clients try again after a
\* push_bulk that was cut short and a pop that found nothing (spsc_queue.hpp:53-58,
\* 71-76).
EveryItemDelivered == <>(Len(received) = MaxItems)
==============================================================================

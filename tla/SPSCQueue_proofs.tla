-------------------------- MODULE SPSCQueue_proofs ---------------------------
(***************************************************************************)
(* Proofs about SPSCQueue for every capacity, batch size and stream.       *)
(***************************************************************************)
EXTENDS SPSCQueue, RingArithmetic, SequenceTheorems, TLAPS

------------------------------------------------------------------------------
(* Masked indices.  From here on Wrap is used only through these lemmas.   *)

LEMMA CapacityType == Capacity \in Nat \ {0}
BY CapacityAssumption

\* A masked index is a slot.
LEMMA WrapType == \A a \in Int : Wrap(a) \in Slots
BY CapacityType, ModRange DEF Wrap, Slots

\* Masking the sum of a masked index and c gives the index of the sum.
LEMMA WrapAdd == \A a, c \in Int : Wrap(Wrap(a) + c) = Wrap(a + c)
BY CapacityType, ModAdd DEF Wrap

\* Counters less than a round apart do not share a slot.
LEMMA WrapInjective ==
  \A a, b \in Int : a <= b /\ b - a < Capacity /\ Wrap(a) = Wrap(b) => a = b
BY CapacityType, ModInjective DEF Wrap

\* Counters a round apart do.
LEMMA WrapRound == \A a \in Int : Wrap(a + Capacity) = Wrap(a)
BY CapacityType, ModRound DEF Wrap

\* The masked difference of two indices is the distance of their counters.
LEMMA WrapDistance ==
  \A a, b \in Int : a <= b /\ b - a < Capacity => Wrap(Wrap(b) - Wrap(a)) = b - a
BY CapacityType, ModDistance DEF Wrap

LEMMA ZeroSlot == 0 \in Slots /\ Wrap(0) = 0
BY CapacityType, ModSmall DEF Wrap, Slots

------------------------------------------------------------------------------
(* What the invariant says of the counters.                                *)

LEMMA Counters ==
  ASSUME IInv
  PROVE  /\ Sent \in Nat /\ Taken \in Nat
         /\ CurrentTail = Wrap(Sent) /\ CurrentHead = Wrap(Taken)
         /\ NextTail = Wrap(Sent + 1)
         /\ Claimed \in {0, 1} /\ Claiming \in {0, 1}
         /\ Sent + Claimed - (seen_head - 1) < Capacity
         /\ Taken + Claiming <= seen_tail - 1
         /\ seen_head - 1 <= Taken /\ seen_tail - 1 <= Sent
         /\ Taken + Claiming <= Sent
         /\ Sent + Claimed - Taken < Capacity
<1> USE DEF IInv, TypeOK
<1>1. Sent \in Nat /\ Taken \in Nat
  BY DEF Sent, Taken
<1>2. CurrentTail = Wrap(Sent) /\ CurrentHead = Wrap(Taken)
  <2>1. Len(tail_) \in 1..Len(tail_) /\ Len(head_) \in 1..Len(head_)
    OBVIOUS
  <2>2. tail_[Len(tail_)].val = Wrap(Len(tail_) - 1)
    BY <2>1 DEF IndexInv
  <2>3. head_[Len(head_)].val = Wrap(Len(head_) - 1)
    BY <2>1 DEF IndexInv
  <2> QED
    BY <2>2, <2>3 DEF CurrentTail, CurrentHead, Sent, Taken
<1>3. NextTail = Wrap(Sent + 1)
  BY <1>1, <1>2, WrapAdd DEF NextTail
<1>4. Claimed \in {0, 1} /\ Claiming \in {0, 1}
  BY DEF Claimed, Claiming
<1>5. Sent + Claimed - (seen_head - 1) < Capacity
  <2>1. PICK j \in 1..seen_head : Sent + Claimed - (j - 1) < Capacity
    BY DEF CacheInv
  <2> QED
    BY <1>1, <1>4, <2>1, CapacityType
<1>6. Taken + Claiming <= seen_tail - 1
  <2>1. PICK j \in 1..seen_tail : Taken + Claiming <= j - 1
    BY DEF CacheInv
  <2> QED
    BY <1>1, <1>4, <2>1
<1>7. seen_head - 1 <= Taken /\ seen_tail - 1 <= Sent
  BY DEF Sent, Taken
<1> QED
  BY <1>1, <1>2, <1>3, <1>4, <1>5, <1>6, <1>7, CapacityType

\* The plain numbers of both threads are natural numbers.
LEMMA NumberTypes ==
  ASSUME IInv
  PROVE  /\ seen_head \in Nat /\ seen_tail \in Nat
         /\ psees \in Nat /\ csees \in Nat /\ pclock \in Nat /\ cclock \in Nat
         /\ accepted \in Nat /\ pushed \in Nat /\ quota \in Nat /\ item \in Nat
         /\ room \in Nat /\ avail \in Nat
<1>1. TypeOK
  BY DEF IInv
<1>2. seen_head \in Nat /\ seen_tail \in Nat /\ room \in Nat /\ avail \in Nat
  BY <1>1 DEF TypeOK
<1> QED
  BY <1>1, <1>2 DEF TypeOK

\* The k-th store of head_ is the one of the (k-1)-th pop.
LEMMA HeadStore ==
  ASSUME IInv, NEW k \in 1..Len(head_)
  PROVE  /\ k \in Nat /\ k > 0 /\ k - 1 \in Int /\ k - 1 <= Taken
         /\ head_[k].val = Wrap(k - 1) /\ head_[k].val \in Slots
         /\ head_[k].clock = k - 1
<1>1. head_ \in Seq(Store) /\ Len(head_) \in Nat
  BY DEF IInv, TypeOK
<1>2. k \in Nat /\ k > 0 /\ k - 1 \in Int /\ k - 1 <= Taken
  BY <1>1 DEF Taken
<1>3. head_[k].val = Wrap(k - 1) /\ head_[k].clock = k - 1
  BY DEF IInv, IndexInv
<1> QED
  BY <1>2, <1>3, WrapType

\* The k-th store of tail_ is the one of the (k-1)-th push.
LEMMA TailStore ==
  ASSUME IInv, NEW k \in 1..Len(tail_)
  PROVE  /\ k \in Nat /\ k > 0 /\ k - 1 \in Int /\ k - 1 <= Sent
         /\ tail_[k].val = Wrap(k - 1) /\ tail_[k].val \in Slots
         /\ tail_[k].clock = k - 1
<1>1. tail_ \in Seq(Store) /\ Len(tail_) \in Nat
  BY DEF IInv, TypeOK
<1>2. k \in Nat /\ k > 0 /\ k - 1 \in Int /\ k - 1 <= Sent
  BY <1>1 DEF Sent
<1>3. tail_[k].val = Wrap(k - 1) /\ tail_[k].clock = k - 1
  BY DEF IInv, IndexInv
<1> QED
  BY <1>2, <1>3, WrapType

\* What an acquire load sees is at least the clock of the store it reads.
LEMMA AcquiredClock ==
  ASSUME NEW clock \in Nat, NEW store, store.clock \in Nat
  PROVE  /\ Acquired(clock, store) \in Nat
         /\ Acquired(clock, store) >= store.clock
BY DEF Acquired

\* The first state satisfies the invariant.
LEMMA InitIInv == Init => IInv
<1> SUFFICES ASSUME Init PROVE IInv
  OBVIOUS
<1> USE DEF Init
<1>1. TypeOK
  BY ZeroSlot, CapacityType DEF TypeOK, Store
<1>2. Sent = 0 /\ Taken = 0 /\ Claimed = 0 /\ Claiming = 0
  BY DEF Sent, Taken, Claimed, Claiming
<1>3. IndexInv
  BY ZeroSlot DEF IndexInv
<1>4. CacheInv
  BY <1>2, ZeroSlot, CapacityType DEF CacheInv
<1>5. ClockInv
  BY <1>2 DEF ClockInv
<1>6. ContentInv
  BY <1>2 DEF ContentInv
<1>7. PromiseInv
  BY <1>2, CapacityType DEF PromiseInv
<1> QED
  BY <1>1, <1>3, <1>4, <1>5, <1>6, <1>7 DEF IInv

------------------------------------------------------------------------------
(* Every step of the producer preserves the invariant.                     *)

\* push and push_bulk start: nothing but the control changes.
LEMMA PushCallInv ==
  ASSUME IInv, NEW count \in 1..BatchSize, PushCall(count)
  PROVE  IInv'
<1> USE DEF IInv, PushCall, consumerVars
<1>1. count \in Nat
  BY StreamAssumption
<1>2. TypeOK'
  BY <1>1 DEF TypeOK
<1>3. Sent' = Sent /\ Taken' = Taken /\ Claimed' = Claimed /\ Claiming' = Claiming
  BY DEF Sent, Taken, Claimed, Claiming
<1>4. IndexInv'
  BY DEF IndexInv
<1>5. CacheInv'
  BY <1>3 DEF CacheInv
<1>6. ClockInv'
  BY <1>3 DEF ClockInv
<1>7. ContentInv'
  BY <1>3 DEF ContentInv
<1>8. PromiseInv'
  BY <1>3 DEF PromiseInv
<1> QED
  BY <1>2, <1>4, <1>5, <1>6, <1>7, <1>8

\* The check against head_cache_: when it lets the push through, the slot is
\* free, for a full ring would make the two indices equal.
LEMMA PushCheckInv ==
  ASSUME IInv, PushCheck
  PROVE  IInv'
<1> USE DEF IInv, PushCheck, consumerVars
<1>1. TypeOK'
  BY DEF TypeOK
<1>2. Sent' = Sent /\ Taken' = Taken /\ Claiming' = Claiming
  BY DEF Sent, Taken, Claiming
<1>3. IndexInv'
  BY DEF IndexInv
<1>4. CacheInv'
  <2>1. PICK j \in 1..seen_head :
          head_cache_ = Wrap(j - 1) /\ Sent + Claimed - (j - 1) < Capacity
    BY DEF CacheInv
  <2>2. Claimed = 0 /\ Sent \in Nat /\ j \in Nat /\ NextTail = Wrap(Sent + 1)
    BY Counters DEF Claimed, TypeOK
  <2>3. Sent' + Claimed' - (j - 1) < Capacity
    <3>1. CASE NextTail = head_cache_
      BY <3>1, <2>1, <2>2, <1>2 DEF Claimed
    <3>2. CASE NextTail # head_cache_
      <4>1. Sent + 1 # (j - 1) + Capacity
        BY <3>2, <2>1, <2>2, WrapRound
      <4> QED
        BY <4>1, <3>2, <2>1, <2>2, <1>2, CapacityType DEF Claimed
    <3> QED
      BY <3>1, <3>2
  <2> QED
    BY <2>1, <2>3, <1>2 DEF CacheInv
<1>5. ClockInv'
  BY <1>2 DEF ClockInv
<1>6. ContentInv'
  BY <1>2 DEF ContentInv
<1>7. PromiseInv'
  BY <1>2 DEF PromiseInv
<1> QED
  BY <1>1, <1>3, <1>4, <1>5, <1>6, <1>7

\* The acquire load of head_: the cache is as new as the store it reads, and
\* again a full ring is told from an empty one.
LEMMA PushLoadHeadInv ==
  ASSUME IInv, NEW k \in 1..Len(head_), PushLoadHead(k)
  PROVE  IInv'
<1> USE DEF IInv, PushLoadHead, ReadHead, consumerVars
<1>1. k \in Nat /\ k > 0 /\ k >= seen_head /\ head_[k].val = Wrap(k - 1)
      /\ head_[k].val \in Slots
  BY HeadStore
<1>0. psees' \in Nat /\ psees' >= k - 1
  <2>1. psees \in Nat
    BY NumberTypes
  <2>2. head_[k].clock = k - 1
    BY HeadStore
  <2>3. head_[k].clock \in Nat
    BY <1>1, <2>2
  <2>4. psees' = Acquired(psees, head_[k])
    OBVIOUS
  <2> QED
    BY <2>1, <2>2, <2>3, <2>4, AcquiredClock
<1>2. TypeOK'
  <2>1. psees' \in Nat /\ seen_head' \in 1..Len(head_') /\ head_cache_' \in Slots
    BY <1>1, <1>0
  <2>2. /\ ppc' \in {"idle", "write"}
        /\ quota' \in Nat /\ pushed' \in Nat /\ accepted' \in Nat
    <3>1. CASE NextTail = head_[k].val
      BY <3>1 DEF TypeOK, Return
    <3>2. CASE NextTail # head_[k].val
      BY <3>2 DEF TypeOK
    <3> QED
      BY <3>1, <3>2
  <2> QED
    BY <2>1, <2>2 DEF TypeOK
<1>3. Sent' = Sent /\ Taken' = Taken /\ Claiming' = Claiming
  BY DEF Sent, Taken, Claiming
<1>4. IndexInv'
  BY DEF IndexInv
<1>5. CacheInv'
  <2>1. Claimed = 0 /\ Sent \in Nat /\ NextTail = Wrap(Sent + 1)
        /\ Sent + Claimed - (seen_head - 1) < Capacity
    BY Counters DEF Claimed
  <2>2. Sent' + Claimed' - (k - 1) < Capacity
    <3>1. CASE NextTail = head_[k].val
      BY <3>1, <2>1, <1>1, <1>3, CapacityType DEF Claimed, Return, TypeOK
    <3>2. CASE NextTail # head_[k].val
      <4>1. Sent + 1 # (k - 1) + Capacity
        BY <3>2, <2>1, <1>1, WrapRound
      <4> QED
        BY <4>1, <3>2, <2>1, <1>1, <1>3, CapacityType DEF Claimed, TypeOK
    <3> QED
      BY <3>1, <3>2
  <2>3. head_cache_' = Wrap(k - 1) /\ k \in 1..seen_head'
    BY <1>1
  <2> QED
    BY <2>2, <2>3, <1>3 DEF CacheInv
<1>6. ClockInv'
  <2>1. ppc' # "publish" /\ ppc # "publish"
    BY DEF Return
  <2>2. pclock = Sent + 0 /\ pclock' = pclock /\ psees' >= seen_head' - 1
    BY <2>1, <1>0 DEF ClockInv
  <2>3. /\ cclock' = Taken' + (IF cpc' = "publish" THEN 1 ELSE 0)
        /\ csees' >= seen_tail' - 1
    BY <1>3 DEF ClockInv
  <2>4. wclock' = wclock /\ rclock' = rclock /\ pclock' = pclock /\ cclock' = cclock
    OBVIOUS
  <2>5. /\ \A s \in Slots : wclock'[s] > 0 =>
             Wrap(wclock'[s] - 1) = s /\ wclock'[s] <= pclock'
        /\ \A s \in Slots : rclock'[s] > 0 =>
             Wrap(rclock'[s] - 1) = s /\ rclock'[s] <= cclock'
    BY <2>4 DEF ClockInv
  <2> QED
    BY <2>1, <2>2, <2>3, <2>5, <1>3 DEF ClockInv
<1>7. ContentInv'
  <2>1. accepted' + pushed' = Sent
    <3>1. accepted \in Nat /\ pushed \in Nat /\ accepted + pushed = Sent
      BY DEF ContentInv, TypeOK
    <3>2. \/ accepted' = accepted + pushed /\ pushed' = 0
          \/ accepted' = accepted /\ pushed' = pushed
      BY DEF Return
    <3> QED
      BY <3>1, <3>2
  <2>2. UNCHANGED <<pclock, buffer_, received, item, cpc>>
    OBVIOUS
  <2> QED
    BY <2>1, <2>2, <1>3 DEF ContentInv
<1>8. PromiseInv'
  <2>1. Sent - (seen_head - 1) + room < Capacity /\ Taken + avail <= seen_tail - 1
    BY DEF PromiseInv
  <2>2. Sent \in Nat /\ room \in Nat /\ seen_head \in Nat
    <3>1. Sent \in Nat
      BY Counters
    <3>2. room \in 0..Capacity - 1 /\ seen_head \in 1..Len(head_)
      BY DEF TypeOK
    <3> QED
      BY <3>1, <3>2
  <2>3. Sent' - (seen_head' - 1) + room' < Capacity
    BY <1>1, <1>3, <2>1, <2>2, CapacityType
  <2> QED
    BY <1>3, <2>1, <2>3 DEF PromiseInv
<1> QED
  BY <1>2, <1>4, <1>5, <1>6, <1>7, <1>8

\* The plain write to buffer_: every other slot in use keeps its item.
LEMMA PushWriteInv ==
  ASSUME IInv, PushWrite
  PROVE  IInv'
<1> USE DEF IInv, PushWrite, consumerVars
<1>1. /\ Sent \in Nat /\ Taken \in Nat /\ Taken <= Sent /\ Sent - Taken < Capacity
      /\ CurrentTail = Wrap(Sent) /\ CurrentTail \in Slots
      /\ pclock = Sent /\ Offered = Sent + 1
  <2>1. /\ Sent \in Nat /\ Taken \in Nat /\ CurrentTail = Wrap(Sent)
        /\ Claiming \in {0, 1}
        /\ Taken + Claiming <= Sent /\ Sent + Claimed - Taken < Capacity
    BY Counters
  <2>2. Claimed = 1
    BY DEF Claimed
  <2>3. Taken <= Sent /\ Sent - Taken < Capacity
    BY <2>1, <2>2, CapacityType
  <2>4. CurrentTail \in Slots
    BY <2>1, WrapType
  <2>5. pclock = Sent
    BY <2>1 DEF ClockInv
  <2>6. Offered = Sent + 1
    BY <2>1 DEF ContentInv, Offered
  <2> QED
    BY <2>1, <2>3, <2>4, <2>5, <2>6
<1>2. TypeOK'
  <2>1. Offered \in Nat /\ pclock' \in Nat /\ pclock + 1 \in Nat
    BY <1>1
  <2>2. buffer_ \in [Slots -> Nat] /\ wclock \in [Slots -> Nat]
    BY DEF TypeOK
  <2>3. buffer_' \in [Slots -> Nat]
    BY <2>1, <2>2
  <2>4. wclock' \in [Slots -> Nat]
    BY <2>1, <2>2
  <2> QED
    BY <2>1, <2>3, <2>4 DEF TypeOK
<1>3. Sent' = Sent /\ Taken' = Taken /\ Claimed' = Claimed /\ Claiming' = Claiming
  BY DEF Sent, Taken, Claimed, Claiming
<1>4. IndexInv'
  BY DEF IndexInv
<1>5. CacheInv'
  BY <1>3 DEF CacheInv
<1>6. ClockInv'
  <2>1. \A s \in Slots : wclock'[s] > 0 =>
          Wrap(wclock'[s] - 1) = s /\ wclock'[s] <= pclock'
    <3> SUFFICES ASSUME NEW s \in Slots, wclock'[s] > 0
                 PROVE  Wrap(wclock'[s] - 1) = s /\ wclock'[s] <= pclock'
      OBVIOUS
    <3>1. CASE s = CurrentTail
      <4>1. wclock'[s] = Sent + 1 /\ pclock' = Sent + 1
        BY <3>1, <1>1 DEF TypeOK
      <4>2. wclock'[s] - 1 = Sent
        BY <4>1, <1>1
      <4> QED
        BY <4>1, <4>2, <3>1, <1>1
    <3>2. CASE s # CurrentTail
      <4>1. wclock'[s] = wclock[s] /\ wclock[s] \in Nat
        BY <3>2 DEF TypeOK
      <4>2. Wrap(wclock[s] - 1) = s /\ wclock[s] <= pclock
        BY <4>1 DEF ClockInv
      <4> QED
        BY <4>1, <4>2, <1>1
    <3> QED
      BY <3>1, <3>2
  <2> QED
    BY <2>1, <1>1, <1>3 DEF ClockInv
<1>7. ContentInv'
  <2>1. \A k \in Taken..Sent : buffer_'[Wrap(k)] = k + 1
    <3> SUFFICES ASSUME NEW k \in Taken..Sent PROVE buffer_'[Wrap(k)] = k + 1
      OBVIOUS
    <3>1. CASE k = Sent
      BY <3>1, <1>1 DEF TypeOK
    <3>2. CASE k # Sent
      <4>1. k \in Int /\ Sent \in Int /\ k <= Sent /\ Sent - k < Capacity
        BY <1>1, CapacityType
      <4>2. Wrap(k) # Wrap(Sent)
        BY <3>2, <4>1, WrapInjective
      <4>3. buffer_[Wrap(k)] = k + 1
        BY <3>2, <1>1 DEF ContentInv
      <4> QED
        BY <4>1, <4>2, <4>3, <1>1, WrapType DEF TypeOK
    <3> QED
      BY <3>1, <3>2
  <2> QED
    BY <2>1, <1>1, <1>3 DEF ContentInv
<1>8. PromiseInv'
  BY <1>3 DEF PromiseInv
<1> QED
  BY <1>2, <1>4, <1>5, <1>6, <1>7, <1>8

\* The release store of tail_: one more push, numbered and clocked as it should.
LEMMA PushPublishInv ==
  ASSUME IInv, PushPublish
  PROVE  IInv'
<1> USE DEF IInv, PushPublish, consumerVars
<1> DEFINE store == [val |-> NextTail, clock |-> Released(pclock)]
<1>1. /\ Sent \in Nat /\ Taken \in Nat /\ Claimed = 1 /\ pclock = Sent + 1
      /\ NextTail = Wrap(Sent + 1) /\ NextTail \in Slots
  BY Counters, WrapType DEF Claimed, ClockInv
<1>2. store \in Store /\ store.val = Wrap(Sent + 1) /\ store.clock = Sent + 1
  BY <1>1 DEF Store, Released
<1>3. tail_' = Append(tail_, store)
  OBVIOUS
<1> HIDE DEF store
<1>4. Len(tail_') = Len(tail_) + 1 /\ tail_' \in Seq(Store)
      /\ tail_'[Len(tail_) + 1] = store
      /\ \A k \in 1..Len(tail_) : tail_'[k] = tail_[k]
  <2>1. tail_ \in Seq(Store)
    BY DEF TypeOK
  <2> QED
    BY <1>2, <1>3, <2>1
<1>5. Sent' = Sent + 1 /\ Taken' = Taken /\ Claimed' = 0 /\ Claiming' = Claiming
      /\ ppc' \in {"idle", "check"}
  <2>1. ppc' \in {"idle", "check"}
    BY DEF Return
  <2>2. Sent' = Sent + 1
    <3>1. Len(tail_) \in Nat
      BY DEF TypeOK
    <3> QED
      BY <1>4, <3>1 DEF Sent
  <2>3. Taken' = Taken /\ Claiming' = Claiming
    BY DEF Taken, Claiming
  <2>4. Claimed' = 0
    BY <2>1 DEF Claimed
  <2> QED
    BY <2>1, <2>2, <2>3, <2>4
<1>6. TypeOK'
  <2>1. quota' \in Nat /\ pushed' \in Nat /\ accepted' \in Nat
    <3>1. CASE pushed + 1 = quota
      BY <3>1 DEF TypeOK, Return
    <3>2. CASE pushed + 1 # quota
      BY <3>2 DEF TypeOK
    <3> QED
      BY <3>1, <3>2
  <2>2. room' \in 0..Capacity - 1
    BY CapacityType DEF TypeOK
  <2>3. seen_tail' \in 1..Len(tail_') /\ Len(tail_') > 0
    <3>1. seen_tail' = seen_tail /\ seen_tail \in 1..Len(tail_) /\ Len(tail_) \in Nat
      BY DEF TypeOK
    <3> QED BY <1>4, <3>1
  <2> QED
    BY <2>1, <2>2, <2>3, <1>4, <1>5 DEF TypeOK
<1>7. IndexInv'
  <2>1. \A k \in 1..Len(tail_') : tail_'[k].val = Wrap(k - 1) /\ tail_'[k].clock = k - 1
    <3> SUFFICES ASSUME NEW k \in 1..Len(tail_')
                 PROVE  tail_'[k].val = Wrap(k - 1) /\ tail_'[k].clock = k - 1
      OBVIOUS
    <3>1. CASE k = Len(tail_) + 1
      <4>1. k - 1 = Sent + 1
        BY <3>1 DEF Sent, TypeOK
      <4> QED
        BY <4>1, <3>1, <1>2, <1>4
    <3>2. CASE k # Len(tail_) + 1
      <4>1. k \in 1..Len(tail_)
        BY <3>2, <1>4 DEF TypeOK
      <4> QED
        BY <4>1, <1>4 DEF IndexInv
    <3> QED
      BY <3>1, <3>2
  <2> QED
    BY <2>1 DEF IndexInv
<1>8. CacheInv'
  <2>1. PICK j \in 1..seen_head :
          head_cache_ = Wrap(j - 1) /\ Sent + Claimed - (j - 1) < Capacity
    BY DEF CacheInv
  <2>2. Sent' + Claimed' - (j - 1) < Capacity
    BY <2>1, <1>1, <1>5, CapacityType
  <2>3. PICK i \in 1..seen_tail : tail_cache_ = Wrap(i - 1) /\ Taken + Claiming <= i - 1
    BY DEF CacheInv
  <2> QED
    BY <2>1, <2>2, <2>3, <1>5 DEF CacheInv
<1>9. ClockInv'
  BY <1>1, <1>5 DEF ClockInv
<1>10. ContentInv'
  <2>1. accepted' + pushed' = Sent + 1
    <3>1. CASE pushed + 1 = quota
      BY <3>1, <1>1 DEF Return, ContentInv, TypeOK
    <3>2. CASE pushed + 1 # quota
      BY <3>2, <1>1 DEF ContentInv, TypeOK
    <3> QED
      BY <3>1, <3>2
  <2> QED
    BY <2>1, <1>5 DEF ContentInv
<1>11. PromiseInv'
  <2>1. Sent + 1 - (seen_head - 1) < Capacity
    BY <1>1, Counters
  <2>2. Sent - (seen_head - 1) + room < Capacity /\ room \in Nat /\ seen_head \in Nat
    BY DEF PromiseInv, TypeOK
  <2>3. Sent' - (seen_head - 1) + room' < Capacity
    BY <2>1, <2>2, <1>1, <1>5, CapacityType
  <2> QED
    BY <2>3, <1>5 DEF PromiseInv
<1> QED
  BY <1>6, <1>7, <1>8, <1>9, <1>10, <1>11

\* size_approx and empty called by the producer: room is what is left of a ring
\* that can only drain meanwhile.
LEMMA ProducerSizeInv ==
  ASSUME IInv, NEW k \in 1..Len(head_), ProducerSize(k)
  PROVE  IInv'
<1> USE DEF IInv, ProducerSize, ReadHead, consumerVars
<1>1. k \in Nat /\ k > 0 /\ k >= seen_head /\ head_[k].val = Wrap(k - 1)
      /\ k - 1 <= Taken /\ k - 1 \in Int
  BY HeadStore
<1>0. psees' \in Nat /\ psees' >= k - 1
  <2>1. psees \in Nat
    BY NumberTypes
  <2>2. head_[k].clock = k - 1
    BY HeadStore
  <2>3. head_[k].clock \in Nat
    BY <1>1, <2>2
  <2>4. psees' = Acquired(psees, head_[k])
    OBVIOUS
  <2> QED
    BY <2>1, <2>2, <2>3, <2>4, AcquiredClock
<1>2. Sent' = Sent /\ Taken' = Taken /\ Claimed' = Claimed /\ Claiming' = Claiming
  BY DEF Sent, Taken, Claimed, Claiming
<1>3. room' = Capacity - 1 - (Sent - (k - 1)) /\ room' \in 0..Capacity - 1
      /\ Sent \in Nat
  <2>1. /\ Sent \in Nat /\ Taken \in Nat /\ Claiming \in {0, 1} /\ Claimed = 0
        /\ Taken + Claiming <= Sent /\ CurrentTail = Wrap(Sent)
        /\ Sent + Claimed - (seen_head - 1) < Capacity
    BY Counters DEF Claimed
  <2>0. k - 1 >= seen_head - 1 /\ seen_head \in Nat
    BY <1>1, NumberTypes
  <2>2. k - 1 <= Sent /\ Sent - (k - 1) < Capacity /\ k - 1 \in Int /\ Sent \in Int
    BY <2>1, <2>0, <1>1, CapacityType
  <2>3. Wrap(Wrap(Sent) - Wrap(k - 1)) = Sent - (k - 1)
    BY <2>2, WrapDistance
  <2>4. room' = Capacity - 1 - (Sent - (k - 1))
    BY <2>1, <2>3, <1>1
  <2> QED
    BY <2>1, <2>2, <2>4, CapacityType
<1>4. TypeOK'
  <2>1. psees' \in Nat /\ seen_head' \in 1..Len(head_')
    BY <1>0
  <2> QED
    BY <2>1, <1>3 DEF TypeOK
<1>5. IndexInv'
  BY DEF IndexInv
<1>6. CacheInv'
  <2>1. PICK j \in 1..seen_head :
          head_cache_ = Wrap(j - 1) /\ Sent + Claimed - (j - 1) < Capacity
    BY DEF CacheInv
  <2>2. j \in 1..seen_head'
    BY <1>1 DEF TypeOK
  <2> QED
    BY <2>1, <2>2, <1>2 DEF CacheInv
<1>7. ClockInv'
  <2>1. psees' >= seen_head' - 1
    BY <1>0
  <2> QED
    BY <2>1, <1>2 DEF ClockInv
<1>8. ContentInv'
  BY <1>2 DEF ContentInv
<1>9. PromiseInv'
  <2>1. Sent' - (seen_head' - 1) + room' < Capacity
    BY <1>1, <1>2, <1>3, CapacityType
  <2> QED
    BY <2>1, <1>2 DEF PromiseInv
<1> QED
  BY <1>4, <1>5, <1>6, <1>7, <1>8, <1>9

------------------------------------------------------------------------------
(* Every step of the consumer preserves the invariant.                     *)

\* The check against tail_cache_: when it lets the pop through, an item is there.
LEMMA PopCallInv ==
  ASSUME IInv, PopCall
  PROVE  IInv'
<1> USE DEF IInv, PopCall, producerVars
<1>1. TypeOK'
  BY DEF TypeOK
<1>2. Sent' = Sent /\ Taken' = Taken /\ Claimed' = Claimed
  BY DEF Sent, Taken, Claimed
<1>3. IndexInv'
  BY DEF IndexInv
<1>4. CacheInv'
  <2>1. PICK j \in 1..seen_tail :
          tail_cache_ = Wrap(j - 1) /\ Taken + Claiming <= j - 1
    BY DEF CacheInv
  <2>2. Claiming = 0 /\ Taken \in Nat /\ j \in Nat /\ CurrentHead = Wrap(Taken)
    BY Counters DEF Claiming, TypeOK
  <2>3. Taken' + Claiming' <= j - 1
    <3>1. CASE CurrentHead = tail_cache_
      BY <3>1, <2>1, <2>2, <1>2 DEF Claiming
    <3>2. CASE CurrentHead # tail_cache_
      <4>1. Taken # j - 1
        BY <3>2, <2>1, <2>2
      <4> QED
        BY <4>1, <3>2, <2>1, <2>2, <1>2 DEF Claiming
    <3> QED
      BY <3>1, <3>2
  <2>4. PICK i \in 1..seen_head :
          head_cache_ = Wrap(i - 1) /\ Sent + Claimed - (i - 1) < Capacity
    BY DEF CacheInv
  <2> QED
    BY <2>1, <2>3, <2>4, <1>2 DEF CacheInv
<1>5. ClockInv'
  BY <1>2 DEF ClockInv
<1>6. ContentInv'
  BY <1>2 DEF ContentInv
<1>7. PromiseInv'
  BY <1>2 DEF PromiseInv
<1> QED
  BY <1>1, <1>3, <1>4, <1>5, <1>6, <1>7

\* The acquire load of tail_.
LEMMA PopLoadTailInv ==
  ASSUME IInv, NEW k \in 1..Len(tail_), PopLoadTail(k)
  PROVE  IInv'
<1> USE DEF IInv, PopLoadTail, ReadTail, producerVars
<1>1. k \in Nat /\ k > 0 /\ k >= seen_tail /\ tail_[k].val = Wrap(k - 1)
      /\ tail_[k].val \in Slots
  BY TailStore
<1>0. csees' \in Nat /\ csees' >= k - 1
  <2>1. csees \in Nat
    BY NumberTypes
  <2>2. tail_[k].clock = k - 1
    BY TailStore
  <2>3. tail_[k].clock \in Nat
    BY <1>1, <2>2
  <2>4. csees' = Acquired(csees, tail_[k])
    OBVIOUS
  <2> QED
    BY <2>1, <2>2, <2>3, <2>4, AcquiredClock
<1>2. TypeOK'
  <2>1. csees' \in Nat /\ seen_tail' \in 1..Len(tail_') /\ tail_cache_' \in Slots
    BY <1>1, <1>0
  <2> QED
    BY <2>1 DEF TypeOK
<1>3. Sent' = Sent /\ Taken' = Taken /\ Claimed' = Claimed
  BY DEF Sent, Taken, Claimed
<1>4. IndexInv'
  BY DEF IndexInv
<1>5. CacheInv'
  <2>1. Claiming = 0 /\ Taken \in Nat /\ CurrentHead = Wrap(Taken)
        /\ Taken + Claiming <= seen_tail - 1
    BY Counters DEF Claiming
  <2>2. Taken' + Claiming' <= k - 1
    <3>1. CASE CurrentHead = tail_[k].val
      BY <3>1, <2>1, <1>1, <1>3 DEF Claiming, TypeOK
    <3>2. CASE CurrentHead # tail_[k].val
      <4>1. Taken # k - 1
        BY <3>2, <2>1, <1>1
      <4> QED
        BY <4>1, <3>2, <2>1, <1>1, <1>3 DEF Claiming, TypeOK
    <3> QED
      BY <3>1, <3>2
  <2>3. tail_cache_' = Wrap(k - 1) /\ k \in 1..seen_tail'
    BY <1>1
  <2>4. PICK i \in 1..seen_head :
          head_cache_ = Wrap(i - 1) /\ Sent + Claimed - (i - 1) < Capacity
    BY DEF CacheInv
  <2> QED
    BY <2>2, <2>3, <2>4, <1>3 DEF CacheInv
<1>6. ClockInv'
  <2>1. cpc' # "publish" /\ cpc # "publish"
    OBVIOUS
  <2>2. cclock = Taken + 0 /\ cclock' = cclock /\ csees' >= seen_tail' - 1
    BY <2>1, <1>0 DEF ClockInv
  <2>3. /\ pclock' = Sent' + (IF ppc' = "publish" THEN 1 ELSE 0)
        /\ psees' >= seen_head' - 1
    BY <1>3 DEF ClockInv
  <2>4. wclock' = wclock /\ rclock' = rclock /\ pclock' = pclock /\ cclock' = cclock
    OBVIOUS
  <2>5. /\ \A s \in Slots : wclock'[s] > 0 =>
             Wrap(wclock'[s] - 1) = s /\ wclock'[s] <= pclock'
        /\ \A s \in Slots : rclock'[s] > 0 =>
             Wrap(rclock'[s] - 1) = s /\ rclock'[s] <= cclock'
    BY <2>4 DEF ClockInv
  <2> QED
    BY <2>1, <2>2, <2>3, <2>5, <1>3 DEF ClockInv
<1>7. ContentInv'
  BY <1>3 DEF ContentInv
<1>8. PromiseInv'
  <2>1. Taken + avail <= seen_tail - 1 /\ Taken \in Nat
    BY Counters DEF PromiseInv
  <2>2. Taken' + avail' <= seen_tail' - 1
    BY <2>1, <1>1, <1>3 DEF TypeOK
  <2> QED
    BY <2>2, <1>3 DEF PromiseInv
<1> QED
  BY <1>2, <1>4, <1>5, <1>6, <1>7, <1>8

\* The plain read of buffer_ finds the item that is due.
LEMMA PopReadInv ==
  ASSUME IInv, PopRead
  PROVE  IInv'
<1> USE DEF IInv, PopRead, producerVars
<1>1. /\ Sent \in Nat /\ Taken \in Nat /\ Taken < Sent
      /\ CurrentHead = Wrap(Taken) /\ CurrentHead \in Slots
      /\ cclock = Taken /\ buffer_[CurrentHead] = Taken + 1
  <2>1. /\ Sent \in Nat /\ Taken \in Nat /\ CurrentHead = Wrap(Taken)
        /\ Taken + Claiming <= Sent
    BY Counters
  <2>2. Claiming = 1
    BY DEF Claiming
  <2>3. Taken < Sent
    BY <2>1, <2>2
  <2>4. CurrentHead \in Slots
    BY <2>1, WrapType
  <2>5. cclock = Taken
    BY <2>1 DEF ClockInv
  <2>6. Taken \in Taken..pclock - 1
    BY <2>1, <2>3 DEF ClockInv
  <2>7. buffer_[Wrap(Taken)] = Taken + 1
    BY <2>6 DEF ContentInv
  <2> QED
    BY <2>1, <2>3, <2>4, <2>5, <2>7
<1>2. TypeOK'
  <2>1. item' \in Nat /\ cclock' \in Nat /\ cclock + 1 \in Nat
    BY <1>1
  <2>2. rclock \in [Slots -> Nat]
    BY DEF TypeOK
  <2>3. rclock' \in [Slots -> Nat]
    BY <2>1, <2>2
  <2> QED
    BY <2>1, <2>3 DEF TypeOK
<1>3. Sent' = Sent /\ Taken' = Taken /\ Claimed' = Claimed /\ Claiming' = Claiming
  BY DEF Sent, Taken, Claimed, Claiming
<1>4. IndexInv'
  BY DEF IndexInv
<1>5. CacheInv'
  BY <1>3 DEF CacheInv
<1>6. ClockInv'
  <2>1. \A s \in Slots : rclock'[s] > 0 =>
          Wrap(rclock'[s] - 1) = s /\ rclock'[s] <= cclock'
    <3> SUFFICES ASSUME NEW s \in Slots, rclock'[s] > 0
                 PROVE  Wrap(rclock'[s] - 1) = s /\ rclock'[s] <= cclock'
      OBVIOUS
    <3>1. CASE s = CurrentHead
      <4>1. rclock'[s] = Taken + 1 /\ cclock' = Taken + 1
        BY <3>1, <1>1 DEF TypeOK
      <4>2. rclock'[s] - 1 = Taken
        BY <4>1, <1>1
      <4> QED
        BY <4>1, <4>2, <3>1, <1>1
    <3>2. CASE s # CurrentHead
      <4>1. rclock'[s] = rclock[s] /\ rclock[s] \in Nat
        BY <3>2 DEF TypeOK
      <4>2. Wrap(rclock[s] - 1) = s /\ rclock[s] <= cclock
        BY <4>1 DEF ClockInv
      <4> QED
        BY <4>1, <4>2, <1>1
    <3> QED
      BY <3>1, <3>2
  <2> QED
    BY <2>1, <1>1, <1>3 DEF ClockInv
<1>7. ContentInv'
  BY <1>1, <1>3 DEF ContentInv
<1>8. PromiseInv'
  BY <1>3 DEF PromiseInv
<1> QED
  BY <1>2, <1>4, <1>5, <1>6, <1>7, <1>8

\* The release store of head_ delivers the item.
LEMMA PopPublishInv ==
  ASSUME IInv, PopPublish
  PROVE  IInv'
<1> USE DEF IInv, PopPublish, producerVars
<1> DEFINE store == [val |-> Wrap(CurrentHead + 1), clock |-> Released(cclock)]
<1>1. /\ Sent \in Nat /\ Taken \in Nat /\ Claiming = 1 /\ cclock = Taken + 1
      /\ item = Taken + 1 /\ Wrap(CurrentHead + 1) = Wrap(Taken + 1)
  <2>1. Sent \in Nat /\ Taken \in Nat /\ CurrentHead = Wrap(Taken)
    BY Counters
  <2>2. Wrap(CurrentHead + 1) = Wrap(Taken + 1)
    BY <2>1, WrapAdd
  <2> QED
    BY <2>1, <2>2 DEF Claiming, ClockInv, ContentInv
<1>2. store \in Store /\ store.val = Wrap(Taken + 1) /\ store.clock = Taken + 1
  BY <1>1, WrapType DEF Store, Released
<1>3. head_' = Append(head_, store)
  OBVIOUS
<1> HIDE DEF store
<1>4. Len(head_') = Len(head_) + 1 /\ head_' \in Seq(Store)
      /\ head_'[Len(head_) + 1] = store
      /\ \A k \in 1..Len(head_) : head_'[k] = head_[k]
  <2>1. head_ \in Seq(Store)
    BY DEF TypeOK
  <2> QED
    BY <1>2, <1>3, <2>1
<1>5. Sent' = Sent /\ Taken' = Taken + 1 /\ Claimed' = Claimed /\ Claiming' = 0
  BY <1>4 DEF Sent, Taken, Claimed, Claiming, TypeOK
<1>6. TypeOK'
  <2>1. received' \in Seq(Nat)
    BY DEF TypeOK
  <2>2. avail' \in 0..Capacity - 1
    BY CapacityType DEF TypeOK
  <2>3. seen_head' \in 1..Len(head_') /\ Len(head_') > 0
    <3>1. seen_head' = seen_head /\ seen_head \in 1..Len(head_) /\ Len(head_) \in Nat
      BY DEF TypeOK
    <3> QED BY <1>4, <3>1
  <2> QED
    BY <2>1, <2>2, <2>3, <1>4 DEF TypeOK
<1>7. IndexInv'
  <2>1. \A k \in 1..Len(head_') : head_'[k].val = Wrap(k - 1) /\ head_'[k].clock = k - 1
    <3> SUFFICES ASSUME NEW k \in 1..Len(head_')
                 PROVE  head_'[k].val = Wrap(k - 1) /\ head_'[k].clock = k - 1
      OBVIOUS
    <3>1. CASE k = Len(head_) + 1
      <4>1. k - 1 = Taken + 1
        BY <3>1 DEF Taken, TypeOK
      <4> QED
        BY <4>1, <3>1, <1>2, <1>4
    <3>2. CASE k # Len(head_) + 1
      <4>1. k \in 1..Len(head_)
        BY <3>2, <1>4 DEF TypeOK
      <4> QED
        BY <4>1, <1>4 DEF IndexInv
    <3> QED
      BY <3>1, <3>2
  <2> QED
    BY <2>1 DEF IndexInv
<1>8. CacheInv'
  <2>1. PICK j \in 1..seen_head :
          head_cache_ = Wrap(j - 1) /\ Sent + Claimed - (j - 1) < Capacity
    BY DEF CacheInv
  <2>2. PICK i \in 1..seen_tail : tail_cache_ = Wrap(i - 1) /\ Taken + Claiming <= i - 1
    BY DEF CacheInv
  <2>3. Taken' + Claiming' <= i - 1
    BY <2>2, <1>1, <1>5
  <2> QED
    BY <2>1, <2>2, <2>3, <1>5 DEF CacheInv
<1>9. ClockInv'
  BY <1>1, <1>5 DEF ClockInv
<1>10. ContentInv'
  <2>1. Len(received) = Taken /\ \A i \in 1..Len(received) : received[i] = i
    BY DEF ContentInv
  <2>2. Len(received') = Taken + 1 /\ received'[Taken + 1] = item
        /\ \A i \in 1..Taken : received'[i] = received[i]
    <3>1. received \in Seq(Nat) /\ item \in Nat /\ received' = Append(received, item)
      BY DEF TypeOK
    <3> QED
      BY <3>1, <2>1, <1>1
  <2>3. \A i \in 1..Len(received') : received'[i] = i
    BY <2>1, <2>2, <1>1
  <2>4. \A k \in Taken + 1..pclock - 1 : buffer_[Wrap(k)] = k + 1
    BY <1>1 DEF ContentInv, TypeOK
  <2> QED
    BY <2>2, <2>3, <2>4, <1>5 DEF ContentInv
<1>11. PromiseInv'
  <2>1. Taken + 1 <= seen_tail - 1
    BY <1>1, Counters
  <2>2. Taken + avail <= seen_tail - 1 /\ avail \in Nat /\ seen_tail \in Nat
    BY DEF PromiseInv, TypeOK
  <2>3. Taken' + avail' <= seen_tail - 1
    BY <2>1, <2>2, <1>1, <1>5
  <2> QED
    BY <2>3, <1>5 DEF PromiseInv
<1> QED
  BY <1>6, <1>7, <1>8, <1>9, <1>10, <1>11

\* size_approx and empty called by the consumer: avail counts items that only
\* the consumer can take away.
LEMMA ConsumerSizeInv ==
  ASSUME IInv, NEW k \in 1..Len(tail_), ConsumerSize(k)
  PROVE  IInv'
<1> USE DEF IInv, ConsumerSize, ReadTail, producerVars
<1>1. k \in Nat /\ k > 0 /\ k >= seen_tail /\ tail_[k].val = Wrap(k - 1)
      /\ k - 1 <= Sent /\ k - 1 \in Int
  BY TailStore
<1>0. csees' \in Nat /\ csees' >= k - 1
  <2>1. csees \in Nat
    BY NumberTypes
  <2>2. tail_[k].clock = k - 1
    BY TailStore
  <2>3. tail_[k].clock \in Nat
    BY <1>1, <2>2
  <2>4. csees' = Acquired(csees, tail_[k])
    OBVIOUS
  <2> QED
    BY <2>1, <2>2, <2>3, <2>4, AcquiredClock
<1>2. Sent' = Sent /\ Taken' = Taken /\ Claimed' = Claimed /\ Claiming' = Claiming
  BY DEF Sent, Taken, Claimed, Claiming
<1>3. avail' = k - 1 - Taken /\ avail' \in 0..Capacity - 1 /\ Taken \in Nat
  <2>1. /\ Sent \in Nat /\ Taken \in Nat /\ Claiming = 0 /\ Claimed \in {0, 1}
        /\ CurrentHead = Wrap(Taken) /\ Taken + Claiming <= seen_tail - 1
        /\ Sent + Claimed - Taken < Capacity
    BY Counters DEF Claiming
  <2>0. k - 1 >= seen_tail - 1 /\ seen_tail \in Nat
    BY <1>1, NumberTypes
  <2>2. Taken <= k - 1 /\ k - 1 - Taken < Capacity /\ k - 1 \in Int /\ Taken \in Int
    BY <2>1, <2>0, <1>1, CapacityType
  <2>3. Wrap(Wrap(k - 1) - Wrap(Taken)) = k - 1 - Taken
    BY <2>2, WrapDistance
  <2>4. avail' = k - 1 - Taken
    BY <2>1, <2>3, <1>1
  <2> QED
    BY <2>1, <2>2, <2>4, CapacityType
<1>4. TypeOK'
  <2>1. csees' \in Nat /\ seen_tail' \in 1..Len(tail_')
    BY <1>0
  <2> QED
    BY <2>1, <1>3 DEF TypeOK
<1>5. IndexInv'
  BY DEF IndexInv
<1>6. CacheInv'
  <2>1. PICK j \in 1..seen_tail :
          tail_cache_ = Wrap(j - 1) /\ Taken + Claiming <= j - 1
    BY DEF CacheInv
  <2>2. j \in 1..seen_tail'
    <3>1. seen_tail' = k /\ seen_tail \in Nat
      BY DEF TypeOK
    <3> QED
      BY <3>1, <2>1, <1>1
  <2>3. \E i \in 1..seen_head :
          head_cache_ = Wrap(i - 1) /\ Sent + Claimed - (i - 1) < Capacity
    BY DEF CacheInv
  <2>4. /\ tail_cache_' = tail_cache_ /\ head_cache_' = head_cache_
        /\ seen_head' = seen_head
    OBVIOUS
  <2>5. tail_cache_' = Wrap(j - 1) /\ Taken' + Claiming' <= j - 1
    BY <2>1, <2>4, <1>2
  <2>6. \E i \in 1..seen_head' :
          head_cache_' = Wrap(i - 1) /\ Sent' + Claimed' - (i - 1) < Capacity
    BY <2>3, <2>4, <1>2
  <2> QED
    BY <2>2, <2>5, <2>6 DEF CacheInv
<1>7. ClockInv'
  <2>1. csees' >= seen_tail' - 1
    BY <1>0
  <2> QED
    BY <2>1, <1>2 DEF ClockInv
<1>8. ContentInv'
  BY <1>2 DEF ContentInv
<1>9. PromiseInv'
  <2>1. Taken' + avail' <= seen_tail' - 1
    BY <1>1, <1>2, <1>3
  <2> QED
    BY <2>1, <1>2 DEF PromiseInv
<1> QED
  BY <1>4, <1>5, <1>6, <1>7, <1>8, <1>9

------------------------------------------------------------------------------
\* Every step, a stuttering one included, preserves the invariant.
LEMMA NextIInv == IInv /\ [Next]_vars => IInv'
<1> SUFFICES ASSUME IInv, [Next]_vars PROVE IInv'
  OBVIOUS
<1>1. CASE UNCHANGED vars
  <2> USE <1>1 DEF vars, producerVars, consumerVars
  <2>1. Sent' = Sent /\ Taken' = Taken /\ Claimed' = Claimed /\ Claiming' = Claiming
    BY DEF Sent, Taken, Claimed, Claiming
  <2>2. TypeOK'
    BY DEF IInv, TypeOK
  <2>3. IndexInv' /\ CacheInv'
    BY <2>1 DEF IInv, IndexInv, CacheInv
  <2>4. ClockInv' /\ ContentInv' /\ PromiseInv'
    BY <2>1 DEF IInv, ClockInv, ContentInv, PromiseInv
  <2> QED
    BY <2>2, <2>3, <2>4 DEF IInv
<1>2. CASE Producer
  <2>1. ASSUME NEW count \in 1..BatchSize, PushCall(count) PROVE IInv'
    BY <2>1, PushCallInv
  <2>2. CASE PushCheck
    BY <2>2, PushCheckInv
  <2>3. ASSUME NEW k \in 1..Len(head_), PushLoadHead(k) PROVE IInv'
    BY <2>3, PushLoadHeadInv
  <2>4. CASE PushWrite
    BY <2>4, PushWriteInv
  <2>5. CASE PushPublish
    BY <2>5, PushPublishInv
  <2>6. ASSUME NEW k \in 1..Len(head_), ProducerSize(k) PROVE IInv'
    BY <2>6, ProducerSizeInv
  <2> QED
    BY <1>2, <2>1, <2>2, <2>3, <2>4, <2>5, <2>6 DEF Producer
<1>3. CASE Consumer
  <2>1. CASE PopCall
    BY <2>1, PopCallInv
  <2>2. ASSUME NEW k \in 1..Len(tail_), PopLoadTail(k) PROVE IInv'
    BY <2>2, PopLoadTailInv
  <2>3. CASE PopRead
    BY <2>3, PopReadInv
  <2>4. CASE PopPublish
    BY <2>4, PopPublishInv
  <2>5. ASSUME NEW k \in 1..Len(tail_), ConsumerSize(k) PROVE IInv'
    BY <2>5, ConsumerSizeInv
  <2> QED
    BY <1>3, <2>1, <2>2, <2>3, <2>4, <2>5 DEF Consumer
<1> QED
  BY <1>1, <1>2, <1>3 DEF Next

\* The invariant of push, push_bulk, pop, empty and size_approx, for every power
\* of two capacity, every batch size and every interleaving of the two threads.
THEOREM Invariant == Spec => []IInv
<1>1. Init => IInv
  BY InitIInv
<1>2. IInv /\ [Next]_vars => IInv'
  BY NextIInv
<1> QED
  BY <1>1, <1>2, PTL DEF Spec

\* Every index the queue stores lies on the ring and no counter goes negative.
THEOREM TypeCorrect == Spec => []TypeOK
<1>1. IInv => TypeOK
  BY DEF IInv
<1> QED
  BY <1>1, Invariant, PTL

------------------------------------------------------------------------------
\* Neither plain access to buffer_ races with the other thread's: the last pop of
\* the slot a push overwrites, a whole round ago, happened before the push, and
\* so did the push of the item a pop reads.
LEMMA IInvNoDataRace == IInv => NoDataRace
<1> SUFFICES ASSUME IInv PROVE NoDataRace
  OBVIOUS
<1> USE DEF IInv
<1>1. ASSUME ppc = "write" PROVE rclock[CurrentTail] <= psees
  <2> DEFINE r == rclock[CurrentTail]
  <2>1. /\ Sent \in Nat /\ Taken \in Nat /\ CurrentTail = Wrap(Sent) /\ Claimed = 1
        /\ Sent + Claimed - (seen_head - 1) < Capacity
        /\ Claiming \in {0, 1} /\ Taken + Claiming <= Sent
    BY <1>1, Counters DEF Claimed
  <2>2. CurrentTail \in Slots /\ r \in Nat /\ psees \in Nat /\ seen_head \in Nat
    BY <2>1, WrapType DEF TypeOK
  <2>3. CASE r = 0
    BY <2>2, <2>3
  <2>4. CASE r > 0
    <3>1. Wrap(r - 1) = Wrap(Sent) /\ r <= cclock
      BY <2>1, <2>2, <2>4 DEF ClockInv
    <3>2. cclock = Taken + Claiming \/ cclock = Taken
      BY <2>1 DEF ClockInv, Claiming
    <3>3. r <= Sent
      BY <2>1, <2>2, <3>1, <3>2
    <3>4. psees >= seen_head - 1
      BY DEF ClockInv
    <3>5. r <= seen_head - 1
      <4> SUFFICES ASSUME r > seen_head - 1 PROVE FALSE
        BY <2>2
      <4>1. r - 1 \in Int /\ Sent \in Int /\ r - 1 <= Sent /\ Sent - (r - 1) < Capacity
        BY <2>1, <2>2, <3>3, CapacityType
      <4>2. r - 1 = Sent
        BY <4>1, <3>1, WrapInjective
      <4> QED
        BY <4>2, <3>3, <2>1, <2>2
    <3> QED
      BY <3>4, <3>5, <2>2
  <2> QED
    BY <2>2, <2>3, <2>4
<1>2. ASSUME cpc = "read" PROVE wclock[CurrentHead] <= csees
  <2> DEFINE w == wclock[CurrentHead]
  <2>1. /\ Sent \in Nat /\ Taken \in Nat /\ CurrentHead = Wrap(Taken) /\ Claiming = 1
        /\ Taken + Claiming <= seen_tail - 1 /\ Claimed \in {0, 1}
        /\ Sent + Claimed - Taken < Capacity
    BY <1>2, Counters DEF Claiming
  <2>2. CurrentHead \in Slots /\ w \in Nat /\ csees \in Nat /\ seen_tail \in Nat
    BY <2>1, WrapType DEF TypeOK
  <2>3. CASE w = 0
    BY <2>2, <2>3
  <2>4. CASE w > 0
    <3>1. Wrap(w - 1) = Wrap(Taken) /\ w <= pclock
      BY <2>1, <2>2, <2>4 DEF ClockInv
    <3>2. pclock <= Sent + Claimed
      BY <2>1 DEF ClockInv, Claimed
    <3>3. csees >= seen_tail - 1
      BY DEF ClockInv
    <3>4. w <= seen_tail - 1
      <4> SUFFICES ASSUME w > seen_tail - 1 PROVE FALSE
        BY <2>2
      <4>1. w - 1 \in Int /\ Taken \in Int /\ Taken <= w - 1 /\ w - 1 - Taken < Capacity
        <5>1. pclock \in Nat
          BY DEF TypeOK
        <5> QED
          BY <5>1, <2>1, <2>2, <3>1, <3>2, CapacityType
      <4>2. w - 1 = Taken
        BY <4>1, <3>1, WrapInjective
      <4> QED
        BY <4>2, <2>1, <2>2
    <3> QED
      BY <3>3, <3>4, <2>2
  <2> QED
    BY <2>2, <2>3, <2>4
<1> QED
  BY <1>1, <1>2 DEF NoDataRace

\* The plain accesses of push and pop to buffer_ are free of data races.
THEOREM RaceFree == Spec => []NoDataRace
BY Invariant, IInvNoDataRace, PTL

\* pop delivers the producer's stream in order, each item once.
THEOREM InOrder == Spec => []InOrderOnce
<1>1. IInv => InOrderOnce
  <2> SUFFICES ASSUME IInv PROVE InOrderOnce
    OBVIOUS
  <2>1. Sent \in Nat /\ Taken \in Nat /\ Claiming \in {0, 1} /\ Taken + Claiming <= Sent
    BY Counters
  <2> QED
    BY <2>1 DEF IInv, ContentInv, InOrderOnce
<1> QED
  BY <1>1, Invariant, PTL

------------------------------------------------------------------------------
\* A push fails only when the store of head_ it has just read is a whole round
\* behind, so no place was promised; a pop only when it reads its own index.
LEMMA StepKeepsPromise ==
  IInv /\ [Next]_vars => (PushFails => room = 0) /\ (PopFails => avail = 0)
<1> SUFFICES ASSUME IInv, [Next]_vars
             PROVE  (PushFails => room = 0) /\ (PopFails => avail = 0)
  OBVIOUS
<1>1. ASSUME PushFails PROVE room = 0
  <2>1. PICK k \in 1..Len(head_) : PushLoadHead(k)
    <3> USE <1>1 DEF PushFails
    <3>1. ~UNCHANGED vars
      BY DEF vars, producerVars
    <3>2. ~Consumer
      BY DEF Consumer, PopCall, PopLoadTail, PopRead, PopPublish, ConsumerSize,
             producerVars
    <3> QED
      BY <3>1, <3>2 DEF Next, Producer, PushCall, PushCheck, PushWrite, PushPublish,
                        ProducerSize
  <2>2. /\ k \in Nat /\ k >= seen_head /\ k - 1 <= Taken
        /\ NextTail = Wrap(k - 1)
    <3>1. NextTail = head_[k].val /\ k >= seen_head
      BY <2>1, <1>1 DEF PushLoadHead, ReadHead, PushFails
    <3> QED
      BY <3>1, HeadStore
  <2>3. /\ Sent \in Nat /\ Taken \in Nat /\ Claiming \in {0, 1} /\ Claimed = 0
        /\ NextTail = Wrap(Sent + 1) /\ Taken + Claiming <= Sent
        /\ Sent + Claimed - (seen_head - 1) < Capacity
    BY <1>1, Counters DEF Claimed, PushFails
  <2>4. seen_head \in Nat /\ room \in Nat /\ Sent - (seen_head - 1) + room < Capacity
    BY NumberTypes DEF IInv, PromiseInv
  <2>5. Sent + 1 - (k - 1) >= Capacity
    <3> SUFFICES ASSUME Sent + 1 - (k - 1) < Capacity PROVE FALSE
      BY <2>2, <2>3, CapacityType
    <3>1. k - 1 \in Int /\ Sent + 1 \in Int /\ k - 1 <= Sent + 1
      BY <2>2, <2>3
    <3>2. k - 1 = Sent + 1
      BY <3>1, <2>2, <2>3, WrapInjective
    <3> QED
      BY <3>2, <2>2, <2>3
  <2> QED
    BY <2>2, <2>3, <2>4, <2>5, CapacityType
<1>2. ASSUME PopFails PROVE avail = 0
  <2>1. PICK k \in 1..Len(tail_) : PopLoadTail(k)
    <3> USE <1>2 DEF PopFails
    <3>1. ~UNCHANGED vars
      BY DEF vars, consumerVars
    <3>2. ~Producer
      BY DEF Producer, PushCall, PushCheck, PushLoadHead, PushWrite, PushPublish,
             ProducerSize, consumerVars
    <3> QED
      BY <3>1, <3>2 DEF Next, Consumer, PopCall, PopRead, PopPublish, ConsumerSize
  <2>2. /\ k \in Nat /\ k >= seen_tail /\ k - 1 <= Sent
        /\ CurrentHead = Wrap(k - 1)
    <3>1. CurrentHead = tail_[k].val /\ k >= seen_tail
      BY <2>1, <1>2 DEF PopLoadTail, ReadTail, PopFails
    <3> QED
      BY <3>1, TailStore
  <2>3. /\ Sent \in Nat /\ Taken \in Nat /\ Claimed \in {0, 1}
        /\ CurrentHead = Wrap(Taken)
        /\ Sent + Claimed - Taken < Capacity
    BY Counters
  <2>4. seen_tail \in Nat /\ avail \in Nat /\ Taken + avail <= seen_tail - 1
    BY NumberTypes DEF IInv, PromiseInv
  <2>5. Taken = k - 1
    <3>1. k - 1 \in Int /\ Taken \in Int /\ Taken <= k - 1 /\ k - 1 - Taken < Capacity
      BY <2>2, <2>3, <2>4, CapacityType
    <3> QED
      BY <3>1, <2>2, <2>3, WrapInjective
  <2> QED
    BY <2>2, <2>3, <2>4, <2>5
<1> QED
  BY <1>1, <1>2

\* What size_approx has shown to its caller never fails it: neither push nor pop
\* can fail while a promise is open, whatever the caches hold.
THEOREM PromiseKept == Spec => SizeIsAPromise
BY Invariant, StepKeepsPromise, PTL DEF Spec, SizeIsAPromise

------------------------------------------------------------------------------
(* The ring of spsc_queue.hpp implements BoundedFIFO.  The abstract queue  *)
(* and the items delivered are functions of the two counters Sent and      *)
(* Taken: a step that changes neither stutters, and the two that do are    *)
(* Enqueue and Dequeue.                                                    *)

\* The numbers t + 1, ..., t + n.
Numbers(t, n) == [i \in 1..n |-> t + i]

LEMMA NumbersType ==
  ASSUME NEW t \in Nat, NEW n \in Nat
  PROVE  Numbers(t, n) \in Seq(Nat) /\ Len(Numbers(t, n)) = n
<1>1. Numbers(t, n) \in [1..n -> Nat]
  BY DEF Numbers
<1> QED BY <1>1

LEMMA NumbersAppend ==
  ASSUME NEW t \in Nat, NEW n \in Nat
  PROVE  Append(Numbers(t, n), t + n + 1) = Numbers(t, n + 1)
<1> DEFINE s == Append(Numbers(t, n), t + n + 1)
<1>1. s \in Seq(Nat) /\ Len(s) = n + 1
  <2> DEFINE front == Numbers(t, n)
             last == t + n + 1
  <2>1. front \in Seq(Nat) /\ Len(front) = n /\ last \in Nat
    BY NumbersType
  <2> HIDE DEF front, last
  <2>2. Append(front, last) \in Seq(Nat) /\ Len(Append(front, last)) = Len(front) + 1
    BY <2>1, AppendProperties
  <2> QED BY <2>1, <2>2 DEF front, last
<1>2. Numbers(t, n + 1) \in Seq(Nat) /\ Len(Numbers(t, n + 1)) = n + 1
  BY NumbersType
<1>3. ASSUME NEW i \in 1..n + 1 PROVE s[i] = Numbers(t, n + 1)[i]
  <2>1. CASE i = n + 1
    <3>1. s[i] = t + n + 1
      <4>1. Numbers(t, n) \in Seq(Nat) /\ Len(Numbers(t, n)) = n /\ t + n + 1 \in Nat
        BY NumbersType
      <4> HIDE DEF s
      <4>2. s = Append(Numbers(t, n), t + n + 1)
        BY DEF s
      <4> QED BY <2>1, <4>1, <4>2, AppendProperties
    <3> QED BY <2>1, <3>1 DEF Numbers
  <2>2. CASE i # n + 1
    <3>1. i \in 1..n
      BY <2>2
    <3>2. s[i] = Numbers(t, n)[i]
      BY <3>1, NumbersType, AppendProperties
    <3> QED BY <3>1, <3>2 DEF Numbers
  <2> QED BY <2>1, <2>2
<1> HIDE DEF s
<1>4. s = Numbers(t, n + 1)
  BY <1>1, <1>2, <1>3, SeqEqual
<1> QED BY <1>4 DEF s

LEMMA NumbersTail ==
  ASSUME NEW t \in Nat, NEW n \in Nat \ {0}
  PROVE  /\ Numbers(t, n) # <<>> /\ Head(Numbers(t, n)) = t + 1
         /\ Tail(Numbers(t, n)) = Numbers(t + 1, n - 1)
<1> DEFINE s == Numbers(t, n)
<1>1. s \in Seq(Nat) /\ Len(s) = n /\ s # <<>>
  BY NumbersType
<1>2. Head(s) = t + 1
  BY <1>1, HeadTailProperties DEF Numbers
<1>3. Tail(s) \in Seq(Nat) /\ Len(Tail(s)) = n - 1
  BY <1>1, HeadTailProperties
<1>4. Numbers(t + 1, n - 1) \in Seq(Nat) /\ Len(Numbers(t + 1, n - 1)) = n - 1
  BY NumbersType
<1>5. ASSUME NEW i \in 1..n - 1 PROVE Tail(s)[i] = Numbers(t + 1, n - 1)[i]
  <2>1. Tail(s)[i] = s[i + 1]
    BY <1>1, HeadTailProperties
  <2> QED BY <2>1 DEF Numbers
<1>6. Tail(s) = Numbers(t + 1, n - 1)
  <2> HIDE DEF s
  <2> QED BY <1>3, <1>4, <1>5, SeqEqual
<1> QED BY <1>1, <1>2, <1>6

------------------------------------------------------------------------------
(* The state as the abstract queue sees it.                                *)

View ==
  /\ Sent \in Nat /\ Taken \in Nat /\ Taken <= Sent /\ Sent - Taken < Capacity
  /\ Contents = Numbers(Taken, Sent - Taken)
  /\ received = Numbers(0, Taken)

LEMMA IInvView == IInv => View
<1> SUFFICES ASSUME IInv PROVE View
  OBVIOUS
<1>1. /\ Sent \in Nat /\ Taken \in Nat /\ Taken <= Sent /\ Sent - Taken < Capacity
      /\ CurrentTail = Wrap(Sent) /\ CurrentHead = Wrap(Taken)
  <2>1. Claimed \in {0, 1} /\ Claiming \in {0, 1}
    BY Counters
  <2> QED BY <2>1, Counters, CapacityType
<1>2. Wrap(CurrentTail - CurrentHead) = Sent - Taken
  BY <1>1, WrapDistance
<1>3. ASSUME NEW i \in 1..(Sent - Taken)
      PROVE  buffer_[Wrap(CurrentHead + i - 1)] = Taken + i
  <2>1. CurrentHead + i - 1 = Wrap(Taken) + (i - 1) /\ i - 1 \in Int
    <3>1. Wrap(Taken) \in Int
      BY <1>1, WrapType, CapacityType DEF Slots
    <3> QED BY <1>1, <3>1
  <2>2. Wrap(CurrentHead + i - 1) = Wrap(Taken + (i - 1))
    BY <1>1, <2>1, WrapAdd
  <2>3. pclock \in Nat /\ pclock >= Sent
    BY <1>1, NumberTypes DEF IInv, ClockInv
  <2>4. Taken + (i - 1) \in Taken..pclock - 1
    BY <1>1, <2>3
  <2>5. buffer_[Wrap(Taken + (i - 1))] = Taken + (i - 1) + 1
    BY <2>4 DEF IInv, ContentInv
  <2> QED BY <1>1, <2>2, <2>5
<1>4. Contents = Numbers(Taken, Sent - Taken)
  BY <1>2, <1>3 DEF Contents, Numbers
<1>5. received = Numbers(0, Taken)
  <2>1. received \in Seq(Nat) /\ Len(received) = Taken
    BY DEF IInv, TypeOK, ContentInv
  <2>2. Numbers(0, Taken) \in Seq(Nat) /\ Len(Numbers(0, Taken)) = Taken
    BY <1>1, NumbersType
  <2>3. ASSUME NEW i \in 1..Taken PROVE received[i] = Numbers(0, Taken)[i]
    BY <2>1 DEF IInv, ContentInv, Numbers
  <2> QED BY <2>1, <2>2, <2>3, SeqEqual
<1> QED BY <1>1, <1>4, <1>5 DEF View

\* A batch never goes past the end of the stream.
StreamInv ==
  IF ppc = "idle" THEN pushed = 0 ELSE pushed < quota /\ accepted + quota <= MaxItems

LEMMA StreamStep == IInv /\ StreamInv /\ [Next]_vars => StreamInv'
<1> SUFFICES ASSUME IInv, StreamInv, [Next]_vars PROVE StreamInv'
  OBVIOUS
<1> USE DEF StreamInv
<1>0. pushed \in Nat /\ quota \in Nat /\ accepted \in Nat
  BY NumberTypes
<1>1. ASSUME NEW count \in 1..BatchSize, PushCall(count) PROVE StreamInv'
  BY <1>1, <1>0, StreamAssumption DEF PushCall
<1>2. CASE PushCheck
  BY <1>2 DEF PushCheck
<1>3. ASSUME NEW k \in 1..Len(head_), PushLoadHead(k) PROVE StreamInv'
  BY <1>3 DEF PushLoadHead, Return
<1>4. CASE PushWrite
  BY <1>4 DEF PushWrite
<1>5. CASE PushPublish
  BY <1>5, <1>0 DEF PushPublish, Return
<1>6. ASSUME NEW k \in 1..Len(head_), ProducerSize(k) PROVE StreamInv'
  BY <1>6 DEF ProducerSize
<1>7. CASE Consumer
  BY <1>7 DEF Consumer, PopCall, PopLoadTail, PopRead, PopPublish, ConsumerSize,
              producerVars
<1>8. CASE UNCHANGED vars
  BY <1>8 DEF vars, producerVars
<1> QED BY <1>1, <1>2, <1>3, <1>4, <1>5, <1>6, <1>7, <1>8 DEF Next, Producer

\* A step stores an index or leaves both alone.
LEMMA CounterStep ==
  IInv /\ StreamInv /\ [Next]_vars =>
    \/ Sent' = Sent /\ Taken' = Taken
    \/ Sent' = Sent + 1 /\ Taken' = Taken /\ Sent + 1 <= MaxItems
    \/ Sent' = Sent /\ Taken' = Taken + 1
<1> SUFFICES ASSUME IInv, StreamInv, [Next]_vars
             PROVE  \/ Sent' = Sent /\ Taken' = Taken
                    \/ Sent' = Sent + 1 /\ Taken' = Taken /\ Sent + 1 <= MaxItems
                    \/ Sent' = Sent /\ Taken' = Taken + 1
  OBVIOUS
<1>1. CASE PushPublish
  <2>1. tail_ \in Seq(Store)
    BY DEF IInv, TypeOK
  <2>2. Len(tail_') = Len(tail_) + 1 /\ head_' = head_
    BY <1>1, <2>1 DEF PushPublish, consumerVars
  <2>3. pushed \in Nat /\ quota \in Nat /\ accepted \in Nat /\ Sent = accepted + pushed
    BY NumberTypes DEF IInv, ContentInv
  <2>4. Sent + 1 <= MaxItems
    BY <1>1, <2>3, StreamAssumption DEF StreamInv, PushPublish
  <2> QED BY <2>1, <2>2, <2>4 DEF Sent, Taken
<1>2. CASE PopPublish
  <2>1. head_ \in Seq(Store)
    BY DEF IInv, TypeOK
  <2>2. Len(head_') = Len(head_) + 1 /\ tail_' = tail_
    BY <1>2, <2>1 DEF PopPublish, producerVars
  <2> QED BY <2>1, <2>2 DEF Sent, Taken
<1>3. CASE ~PushPublish /\ ~PopPublish
  <2>1. tail_' = tail_ /\ head_' = head_
    <3>1. CASE Producer
      BY <1>3, <3>1 DEF Producer, PushCall, PushCheck, PushLoadHead, PushWrite,
                        ProducerSize, consumerVars
    <3>2. CASE Consumer
      BY <1>3, <3>2 DEF Consumer, PopCall, PopLoadTail, PopRead, ConsumerSize,
                        producerVars
    <3>3. CASE UNCHANGED vars
      BY <3>3 DEF vars, producerVars, consumerVars
    <3> QED BY <3>1, <3>2, <3>3 DEF Next
  <2> QED BY <2>1 DEF Sent, Taken
<1> QED BY <1>1, <1>2, <1>3

------------------------------------------------------------------------------
LEMMA InitMaps == Init => FIFO!Init /\ StreamInv
<1> SUFFICES ASSUME Init PROVE FIFO!Init /\ StreamInv
  OBVIOUS
<1>1. View
  BY InitIInv, IInvView
<1>2. Sent = 0 /\ Taken = 0
  BY DEF Init, Sent, Taken
<1>3. Numbers(0, 0) = <<>>
  <2>1. Numbers(0, 0) \in Seq(Nat) /\ Len(Numbers(0, 0)) = 0
    BY NumbersType
  <2> QED BY <2>1
<1>4. Contents = <<>> /\ received = <<>>
  BY <1>1, <1>2, <1>3 DEF View
<1> QED BY <1>4 DEF FIFO!Init, Init, StreamInv

LEMMA StepMaps ==
  IInv /\ StreamInv /\ View /\ View' /\ [Next]_vars => [FIFO!Next]_(FIFO!vars)
<1> SUFFICES ASSUME IInv, StreamInv, View, View', [Next]_vars
             PROVE  [FIFO!Next]_(FIFO!vars)
  OBVIOUS
<1> DEFINE n == Sent - Taken
<1>1. /\ Sent \in Nat /\ Taken \in Nat /\ n \in Nat /\ n < Capacity
      /\ Contents = Numbers(Taken, n) /\ received = Numbers(0, Taken)
  BY DEF View
<1>2. /\ Sent' \in Nat /\ Taken' \in Nat /\ Taken' <= Sent' /\ Sent' - Taken' < Capacity
      /\ Contents' = Numbers(Taken', Sent' - Taken') /\ received' = Numbers(0, Taken')
  BY DEF View, Numbers
<1>3. Len(Contents) = n /\ Len(received) = Taken
  BY <1>1, NumbersType
<1>4. CASE Sent' = Sent /\ Taken' = Taken
  BY <1>1, <1>2, <1>4 DEF FIFO!vars
<1>5. CASE Sent' = Sent + 1 /\ Taken' = Taken /\ Sent + 1 <= MaxItems
  <2>1. n < Capacity - 1 /\ FIFO!NextItem = Taken + n + 1 /\ Taken + n + 1 <= MaxItems
    BY <1>1, <1>2, <1>3, <1>5, CapacityType DEF FIFO!NextItem
  <2>2. Contents' = Append(Contents, Taken + n + 1)
    <3>1. Sent' - Taken' = n + 1
      BY <1>1, <1>5
    <3> QED BY <1>1, <1>2, <1>5, <3>1, NumbersAppend
  <2>3. FIFO!Enqueue
    BY <1>1, <1>2, <1>3, <1>5, <2>1, <2>2 DEF FIFO!Enqueue
  <2> QED BY <2>3 DEF FIFO!Next
<1>6. CASE Sent' = Sent /\ Taken' = Taken + 1
  <2>1. n \in Nat \ {0} /\ Sent' - Taken' = n - 1
    BY <1>1, <1>2, <1>6
  <2>2. Contents # <<>> /\ Head(Contents) = Taken + 1 /\ Contents' = Tail(Contents)
    <3>1. Contents' = Numbers(Taken + 1, n - 1)
      BY <1>2, <1>6, <2>1
    <3> QED BY <1>1, <2>1, <3>1, NumbersTail
  <2>3. received' = Append(received, Taken + 1)
    <3>1. Append(Numbers(0, Taken), 0 + Taken + 1) = Numbers(0, Taken + 1)
      BY <1>1, NumbersAppend
    <3>2. 0 + Taken + 1 = Taken + 1
      BY <1>1
    <3> QED BY <1>1, <1>2, <1>6, <3>1, <3>2
  <2>4. FIFO!Dequeue
    BY <2>2, <2>3 DEF FIFO!Dequeue
  <2> QED BY <2>4 DEF FIFO!Next
<1> QED BY <1>4, <1>5, <1>6, CounterStep

\* The ring is a bounded queue: every step of either thread, at whatever age of the
\* other's index it works, is a push or a pop of the abstract queue or invisible to
\* it (spsc_queue.hpp:47-82).
THEOREM Implementation == Spec => ImplementsFIFO
<1>1. Spec => []IInv
  BY Invariant
<1>2. IInv => View
  BY IInvView
<1>3. Spec => []StreamInv
  BY InitMaps, StreamStep, <1>1, PTL DEF Spec
<1> QED BY <1>1, <1>2, <1>3, InitMaps, StepMaps, PTL DEF Spec, ImplementsFIFO, FIFO!Spec
==============================================================================

--------------------------- MODULE SpscRingProofs ---------------------------
(***************************************************************************)
(* Proofs about SpscRing for every capacity, every set of entries and      *)
(* every bound on the number of pushes.  The ring is correct for one       *)
(* producer; the theorems that need this say so in their hypothesis.       *)
(* The second half proves WalRecovery, the log of the same header, through *)
(* WalComponent: for every batch size, ring, set of threads, number of     *)
(* sessions and combination of faults.                                     *)
(***************************************************************************)
EXTENDS SpscRing, WalComponent, FiniteSetTheorems, SequenceTheorems, WellFoundedInduction, TLAPS

\* At most one thread calls push, which is what the class is written for.
SingleProducer == \A p, q \in Producers : p = q

\* Advancing an index wraps exactly at the capacity.
LEMMA NextIndexValue ==
  ASSUME NEW i \in Index
  PROVE  NextIndex(i) = IF i + 1 = Capacity THEN 0 ELSE i + 1
  BY CapacityAssumption DEF Index, NextIndex

\* Advancing an index stays inside the buffer.
LEMMA NextIndexType ==
  ASSUME NEW i \in Index
  PROVE  NextIndex(i) \in Index
  BY CapacityAssumption, NextIndexValue DEF Index

\* Every step of push, pop, shutdown and visibility keeps the variables in their types.
LEMMA TypeInductive ==
  TypeOK /\ [Next]_vars => TypeOK'
  <1> SUFFICES ASSUME TypeOK, [Next]_vars
               PROVE  TypeOK'
    OBVIOUS
  <1> USE CapacityAssumption DEF TypeOK
  <1>1. ASSUME NEW p \in Producers, PushLoadHead(p)
        PROVE  TypeOK'
    BY <1>1 DEF PushLoadHead, ProducerState, Entries
  <1>2. ASSUME NEW p \in Producers, PushFull(p)
        PROVE  TypeOK'
    BY <1>2 DEF PushFull, ProducerState
  <1>3. ASSUME NEW p \in Producers, PushRoom(p)
        PROVE  TypeOK'
    BY <1>3 DEF PushRoom, ProducerState
  <1>4. ASSUME NEW p \in Producers, PushWrite(p)
        PROVE  TypeOK'
    BY <1>4 DEF PushWrite, ProducerState
  <1>5. ASSUME NEW p \in Producers, PushPublish(p)
        PROVE  TypeOK'
    <2>1. prod[p].head \in Index /\ prod[p].entry \in Entries
      BY DEF ProducerState
    <2>2. head' \in Index /\ sent' \in Seq(Entries)
      BY <1>5, <2>1, NextIndexType DEF PushPublish
    <2>3. prod' \in [Producers -> ProducerState]
      BY <1>5 DEF PushPublish, ProducerState
    <2> QED
      BY <1>5, <2>2, <2>3 DEF PushPublish
  <1>6. CASE PopCheck
    BY <1>6 DEF PopCheck, ConsumerState
  <1>7. CASE PopRead
    BY <1>7 DEF PopRead, ConsumerState
  <1>8. CASE PopCommit
    <2>1. cons' \in ConsumerState /\ rcvd' \in Seq(Entries)
      BY <1>8 DEF PopCommit, ConsumerState
    <2> QED
      BY <1>8, <2>1, NextIndexType DEF PopCommit
  <1>9. CASE Shutdown
    BY <1>9 DEF Shutdown
  <1>10. CASE TailVisible
    BY <1>10 DEF TailVisible
  <1>11. CASE HeadVisible
    BY <1>11 DEF HeadVisible
  <1>12. CASE UNCHANGED vars
    BY <1>12 DEF vars
  <1> QED
    BY <1>1, <1>2, <1>3, <1>4, <1>5, <1>6, <1>7, <1>8, <1>9, <1>10, <1>11, <1>12
       DEF Next, Consume

(***************************************************************************)
(* The indices stay inside buffer_, the locals and histories keep their    *)
(* types, for any number of producers.                                     *)
(***************************************************************************)
THEOREM TypeCorrect == Spec => []TypeOK
  <1>1. Init => TypeOK
    BY CapacityAssumption DEF Init, TypeOK, Index, Entries, ProducerState, ConsumerState
  <1> QED
    BY <1>1, TypeInductive, PTL DEF Spec

---------------------------------------------------------------------------
\* Facts about distances around the ring

\* Distances lie between 0 and the capacity, and only equal indices are at distance 0.
LEMMA DistRange ==
  ASSUME NEW a \in Index, NEW b \in Index
  PROVE  /\ Dist(a, b) \in Nat /\ Dist(a, b) <= Capacity - 1
         /\ Dist(a, b) = 0 <=> a = b
  BY CapacityAssumption DEF Index, Dist

\* Moving the far end forward lengthens a distance that has not reached its maximum.
LEMMA DistGrows ==
  ASSUME NEW a \in Index, NEW b \in Index, Dist(a, b) < Capacity - 1
  PROVE  Dist(a, NextIndex(b)) = Dist(a, b) + 1
  BY CapacityAssumption, NextIndexValue DEF Index, Dist

\* Moving the near end forward shortens a distance that is not 0.
LEMMA DistShrinks ==
  ASSUME NEW a \in Index, NEW b \in Index, a # b
  PROVE  Dist(NextIndex(a), b) = Dist(a, b) - 1
  BY CapacityAssumption, NextIndexValue DEF Index, Dist

\* push's test for a full ring is the test for the largest distance.
LEMMA FullIsMaxDist ==
  ASSUME NEW a \in Index, NEW b \in Index
  PROVE  NextIndex(b) = a <=> Dist(a, b) = Capacity - 1
  BY CapacityAssumption, NextIndexValue DEF Index, Dist

\* Distances over a chain of indices add up as long as the sum fits in the ring.
LEMMA DistAdds ==
  ASSUME NEW a \in Index, NEW b \in Index, NEW c \in Index,
         Dist(a, b) + Dist(b, c) < Capacity
  PROVE  Dist(a, c) = Dist(a, b) + Dist(b, c)
  BY CapacityAssumption DEF Index, Dist

\* The slot at distance Dist(a, b) from a is b, and the slots before it differ from b.
LEMMA SlotAtDist ==
  ASSUME NEW a \in Index, NEW b \in Index
  PROVE  /\ SlotAt(a, Dist(a, b)) = b
         /\ \A k \in 0 .. Dist(a, b) - 1 : SlotAt(a, k) \in Index /\ SlotAt(a, k) # b
  BY CapacityAssumption DEF Index, Dist, SlotAt

\* Counting slots from the next index skips one.
LEMMA SlotAtNext ==
  ASSUME NEW a \in Index, NEW k \in 0 .. Capacity - 2
  PROVE  SlotAt(NextIndex(a), k) = SlotAt(a, k + 1)
  BY CapacityAssumption, NextIndexValue DEF Index, SlotAt

---------------------------------------------------------------------------
\* The invariant of the ring

\* Every step with a single producer preserves RingInv.
LEMMA RingInductive ==
  ASSUME SingleProducer, TypeOK, RingInv, [Next]_vars
  PROVE  RingInv'
  <1> USE DEF RingInv
  <1>t. TypeOK'
    BY TypeInductive
  <1>d. /\ Dist(tailView, head) = Dist(tailView, tail) + Dist(tail, head)
        /\ Dist(tail, head) = Dist(tail, headView) + Dist(headView, head)
        /\ Dist(tailView, tail) \in Nat /\ Dist(tail, head) \in Nat
        /\ Dist(tail, headView) \in Nat /\ Dist(headView, head) \in Nat
    <2>1. /\ Dist(tailView, tail) \in Nat /\ Dist(tail, headView) \in Nat
          /\ Dist(headView, head) \in Nat /\ Capacity \in Nat
      BY DistRange, CapacityAssumption DEF TypeOK
    <2>2. Dist(tail, head) = Dist(tail, headView) + Dist(headView, head)
      BY <2>1, DistAdds DEF TypeOK, IndicesInOrder
    <2>3. Dist(tailView, head) = Dist(tailView, tail) + Dist(tail, head)
      BY <2>1, <2>2, DistAdds DEF TypeOK, IndicesInOrder
    <2> QED
      BY <2>1, <2>2, <2>3
  <1>n. /\ Len(sent) \in Nat /\ Len(rcvd) \in Nat
        /\ Len(sent) = Len(rcvd) + Dist(tail, head)
    BY DEF SlotsHoldWaiting, TypeOK
  <1>1. ASSUME NEW p \in Producers, PushLoadHead(p)
        PROVE  RingInv'
    <2>1. ProducerHasSlot'
      BY <1>1, SingleProducer DEF PushLoadHead, ProducerHasSlot, SingleProducer, TypeOK, ProducerState
    <2> QED
      BY <1>1, <2>1 DEF PushLoadHead, IndicesInOrder, SlotsHoldWaiting, ConsumerHasEntry, FifoDelivery
  <1>2. ASSUME NEW p \in Producers, PushFull(p)
        PROVE  RingInv'
    <2>1. ProducerHasSlot'
      BY <1>2 DEF PushFull, ProducerHasSlot, TypeOK, ProducerState
    <2> QED
      BY <1>2, <2>1 DEF PushFull, IndicesInOrder, SlotsHoldWaiting, ConsumerHasEntry, FifoDelivery
  <1>3. ASSUME NEW p \in Producers, PushRoom(p)
        PROVE  RingInv'
    <2>1. Dist(tailView, head) < Capacity - 1
      <3>1. NextIndex(head) # tailView
        BY <1>3 DEF PushRoom, Full, ProducerHasSlot
      <3>2. Dist(tailView, head) # Capacity - 1
        BY <3>1, FullIsMaxDist DEF TypeOK
      <3> QED
        BY <3>2, DistRange, CapacityAssumption DEF TypeOK
    <2>2. ProducerHasSlot'
      BY <1>3, <2>1 DEF PushRoom, ProducerHasSlot, TypeOK, ProducerState
    <2> QED
      BY <1>3, <2>2 DEF PushRoom, IndicesInOrder, SlotsHoldWaiting, ConsumerHasEntry, FifoDelivery
  <1>4. ASSUME NEW p \in Producers, PushWrite(p)
        PROVE  RingInv'
    <2>1. prod[p].head = head /\ buffer' = [buffer EXCEPT ![head] = prod[p].entry]
      BY <1>4 DEF PushWrite, ProducerHasSlot
    <2>2. ProducerHasSlot'
      BY <1>4, <2>1, SingleProducer
         DEF PushWrite, ProducerHasSlot, SingleProducer, TypeOK, ProducerState
    <2>3. SlotsHoldWaiting'
      <3>1. \A k \in 0 .. Dist(tail, head) - 1 : buffer'[SlotAt(tail, k)] = buffer[SlotAt(tail, k)]
        BY <2>1, SlotAtDist DEF TypeOK
      <3> QED
        BY <1>4, <3>1 DEF PushWrite, SlotsHoldWaiting
    <2>4. ConsumerHasEntry'
      <3>1. cons.pc # "idle" => tail # head
        BY <1>d, DistRange DEF ConsumerHasEntry, TypeOK
      <3> QED
        BY <1>4, <2>1, <3>1 DEF PushWrite, ConsumerHasEntry, TypeOK
    <2> QED
      BY <1>4, <2>2, <2>3, <2>4 DEF PushWrite, IndicesInOrder, FifoDelivery
  <1>5. ASSUME NEW p \in Producers, PushPublish(p)
        PROVE  RingInv'
    <2>1. /\ prod[p].head = head /\ buffer[head] = prod[p].entry
          /\ Dist(tailView, head) < Capacity - 1
          /\ head' = NextIndex(head) /\ sent' = Append(sent, prod[p].entry)
      BY <1>5 DEF PushPublish, ProducerHasSlot
    <2>2. /\ Dist(tail, head) < Capacity - 1 /\ Dist(headView, head) < Capacity - 1
          /\ Dist(tail, head') = Dist(tail, head) + 1
          /\ Dist(headView, head') = Dist(headView, head) + 1
      BY <1>d, <2>1, DistGrows, CapacityAssumption DEF TypeOK
    <2>3. IndicesInOrder'
      BY <1>5, <1>d, <2>1, <2>2, CapacityAssumption DEF PushPublish, IndicesInOrder
    <2>4. Len(sent') = Len(sent) + 1 /\ sent'[Len(sent) + 1] = buffer[head]
          /\ \A i \in 1 .. Len(sent) : sent'[i] = sent[i]
      BY <2>1 DEF TypeOK, ProducerState
    <2>5. SlotsHoldWaiting'
      <3>1. SlotAt(tail, Dist(tail, head)) = head
        BY SlotAtDist DEF TypeOK
      <3>2. ASSUME NEW k \in 0 .. Dist(tail, head)
            PROVE  buffer[SlotAt(tail, k)] = sent'[Len(rcvd) + k + 1]
        <4>1. CASE k = Dist(tail, head)
          BY <1>n, <2>4, <3>1, <4>1
        <4>2. CASE k # Dist(tail, head)
          <5>1. k \in 0 .. Dist(tail, head) - 1 /\ Len(rcvd) + k + 1 \in 1 .. Len(sent)
            BY <1>d, <1>n, <4>2
          <5> QED
            BY <2>4, <5>1 DEF SlotsHoldWaiting
        <4> QED
          BY <4>1, <4>2
      <3>3. Len(sent') = Len(rcvd') + Dist(tail', head')
        BY <1>5, <1>d, <1>n, <2>2, <2>4 DEF PushPublish
      <3>4. 0 .. Dist(tail', head') - 1 = 0 .. Dist(tail, head)
        BY <1>5, <1>d, <2>2 DEF PushPublish
      <3> QED
        BY <1>5, <3>2, <3>3, <3>4 DEF PushPublish, SlotsHoldWaiting
    <2>6. ProducerHasSlot'
      BY <1>5, SingleProducer DEF PushPublish, ProducerHasSlot, SingleProducer, TypeOK, ProducerState
    <2>7. ConsumerHasEntry'
      BY <1>5 DEF PushPublish, ConsumerHasEntry
    <2>8. FifoDelivery'
      BY <1>5, <2>4 DEF PushPublish, FifoDelivery, TypeOK
    <2> QED
      BY <2>3, <2>5, <2>6, <2>7, <2>8
  <1>6. CASE PopCheck
    <2>1. ConsumerHasEntry'
      BY <1>6 DEF PopCheck, ConsumerHasEntry, TypeOK, ConsumerState
    <2> QED
      BY <1>6, <2>1 DEF PopCheck, IndicesInOrder, SlotsHoldWaiting, ProducerHasSlot, FifoDelivery
  <1>7. CASE PopRead
    <2>1. ConsumerHasEntry'
      BY <1>7 DEF PopRead, ConsumerHasEntry
    <2> QED
      BY <1>7, <2>1 DEF PopRead, IndicesInOrder, SlotsHoldWaiting, ProducerHasSlot, FifoDelivery
  <1>8. CASE PopCommit
    <2>1. /\ tail' = NextIndex(tail) /\ rcvd' = Append(rcvd, buffer[tail])
          /\ tail # headView /\ tail # head
      <3>1. tail # headView
        BY <1>8 DEF PopCommit, ConsumerHasEntry
      <3>2. Dist(tail, headView) # 0
        BY <3>1, DistRange DEF TypeOK
      <3>3. Dist(tail, head) # 0
        BY <1>d, <3>2
      <3> QED
        BY <1>8, <3>1, <3>3, DistRange DEF PopCommit, ConsumerHasEntry, TypeOK
    <2>2. /\ Dist(tail', headView) = Dist(tail, headView) - 1
          /\ Dist(tail', head) = Dist(tail, head) - 1
          /\ Dist(tailView, tail') = Dist(tailView, tail) + 1
          /\ Dist(tail, head) >= 1 /\ Dist(tail, headView) >= 1
      <3>1. Dist(tail', headView) = Dist(tail, headView) - 1 /\ Dist(tail', head) = Dist(tail, head) - 1
        BY <2>1, DistShrinks DEF TypeOK
      <3>2. Dist(tail, head) >= 1 /\ Dist(tail, headView) >= 1
        <4>1. Dist(tail, head) # 0 /\ Dist(tail, headView) # 0
          BY <2>1, DistRange DEF TypeOK
        <4> QED
          BY <1>d, <4>1
      <3>3. Dist(tailView, tail) < Capacity - 1
        BY <1>d, <3>2, CapacityAssumption DEF IndicesInOrder
      <3> QED
        BY <2>1, <3>1, <3>2, <3>3, DistGrows DEF TypeOK
    <2>3. IndicesInOrder'
      BY <1>8, <1>d, <2>2, CapacityAssumption DEF PopCommit, IndicesInOrder
    <2>4. /\ Len(rcvd') = Len(rcvd) + 1 /\ rcvd'[Len(rcvd) + 1] = buffer[tail]
          /\ \A i \in 1 .. Len(rcvd) : rcvd'[i] = rcvd[i]
      BY <2>1, CapacityAssumption DEF TypeOK, Index
    <2>5. buffer[tail] = sent[Len(rcvd) + 1]
      <3>1. SlotAt(tail, 0) = tail
        BY CapacityAssumption DEF SlotAt, TypeOK, Index
      <3>2. 0 \in 0 .. Dist(tail, head) - 1
        BY <1>d, <2>2
      <3>3. buffer[SlotAt(tail, 0)] = sent[Len(rcvd) + 0 + 1]
        BY <3>2 DEF SlotsHoldWaiting
      <3> QED
        BY <1>n, <3>1, <3>3
    <2>6. SlotsHoldWaiting'
      <3>1. ASSUME NEW k \in 0 .. Dist(tail, head) - 2
            PROVE  buffer[SlotAt(tail', k)] = sent[Len(rcvd') + k + 1]
        <4>1. SlotAt(tail', k) = SlotAt(tail, k + 1)
          <5>1. Dist(tail, head) <= Capacity - 1
            BY DistRange DEF TypeOK
          <5>2. k \in 0 .. Capacity - 2
            BY <1>d, <5>1, CapacityAssumption
          <5> QED
            BY <2>1, <5>2, SlotAtNext DEF TypeOK
        <4>2. k + 1 \in 0 .. Dist(tail, head) - 1
          BY <1>d
        <4>3. buffer[SlotAt(tail, k + 1)] = sent[Len(rcvd) + (k + 1) + 1]
          BY <4>2 DEF SlotsHoldWaiting
        <4>4. Len(rcvd) + (k + 1) + 1 = Len(rcvd') + k + 1
          BY <1>n, <2>4
        <4> QED
          BY <4>1, <4>3, <4>4
      <3>2. Len(sent') = Len(rcvd') + Dist(tail', head')
        BY <1>8, <1>d, <1>n, <2>2, <2>4 DEF PopCommit
      <3>3. 0 .. Dist(tail', head') - 1 = 0 .. Dist(tail, head) - 2
        BY <1>8, <1>d, <2>2 DEF PopCommit
      <3> QED
        BY <1>8, <3>1, <3>2, <3>3 DEF PopCommit, SlotsHoldWaiting
    <2>7. ProducerHasSlot'
      BY <1>8 DEF PopCommit, ProducerHasSlot
    <2>8. ConsumerHasEntry'
      BY <1>8 DEF PopCommit, ConsumerHasEntry, TypeOK, ConsumerState
    <2>9. FifoDelivery'
      BY <1>8, <1>d, <1>n, <2>2, <2>4, <2>5 DEF PopCommit, FifoDelivery
    <2> QED
      BY <2>3, <2>6, <2>7, <2>8, <2>9
  <1>9. CASE Shutdown
    BY <1>9 DEF Shutdown, IndicesInOrder, SlotsHoldWaiting, ProducerHasSlot, ConsumerHasEntry, FifoDelivery
  <1>10. CASE TailVisible
    <2>1. Dist(tail, tail) = 0
      BY DistRange DEF TypeOK
    <2>2. IndicesInOrder'
      BY <1>10, <1>d, <2>1, CapacityAssumption DEF TailVisible, IndicesInOrder
    <2>3. ProducerHasSlot'
      BY <1>10, <1>d, CapacityAssumption DEF TailVisible, ProducerHasSlot
    <2> QED
      BY <1>10, <2>2, <2>3 DEF TailVisible, SlotsHoldWaiting, ConsumerHasEntry, FifoDelivery
  <1>11. CASE HeadVisible
    <2>1. Dist(head, head) = 0
      BY DistRange DEF TypeOK
    <2>2. IndicesInOrder'
      BY <1>11, <1>d, <2>1, CapacityAssumption DEF HeadVisible, IndicesInOrder
    <2>3. ConsumerHasEntry'
      BY <1>11, <1>d, DistRange DEF HeadVisible, ConsumerHasEntry, TypeOK
    <2> QED
      BY <1>11, <2>2, <2>3 DEF HeadVisible, SlotsHoldWaiting, ProducerHasSlot, FifoDelivery
  <1>12. CASE UNCHANGED vars
    BY <1>12 DEF vars, IndicesInOrder, SlotsHoldWaiting, ProducerHasSlot, ConsumerHasEntry, FifoDelivery
  <1> QED
    BY <1>1, <1>2, <1>3, <1>4, <1>5, <1>6, <1>7, <1>8, <1>9, <1>10, <1>11, <1>12
       DEF Next, Consume

(***************************************************************************)
(* With a single producer the ring's indices, slots and the threads inside *)
(* push and pop are always as RingInv says, whatever old values of the     *)
(* other side's index the acquire loads return.                            *)
(***************************************************************************)
THEOREM RingCorrect ==
  ASSUME SingleProducer
  PROVE  Spec => []RingInv
  <1>1. Init => RingInv
    BY CapacityAssumption
       DEF Init, RingInv, IndicesInOrder, SlotsHoldWaiting, ProducerHasSlot, ConsumerHasEntry,
           FifoDelivery, Dist, Index
  <1>2. TypeOK /\ RingInv /\ [Next]_vars => RingInv'
    BY RingInductive
  <1> QED
    BY <1>1, <1>2, TypeCorrect, PTL DEF Spec

(***************************************************************************)
(* pop returns exactly what push accepted, in order: no entry is lost,     *)
(* repeated, reordered or overwritten (TelemetryRingBuffer::push and pop). *)
(***************************************************************************)
THEOREM FifoCorrect ==
  ASSUME SingleProducer
  PROVE  Spec => []FifoDelivery
  <1>1. RingInv => FifoDelivery
    BY DEF RingInv
  <1> QED
    BY <1>1, RingCorrect, PTL

(***************************************************************************)
(* The unsynchronised copy into buffer_ by push and out of it by pop never *)
(* touch the same slot at the same time.                                   *)
(***************************************************************************)
THEOREM SlotRaceFree ==
  ASSUME SingleProducer
  PROVE  Spec => []NoSlotRace
  <1>1. TypeOK /\ RingInv => NoSlotRace
    <2> SUFFICES ASSUME TypeOK, RingInv, NEW p \in Producers, prod[p].pc = "write"
                 PROVE  /\ cons.pc = "read" => prod[p].head # tail
                        /\ \A q \in Producers \ {p} :
                             prod[q].pc = "write" => prod[p].head # prod[q].head
      BY DEF NoSlotRace
    <2>1. prod[p].head = head
      BY DEF RingInv, ProducerHasSlot
    <2>2. ASSUME cons.pc = "read"
          PROVE  head # tail
      <3>1. /\ Dist(tail, headView) \in Nat /\ Dist(headView, head) \in Nat
            /\ Dist(tailView, tail) \in Nat /\ Dist(tail, headView) # 0
        BY <2>2, DistRange DEF RingInv, ConsumerHasEntry, TypeOK
      <3>2. Dist(tail, headView) + Dist(headView, head) < Capacity
        BY <3>1, CapacityAssumption DEF RingInv, IndicesInOrder
      <3>3. Dist(tail, head) = Dist(tail, headView) + Dist(headView, head)
        BY <3>2, DistAdds DEF TypeOK
      <3>4. Dist(tail, head) # 0
        BY <3>1, <3>3
      <3> QED
        BY <3>4, DistRange DEF TypeOK
    <2> QED
      BY <2>1, <2>2, SingleProducer DEF SingleProducer
  <1> QED
    BY <1>1, TypeCorrect, RingCorrect, PTL

---------------------------------------------------------------------------
\* Refinement

\* Every step of the ring is an Enqueue, a Dequeue or no step of the bounded channel.
LEMMA StepRefines ==
  ASSUME SingleProducer, TypeOK, RingInv, [Next]_vars
  PROVE  [Fifo!FifoNext]_(Fifo!fifoVars)
  <1>n. /\ Len(sent) \in Nat /\ Len(rcvd) \in Nat
        /\ Len(sent) = Len(rcvd) + Dist(tail, head)
        /\ Dist(tail, head) \in Nat /\ Dist(tail, head) <= Capacity - 1
    BY DistRange DEF RingInv, SlotsHoldWaiting, TypeOK
  <1>d. /\ Dist(tailView, tail) \in Nat /\ Dist(tail, headView) \in Nat
        /\ Dist(headView, head) \in Nat
        /\ Dist(tail, head) = Dist(tail, headView) + Dist(headView, head)
        /\ Dist(tailView, head) = Dist(tailView, tail) + Dist(tail, head)
    <2>1. /\ Dist(tailView, tail) \in Nat /\ Dist(tail, headView) \in Nat
          /\ Dist(headView, head) \in Nat /\ Capacity \in Nat
      BY DistRange, CapacityAssumption DEF TypeOK
    <2>2. Dist(tail, head) = Dist(tail, headView) + Dist(headView, head)
      BY <2>1, DistAdds DEF TypeOK, RingInv, IndicesInOrder
    <2>3. Dist(tailView, head) = Dist(tailView, tail) + Dist(tail, head)
      BY <2>1, <2>2, DistAdds DEF TypeOK, RingInv, IndicesInOrder
    <2> QED
      BY <2>1, <2>2, <2>3
  <1>1. ASSUME NEW p \in Producers, PushPublish(p)
        PROVE  Fifo!FifoNext
    <2>1. /\ prod[p].entry \in Values /\ Dist(tailView, head) < Capacity - 1
          /\ sent' = Append(sent, prod[p].entry) /\ UNCHANGED rcvd
      BY <1>1 DEF PushPublish, RingInv, ProducerHasSlot
    <2>2. Len(sent) - Len(rcvd) < Capacity - 1
      BY <1>n, <1>d, <2>1, CapacityAssumption
    <2>3. Fifo!Enqueue(prod[p].entry)
      BY <2>1, <2>2 DEF Fifo!Enqueue
    <2> QED
      BY <2>1, <2>3 DEF Fifo!FifoNext
  <1>2. ASSUME PopCommit
        PROVE  Fifo!FifoNext
    <2>1. tail # headView /\ rcvd' = Append(rcvd, buffer[tail]) /\ UNCHANGED sent
      BY <1>2 DEF PopCommit, RingInv, ConsumerHasEntry
    <2>2. Dist(tail, headView) # 0
      BY <2>1, DistRange DEF TypeOK
    <2>3. 0 \in 0 .. Dist(tail, head) - 1 /\ Len(rcvd) < Len(sent)
      BY <1>n, <1>d, <2>2
    <2>4. SlotAt(tail, 0) = tail
      BY CapacityAssumption DEF SlotAt, TypeOK, Index
    <2>5. buffer[SlotAt(tail, 0)] = sent[Len(rcvd) + 0 + 1]
      BY <2>3 DEF RingInv, SlotsHoldWaiting
    <2>6. Fifo!Dequeue
      BY <1>n, <2>1, <2>3, <2>4, <2>5 DEF Fifo!Dequeue
    <2> QED
      BY <2>6 DEF Fifo!FifoNext
  <1>3. ASSUME ~(\E p \in Producers : PushPublish(p)), ~PopCommit
        PROVE  UNCHANGED <<sent, rcvd>>
    BY <1>3 DEF Next, Consume, vars, PushLoadHead, PushFull, PushRoom, PushWrite, PopCheck,
                PopRead, Shutdown, TailVisible, HeadVisible
  <1> QED
    BY <1>1, <1>2, <1>3 DEF Fifo!fifoVars

(***************************************************************************)
(* With a single producer the lock-free ring implements the bounded        *)
(* first-in first-out channel with Capacity - 1 places.                    *)
(***************************************************************************)
THEOREM RingRefinesFifo ==
  ASSUME SingleProducer
  PROVE  Spec => ImplementsFifo
  <1>1. Init => Fifo!FifoInit
    BY DEF Init, Fifo!FifoInit
  <1>2. TypeOK /\ RingInv /\ [Next]_vars => [Fifo!FifoNext]_(Fifo!fifoVars)
    BY StepRefines
  <1> QED
    BY <1>1, <1>2, TypeCorrect, RingCorrect, PTL DEF Spec, ImplementsFifo, Fifo!FifoSpec

---------------------------------------------------------------------------
\* WalRecovery, the log that the same header writes beside the ring

Startup == {"replay", "truncate", "recoverSave", "recoverWrite"}
Exiting == {"exitSave", "exitWrite", "closing"}
Running == {"recoverSave", "recoverWrite", "up"} \cup Exiting

(***************************************************************************)
(* Before it records, and when it is gone, the process holds no entry; a   *)
(* writer or the buffer holds only numbers that were handed out.           *)
(***************************************************************************)
WalHistory ==
  /\ recovered \in [runs : Nat, count : Nat, events : SUBSET Wal!Records]
  /\ prev \in [exit : {"none", "clean", "crash"}, marked : BOOLEAN, left : Nat, carried : BOOLEAN]

NothingHeld == phase \in Startup \cup {"down"} => sequence = 0 /\ writeBuffer = << >>

HeldWereTaken ==
  /\ phase # "up" => \A t \in Threads : writer[t] = Wal!NoSeq
  /\ phase \notin Exiting => sequence <= MaxWrites
  /\ phase # "down" => session > 0
  /\ \A t \in Threads : writer[t] = Wal!NoSeq \/ (writer[t] < sequence /\ writer[t] < MaxWrites)
  /\ \A i \in DOMAIN writeBuffer :
       /\ writeBuffer[i] = Wal!Event(writeBuffer[i].seq)
       /\ writeBuffer[i].seq < sequence /\ writeBuffer[i].seq < MaxWrites

WalBasics == WalTypeOK /\ WalHistory /\ NothingHeld /\ HeldWereTaken

\* The metadata in memory and on disk count only recoveries that completed.
MetaInv ==
  /\ meta.torn = FALSE
  /\ meta.recoveries <= recovered.runs /\ meta.entries <= recovered.count
  /\ MetadataNeverOvercounts

\* Sessions tell what was recovered from what is recorded now.
RecoveryInv ==
  /\ RecoveredOnce
  /\ \A e \in recovered.events : e.session < session /\ e.type = "event"
  /\ \A i \in DOMAIN wal : wal[i].session <= session
  /\ phase \in Startup => \A i \in DOMAIN wal : wal[i].session < session
  /\ phase \in {"replay", "truncate"} =>
       \A i \in DOMAIN pending : pending[i].type = "event" => pending[i].session < session

\* Numbers handed out are in one place, the others in none.
PlacesInv ==
  /\ phase \in Startup => dropped = {}
  /\ phase = "up" => \A n \in 0 .. MaxWrites : Wal!PlacesOf(n) = IF n < sequence THEN 1 ELSE 0

(***************************************************************************)
(* A log that started empty holds only records of the running session, and *)
(* a marker in it is above every event, those still in the buffer too.     *)
(***************************************************************************)
OwnLog ==
  ~carried /\ phase \in Running => \A i \in DOMAIN wal :
    /\ wal[i].session = session /\ wal[i].type \in {"event", "marker"}
    /\ wal[i].type = "event" => wal[i].seq < sequence
    /\ wal[i].type = "marker" =>
         /\ phase \in Exiting /\ wal[i].seq = sequence - 1
         /\ \A j \in DOMAIN wal : wal[j].type = "event" => wal[j].seq < wal[i].seq
         /\ \A j \in DOMAIN writeBuffer : writeBuffer[j].seq < wal[i].seq

\* What such a log looks like when the process is gone.
MarkedLog(log) ==
  /\ \A i \in DOMAIN log : log[i].type \in {"event", "marker"}
  /\ \E i \in DOMAIN log : log[i].type = "event"
  /\ \E i \in DOMAIN log : log[i].type = "marker"
  /\ \A i, j \in DOMAIN log : log[i].type = "marker" =>
       IF log[j].type = "event" THEN log[j].seq < log[i].seq ELSE log[j].seq = log[i].seq

UnmarkedLog(log) ==
  /\ \A i \in DOMAIN log : log[i].type = "event" \/ (log[i].type = "torn" /\ i = Len(log))
  /\ \E i \in DOMAIN log : log[i].type = "event"

LeftLog ==
  phase = "down" /\ prev.left > 0 /\ ~prev.carried =>
    /\ prev.exit = "clean" /\ prev.marked => MarkedLog(wal)
    /\ prev.exit = "crash" /\ ~prev.marked => UnmarkedLog(wal)

DetectionInv ==
  /\ phase \in {"replay", "truncate"} => carried
  /\ OwnLog /\ LeftLog /\ FreshLogDetection

\* A nonempty set of naturals has a least element, and a bounded one a greatest.
LEMMA LeastElement ==
  ASSUME NEW S \in SUBSET Nat, S # {}
  PROVE  Wal!Min(S) \in S /\ \A y \in S : Wal!Min(S) <= y
<1>1. PICK x \in S : \A y \in S : ~(<<y, x>> \in OpToRel(<, Nat))
  BY NatLessThanWellFounded, WFMin, Zenon
<1>2. ASSUME NEW y \in S PROVE x <= y
  <2>1. x \in Nat /\ y \in Nat /\ <<y, x>> \in Nat \X Nat
    OBVIOUS
  <2>2. y < x => <<y, x>> \in OpToRel(<, Nat)
    BY <2>1, Zenon DEF OpToRel
  <2>3. ~(y < x)
    BY <1>1, <2>2, Zenon
  <2> QED BY <2>1, <2>3
<1> QED BY <1>2 DEF Wal!Min

LEMMA GreatestElement ==
  ASSUME NEW S \in SUBSET Nat, S # {}, NEW N \in Nat, \A x \in S : x <= N
  PROVE  Wal!Max(S) \in S /\ \A y \in S : Wal!Max(S) >= y
<1> DEFINE T == {n \in Nat : \E x \in S : x + n = N}
<1>1. \A x \in S : N - x \in Nat /\ x + (N - x) = N
  OBVIOUS
<1>2. \A x \in S : N - x \in T
  BY <1>1
<1>3. T \in SUBSET Nat /\ T # {}
  BY <1>2
<1>4. PICK m \in T : \A y \in T : m <= y
  <2> HIDE DEF T
  <2> QED BY <1>3, LeastElement
<1>5. PICK x \in S : x + m = N
  BY <1>4
<1>6. ASSUME NEW y \in S PROVE x >= y
  <2>1. m <= N - y
    BY <1>2, <1>4
  <2> QED BY <1>4, <1>5, <2>1
<1> QED BY <1>6 DEF Wal!Max

\* The instance has a copy of FiniteSets of its own.
LEMMA WalCardinality == ASSUME NEW S PROVE Wal!Cardinality(S) = Cardinality(S)
BY Zenon DEF Wal!Cardinality, Cardinality

\* The values a function takes on a finite set.
LEMMA ValuesFinite ==
  ASSUME NEW S, IsFiniteSet(S), NEW f
  PROVE  /\ IsFiniteSet({f[x] : x \in S})
         /\ Cardinality({f[x] : x \in S}) <= Cardinality(S)
<1> DEFINE T == {f[x] : x \in S}
           g == [x \in S |-> f[x]]
<1>1. g \in Surjection(S, T)
  BY DEF Surjection
<1> HIDE DEF g
<1> QED BY <1>1, FS_Surjection

\* What read_wal returns: a beginning of the log, then possibly reads that straddle.
LEMMA ReadWalFacts ==
  ASSUME wal \in Seq(Wal!Records), NEW n \in Wal!ValidReads, NEW r \in Wal!Straddled
  PROVE  /\ Wal!ReadWal(n, r) \in Seq(Wal!Records)
         /\ Len(Wal!ReadWal(n, r)) <= Len(wal)
         /\ \A i \in DOMAIN Wal!ReadWal(n, r) :
              i \in DOMAIN wal /\ (Wal!ReadWal(n, r)[i] = wal[i] \/ Wal!ReadWal(n, r)[i] = r)
<1> DEFINE torn == Wal!TornAt
           m == Wal!Min(torn)
           log == [i \in 1 .. n |-> IF i < m THEN wal[i] ELSE r]
<1>1. DOMAIN wal = 1 .. Len(wal) /\ Len(wal) \in Nat /\ \A i \in DOMAIN wal : wal[i] \in Wal!Records
  OBVIOUS
<1>2. CASE torn = {}
  BY <1>1, <1>2 DEF Wal!ReadWal
<1>3. CASE torn # {}
  <2>1. m \in DOMAIN wal
    <3>1. torn \in SUBSET Nat /\ torn \subseteq DOMAIN wal
      BY <1>1 DEF Wal!TornAt
    <3> HIDE DEF torn
    <3> QED BY <1>3, <3>1, LeastElement
  <2>2. n \in Nat /\ n <= Len(wal)
    <3>1. n \in m - 1 .. Len(wal) - 1
      BY <1>3 DEF Wal!ValidReads
    <3> HIDE DEF m
    <3> QED BY <1>1, <2>1, <3>1
  <2>3. r \in Wal!Records
    BY BoundsAssumption DEF Wal!Straddled, Wal!Records
  <2>4. \A i \in 1 .. n : i \in DOMAIN wal /\ log[i] \in Wal!Records
                          /\ (log[i] = wal[i] \/ log[i] = r)
    BY <1>1, <2>2, <2>3
  <2>5. log \in [1 .. n -> Wal!Records]
    BY <2>4
  <2>6. Wal!ReadWal(n, r) = log
    BY <1>3 DEF Wal!ReadWal
  <2> HIDE DEF log
  <2>7. log \in Seq(Wal!Records) /\ Len(log) = n /\ DOMAIN log = 1 .. n
    BY <2>2, <2>5
  <2> QED BY <2>2, <2>4, <2>6, <2>7
<1> QED BY <1>2, <1>3

\* A log holds finitely many different records.
LEMMA RecordsFinite ==
  ASSUME NEW log \in Seq(Wal!Records), NEW s, NEW type
  PROVE  /\ IsFiniteSet(Wal!RecordsOf(log, s, type))
         /\ Wal!Cardinality(Wal!RecordsOf(log, s, type)) \in Nat
<1>1. DOMAIN log = 1 .. Len(log) /\ Len(log) \in Nat
  OBVIOUS
<1>2. IsFiniteSet(1 .. Len(log))
  BY <1>1, FS_Interval
<1>3. IsFiniteSet({log[i] : i \in 1 .. Len(log)})
  BY <1>2, ValuesFinite
<1>4. Wal!RecordsOf(log, s, type) \subseteq {log[i] : i \in 1 .. Len(log)}
  BY <1>1 DEF Wal!RecordsOf, Wal!ToSet
<1>5. IsFiniteSet(Wal!RecordsOf(log, s, type))
  BY <1>3, <1>4, FS_Subset
<1> QED BY <1>5, FS_CardinalityType, WalCardinality

\* What replay pushes can be counted.
LEMMA ReplayableCount ==
  ASSUME WalTypeOK
  PROVE  Wal!Cardinality(Wal!Replayable) \in Nat
<1>1. DOMAIN pending = 1 .. Len(pending) /\ Len(pending) \in Nat
  BY DEF WalTypeOK, Wal!TypeOK
<1>2. IsFiniteSet(1 .. Len(pending))
  BY <1>1, FS_Interval
<1>3. Wal!Replayable \subseteq 1 .. Len(pending)
  BY <1>1 DEF Wal!Replayable
<1> QED BY <1>2, <1>3, FS_Subset, FS_CardinalityType, WalCardinality

\* The process goes down from any state, with any log it may leave.
LEMMA GoDownBasics ==
  ASSUME WalBasics, NEW exit \in {"clean", "crash"}, Wal!GoDown(exit),
         wal' \in Seq(Wal!Records), writeBuffer' = << >>, dropped' \subseteq 0 .. MaxWrites
  PROVE  WalBasics'
<1>1. /\ phase' = "down" /\ sequence' = 0 /\ clean' = FALSE /\ ring' = 0 /\ pending' = << >>
      /\ meta' = Wal!Meta0 /\ writer' = [t \in Threads |-> Wal!NoSeq] /\ verdict' = FALSE
      /\ UNCHANGED <<metaFile, session, carried, recovered>>
  BY DEF Wal!GoDown
<1>2. Wal!Meta0 \in Wal!Metadata
  BY DEF Wal!Meta0, Wal!Metadata
<1>3. WalTypeOK'
  <2>1. carried' \in BOOLEAN /\ clean' \in BOOLEAN /\ verdict' \in BOOLEAN
    BY <1>1, Zenon DEF WalBasics, WalTypeOK, Wal!TypeOK
  <2> QED BY <1>1, <1>2, <2>1, BatchAssumption, RingPlacesAssumption, BoundsAssumption
         DEF WalBasics, WalTypeOK, Wal!TypeOK
<1>4. WalHistory'
  <2>1. prev' \in [exit : {"none", "clean", "crash"}, marked : BOOLEAN, left : Nat, carried : BOOLEAN]
    <3>1. Wal!Cardinality(Wal!RecordsOf(wal', session, "event")) \in Nat
      BY RecordsFinite
    <3>2. carried \in BOOLEAN /\ (Wal!RecordsOf(wal', session, "marker") # {}) \in BOOLEAN
      BY Zenon DEF WalBasics, WalTypeOK, Wal!TypeOK
    <3> DEFINE q == [exit |-> exit, marked |-> Wal!RecordsOf(wal', session, "marker") # {},
                     left |-> Wal!Cardinality(Wal!RecordsOf(wal', session, "event")),
                     carried |-> carried]
    <3>3. prev' = q
      BY DEF Wal!GoDown
    <3>4. q \in [exit : {"none", "clean", "crash"}, marked : BOOLEAN, left : Nat, carried : BOOLEAN]
      BY <3>1, <3>2, Zenon
    <3> QED BY <3>3, <3>4
  <2> QED BY <1>1, <2>1 DEF WalBasics, WalHistory
<1>5. NothingHeld'
  BY <1>1 DEF NothingHeld
<1>6. HeldWereTaken'
  BY <1>1, BoundsAssumption DEF HeldWereTaken
<1> QED BY <1>3, <1>4, <1>5, <1>6 DEF WalBasics

\* Concatenation, from both sides.
LEMMA ConcatFacts ==
  ASSUME NEW S, NEW r \in Seq(S), NEW u \in Seq(S)
  PROVE  /\ r \o u \in Seq(S) /\ Len(r \o u) = Len(r) + Len(u)
         /\ DOMAIN r = 1 .. Len(r) /\ DOMAIN u = 1 .. Len(u) /\ Len(r) \in Nat /\ Len(u) \in Nat
         /\ DOMAIN (r \o u) = 1 .. Len(r) + Len(u)
         /\ \A i \in DOMAIN r : i \in DOMAIN (r \o u) /\ (r \o u)[i] = r[i]
         /\ \A j \in DOMAIN u : Len(r) + j \in DOMAIN (r \o u) /\ (r \o u)[Len(r) + j] = u[j]
         /\ \A i \in DOMAIN (r \o u) :
              i \in DOMAIN r \/ (i - Len(r) \in DOMAIN u /\ (r \o u)[i] = u[i - Len(r)])
<1>1. /\ r \o u \in Seq(S) /\ Len(r \o u) = Len(r) + Len(u)
      /\ \A i \in 1 .. Len(r) + Len(u) : (r \o u)[i] = IF i <= Len(r) THEN r[i] ELSE u[i - Len(r)]
  BY ConcatProperties
<1>2. /\ DOMAIN r = 1 .. Len(r) /\ DOMAIN u = 1 .. Len(u) /\ Len(r) \in Nat /\ Len(u) \in Nat
      /\ DOMAIN (r \o u) = 1 .. Len(r) + Len(u)
  BY <1>1, LenProperties
<1>3. \A i \in DOMAIN r : i \in DOMAIN (r \o u) /\ (r \o u)[i] = r[i]
  BY <1>1, <1>2
<1>4. ASSUME NEW j \in DOMAIN u
      PROVE  Len(r) + j \in DOMAIN (r \o u) /\ (r \o u)[Len(r) + j] = u[j]
  <2>1. Len(r) + j \in 1 .. Len(r) + Len(u) /\ ~(Len(r) + j <= Len(r)) /\ (Len(r) + j) - Len(r) = j
    BY <1>2
  <2> QED BY <1>1, <1>2, <2>1
<1>5. ASSUME NEW i \in DOMAIN (r \o u), i \notin DOMAIN r
      PROVE  i - Len(r) \in DOMAIN u /\ (r \o u)[i] = u[i - Len(r)]
  <2>1. i \in 1 .. Len(r) + Len(u) /\ ~(i <= Len(r)) /\ i - Len(r) \in 1 .. Len(u)
    BY <1>2, <1>5
  <2> QED BY <1>1, <1>2, <2>1
<1> QED BY <1>1, <1>2, <1>3, <1>4, <1>5

\* Records of the running session.
LEMMA RecordTypes ==
  ASSUME WalTypeOK, NEW n \in 0 .. MaxWrites + 1
  PROVE  /\ Wal!Event(n) \in Wal!Records /\ Wal!Event(n).seq = n /\ Wal!Event(n).type = "event"
         /\ Wal!Event(n).session = session
         /\ Wal!Marker(n) \in Wal!Records /\ Wal!Marker(n).seq = n /\ Wal!Marker(n).type = "marker"
         /\ Wal!Marker(n).session = session
         /\ Wal!Torn \in Wal!Records
BY BoundsAssumption DEF WalTypeOK, Wal!TypeOK, Wal!Event, Wal!Marker, Wal!Torn, Wal!Records

\* The batch that write builds holds events of this session only.
LEMMA BatchFacts ==
  ASSUME WalBasics, NEW t \in Threads, writer[t] # Wal!NoSeq
  PROVE  /\ writer[t] \in 0 .. MaxWrites /\ writer[t] < sequence
         /\ Append(writeBuffer, Wal!Event(writer[t])) \in Seq(Wal!Records)
         /\ Len(Append(writeBuffer, Wal!Event(writer[t]))) = Len(writeBuffer) + 1
         /\ \A i \in DOMAIN Append(writeBuffer, Wal!Event(writer[t])) :
              LET e == Append(writeBuffer, Wal!Event(writer[t]))[i]
              IN  e = Wal!Event(e.seq) /\ e.seq < sequence /\ e.seq < MaxWrites /\ e.seq \in Nat
<1> DEFINE e == Wal!Event(writer[t])
           batch == Append(writeBuffer, e)
<1>1. writer[t] \in 0 .. MaxWrites /\ writer[t] < sequence /\ writer[t] < MaxWrites
  BY DEF WalBasics, WalTypeOK, Wal!TypeOK, HeldWereTaken
<1>2. e \in Wal!Records /\ e.seq = writer[t]
  BY <1>1, RecordTypes, BoundsAssumption DEF WalBasics
<1>3. writeBuffer \in Seq(Wal!Records)
  BY DEF WalBasics, WalTypeOK, Wal!TypeOK
<1>4. e = Wal!Event(e.seq) /\ e.seq < sequence /\ e.seq < MaxWrites /\ e.seq \in Nat
  BY <1>1, <1>2
<1> HIDE DEF e
<1>5. batch \in Seq(Wal!Records) /\ Len(batch) = Len(writeBuffer) + 1
      /\ DOMAIN batch = 1 .. Len(writeBuffer) + 1 /\ batch[Len(writeBuffer) + 1] = e
      /\ \A i \in DOMAIN writeBuffer : batch[i] = writeBuffer[i]
  BY <1>2, <1>3
<1>6. ASSUME NEW i \in DOMAIN batch
      PROVE  batch[i] = Wal!Event(batch[i].seq) /\ batch[i].seq < sequence /\ batch[i].seq < MaxWrites
             /\ batch[i].seq \in Nat
  <2>1. CASE i = Len(writeBuffer) + 1
    BY <1>4, <1>5, <2>1
  <2>2. CASE i # Len(writeBuffer) + 1
    <3>1. i \in DOMAIN writeBuffer
      BY <1>3, <1>5, <2>2
    <3>2. writeBuffer[i] \in Wal!Records
      BY <1>3, <3>1
    <3>3. writeBuffer[i].seq \in Nat
      BY <3>2 DEF Wal!Records
    <3> QED BY <1>5, <3>1, <3>3 DEF WalBasics, HeldWereTaken
  <2> QED BY <2>1, <2>2
<1> HIDE DEF batch
<1>7. /\ writer[t] \in 0 .. MaxWrites /\ writer[t] < sequence
      /\ batch \in Seq(Wal!Records) /\ Len(batch) = Len(writeBuffer) + 1
      /\ \A i \in DOMAIN batch : /\ batch[i] = Wal!Event(batch[i].seq) /\ batch[i].seq < sequence
                                 /\ batch[i].seq < MaxWrites /\ batch[i].seq \in Nat
  BY <1>1, <1>5, <1>6
<1> QED BY <1>7 DEF batch, e

\* The same of the buffer alone.
LEMMA BufferFacts ==
  ASSUME WalBasics
  PROVE  /\ writeBuffer \in Seq(Wal!Records)
         /\ \A i \in DOMAIN writeBuffer :
              LET e == writeBuffer[i]
              IN  e = Wal!Event(e.seq) /\ e.seq < sequence /\ e.seq < MaxWrites /\ e.seq \in Nat
<1>1. writeBuffer \in Seq(Wal!Records)
  BY DEF WalBasics, WalTypeOK, Wal!TypeOK
<1>2. \A i \in DOMAIN writeBuffer : writeBuffer[i] \in Wal!Records
  BY <1>1
<1>3. \A i \in DOMAIN writeBuffer : writeBuffer[i].seq \in Nat
  BY <1>2 DEF Wal!Records
<1> QED BY <1>1, <1>3 DEF WalBasics, HeldWereTaken

\* A flush appends the batch or throws it away; the buffer is empty either way.
LEMMA FlushFacts ==
  ASSUME WalTypeOK, NEW batch \in Seq(Wal!Records),
         \A i \in DOMAIN batch : batch[i].seq < MaxWrites, Wal!FlushBatch(batch)
  PROVE  wal' \in Seq(Wal!Records) /\ writeBuffer' = << >> /\ dropped' \subseteq 0 .. MaxWrites
<1>1. wal \in Seq(Wal!Records) /\ dropped \subseteq 0 .. MaxWrites
  BY DEF WalTypeOK, Wal!TypeOK
<1>2. wal \o batch \in Seq(Wal!Records)
  BY <1>1
<1>3. {e.seq : e \in Wal!ToSet(batch)} \subseteq 0 .. MaxWrites
  <2>1. \A i \in DOMAIN batch : batch[i] \in Wal!Records
    OBVIOUS
  <2>2. \A i \in DOMAIN batch : batch[i].seq \in 0 .. MaxWrites
    BY <2>1, BoundsAssumption DEF Wal!Records
  <2> QED BY <2>2 DEF Wal!ToSet
<1> QED BY <1>1, <1>2, <1>3 DEF Wal!FlushBatch

(***************************************************************************)
(* A flush that is killed leaves the log as it was, followed by a prefix   *)
(* of the batch and possibly one torn record.                              *)
(***************************************************************************)
LEMMA CutFlush ==
  ASSUME WalTypeOK, NEW batch \in Seq(Wal!Records), Wal!CrashInFlush(batch)
  PROVE  /\ wal' \in Seq(Wal!Records) /\ writeBuffer' = << >> /\ dropped' = dropped
         /\ Wal!GoDown("crash")
         /\ \A i \in DOMAIN wal : i \in DOMAIN wal' /\ wal'[i] = wal[i]
         /\ \A i \in DOMAIN wal' :
              \/ i \in DOMAIN wal
              \/ \E j \in DOMAIN batch : wal'[i] = batch[j]
              \/ wal'[i] = Wal!Torn /\ i = Len(wal')
<1>1. PICK n \in 0 .. Len(batch) - 1, torn \in {FALSE, WritesMayTear} :
        wal' = wal \o SubSeq(batch, 1, n) \o (IF torn THEN <<Wal!Torn>> ELSE << >>)
  BY DEF Wal!CrashInFlush
<1> DEFINE part == SubSeq(batch, 1, n)
<1>2. wal \in Seq(Wal!Records) /\ Wal!Torn \in Wal!Records
  BY BoundsAssumption DEF WalTypeOK, Wal!TypeOK, Wal!Torn, Wal!Records
<1>3. part \in Seq(Wal!Records) /\ Len(part) = n /\ n \in Nat
      /\ \A i \in 1 .. n : i \in DOMAIN batch /\ part[i] = batch[i]
  OBVIOUS
<1> HIDE DEF part
<1>l. PICK log : log = wal \o part
  OBVIOUS
<1>4. log \in Seq(Wal!Records)
      /\ (\A i \in DOMAIN wal : i \in DOMAIN log /\ log[i] = wal[i])
      /\ (\A i \in DOMAIN log : i \notin DOMAIN wal => \E j \in DOMAIN batch : log[i] = batch[j])
  <2>1. DOMAIN part = 1 .. n
    BY <1>3
  <2>2. log \in Seq(Wal!Records)
        /\ (\A i \in DOMAIN wal : i \in DOMAIN log /\ log[i] = wal[i])
        /\ (\A i \in DOMAIN log :
              i \in DOMAIN wal \/ (i - Len(wal) \in DOMAIN part /\ log[i] = part[i - Len(wal)]))
    <3>0. wal \in Seq(Wal!Records) /\ part \in Seq(Wal!Records)
      BY <1>2, <1>3
    <3>1. /\ wal \o part \in Seq(Wal!Records)
          /\ \A i \in DOMAIN wal : i \in DOMAIN (wal \o part) /\ (wal \o part)[i] = wal[i]
          /\ \A i \in DOMAIN (wal \o part) :
               i \in DOMAIN wal \/ (i - Len(wal) \in DOMAIN part /\ (wal \o part)[i] = part[i - Len(wal)])
      BY <3>0, ConcatFacts
    <3> QED BY <1>l, <3>1, Zenon
  <2> QED BY <1>3, <2>1, <2>2
<1>5. wal' = log \o (IF torn THEN <<Wal!Torn>> ELSE << >>)
  BY <1>l, <1>1 DEF part
<1>6. writeBuffer' = << >> /\ dropped' = dropped /\ Wal!GoDown("crash")
  BY DEF Wal!CrashInFlush
<1>7. /\ wal' \in Seq(Wal!Records)
      /\ \A i \in DOMAIN log : i \in DOMAIN wal' /\ wal'[i] = log[i]
      /\ \A i \in DOMAIN wal' : i \notin DOMAIN log => wal'[i] = Wal!Torn /\ i = Len(wal')
  <2>1. CASE torn
    <3>1. wal' = Append(log, Wal!Torn)
      <4>1. wal' = log \o <<Wal!Torn>>
        BY <1>5, <2>1
      <4> QED BY <1>2, <1>4, <4>1, AppendIsConcat
    <3> QED BY <1>2, <1>4, <3>1
  <2>2. CASE ~torn
    <3>1. wal' = log
      BY <1>4, <1>5, <2>2
    <3> QED BY <1>4, <3>1
  <2> QED BY <2>1, <2>2
<1>8. \A i \in DOMAIN wal : i \in DOMAIN wal' /\ wal'[i] = wal[i]
  BY <1>4, <1>7
<1>9. ASSUME NEW i \in DOMAIN wal'
      PROVE  \/ i \in DOMAIN wal
             \/ \E j \in DOMAIN batch : wal'[i] = batch[j]
             \/ wal'[i] = Wal!Torn /\ i = Len(wal')
  <2>1. CASE i \in DOMAIN log
    BY <1>4, <1>7, <2>1
  <2>2. CASE i \notin DOMAIN log
    BY <1>7, <2>2
  <2> QED BY <2>1, <2>2
<1> QED BY <1>6, <1>7, <1>8, <1>9

Phases == {"down", "up"} \cup Startup \cup Exiting

\* WalTypeOK, with what is Boolean apart from the rest.
WalFlags == clean \in BOOLEAN /\ verdict \in BOOLEAN /\ carried \in BOOLEAN
WalShapes ==
  /\ wal \in Seq(Wal!Records) /\ metaFile \in Wal!Metadata /\ meta \in Wal!Metadata
  /\ phase \in Phases /\ sequence \in 0 .. MaxWrites + 1
  /\ writeBuffer \in Seq(Wal!Records) /\ Len(writeBuffer) < Batch
  /\ ring \in 0 .. RingPlaces /\ pending \in Seq(Wal!Records)
  /\ writer \in [Threads -> 0 .. MaxWrites \cup {Wal!NoSeq}]
  /\ session \in 0 .. MaxSessions /\ dropped \subseteq 0 .. MaxWrites

LEMMA TypeParts ==
  (WalTypeOK <=> WalFlags /\ WalShapes) /\ (WalTypeOK' <=> WalFlags' /\ WalShapes')
BY Zenon DEF WalTypeOK, Wal!TypeOK, WalFlags, WalShapes, Phases, Startup, Exiting

\* Every step keeps the types, and entries only where entries may be.
LEMMA BasicsInductive == WalBasics /\ [Wal!Next]_(Wal!vars) => WalBasics'
<1> SUFFICES ASSUME WalBasics, [Wal!Next]_(Wal!vars) PROVE WalBasics'
  OBVIOUS
<1> USE DEF Wal!mem, Wal!hist
<1>0. WalFlags /\ WalShapes /\ WalHistory /\ NothingHeld /\ HeldWereTaken
  BY TypeParts DEF WalBasics
<1>01. WalFlags' /\ WalShapes' /\ WalHistory' /\ NothingHeld' /\ HeldWereTaken' => WalBasics'
  BY TypeParts DEF WalBasics
<1>02. Wal!NoSeq = MaxWrites + 2 /\ MaxWrites \in Nat /\ MaxSessions \in Nat
  BY BoundsAssumption DEF Wal!NoSeq
<1>1. CASE Wal!Start
  <2>1. PICK n \in Wal!ValidReads, r \in Wal!Straddled :
          /\ clean' = Wal!LooksClean(Wal!ReadWal(n, r))
          /\ pending' = Wal!ReadWal(n, r)
          /\ verdict' = (~Wal!LooksClean(Wal!ReadWal(n, r)) /\ Wal!ReadWal(n, r) # << >>)
    BY <1>1 DEF Wal!Start
  <2>2. pending' \in Seq(Wal!Records)
    BY <1>0, <2>1, ReadWalFacts DEF WalShapes
  <2>3. WalFlags'
    BY <1>1, <2>1, Zenon DEF WalFlags, Wal!Start, Wal!LooksClean
  <2>4. meta' \in Wal!Metadata
    BY <1>0, <1>1 DEF Wal!Start, Wal!LoadMetadata, Wal!Meta0, Wal!Metadata, WalShapes
  <2>5. phase = "down" /\ phase' \in {"replay", "up"} /\ session' = session + 1 /\ session < MaxSessions
        /\ dropped' = {}
        /\ UNCHANGED <<wal, metaFile, sequence, writeBuffer, ring, writer, prev, recovered>>
    BY <1>1 DEF Wal!Start
  <2>6. WalShapes'
    BY <1>0, <1>02, <2>2, <2>4, <2>5 DEF WalShapes, Phases, Startup
  <2>7. WalHistory'
    BY <1>0, <2>5 DEF WalHistory
  <2>8. NothingHeld' /\ HeldWereTaken'
    BY <1>0, <1>02, <2>5 DEF NothingHeld, HeldWereTaken, Startup, Exiting, WalShapes
  <2> QED BY <1>01, <2>3, <2>6, <2>7, <2>8
<1>2. CASE Wal!Replay
  <2>1. ring' \in 0 .. RingPlaces
    BY <1>0, <1>2, ReplayableCount, RingPlacesAssumption DEF Wal!Replay, Wal!PushAll, WalShapes, WalBasics
  <2>2. phase = "replay" /\ phase' = "truncate"
        /\ UNCHANGED <<wal, metaFile, sequence, clean, writeBuffer, pending, meta, writer, verdict,
                       session, prev, carried, dropped, recovered>>
    BY <1>2 DEF Wal!Replay
  <2>3. WalFlags' /\ WalHistory'
    BY <1>0, <2>2, Zenon DEF WalFlags, WalHistory
  <2>4. WalShapes'
    BY <1>0, <2>1, <2>2 DEF WalShapes, Phases, Startup
  <2>5. NothingHeld' /\ HeldWereTaken'
    BY <1>0, <2>2 DEF NothingHeld, HeldWereTaken, Startup, Exiting, Wal!Event
  <2> QED BY <1>01, <2>3, <2>4, <2>5
<1>3. CASE Wal!Truncate
  <2>0. phase = "truncate" /\ phase' = "recoverSave" /\ wal' = << >> /\ pending' = << >>
        /\ carried' = FALSE
        /\ UNCHANGED <<metaFile, sequence, clean, writeBuffer, ring, writer, verdict, session, prev,
                       dropped>>
    BY <1>3 DEF Wal!Truncate
  <2>1. Wal!Cardinality(Wal!Replayable) \in Nat
    BY ReplayableCount DEF WalBasics
  <2>2. meta' \in Wal!Metadata
    <3>1. meta' = [meta EXCEPT !.recoveries = meta.recoveries + 1,
                               !.entries = meta.entries + Wal!Cardinality(Wal!Replayable),
                               !.lastWal = sequence]
      BY <1>3 DEF Wal!Truncate
    <3>2. meta \in Wal!Metadata /\ sequence \in Nat
      BY <1>0, <1>02 DEF WalShapes
    <3>3. /\ meta.recoveries + 1 \in Nat
          /\ meta.entries + Wal!Cardinality(Wal!Replayable) \in Nat
      BY <2>1, <3>2 DEF Wal!Metadata
    <3> QED BY <3>1, <3>2, <3>3 DEF Wal!Metadata
  <2>3. recovered' \in [runs : Nat, count : Nat, events : SUBSET Wal!Records]
    <3>1. recovered' = [runs |-> recovered.runs + 1,
                        count |-> recovered.count + Wal!Cardinality(Wal!Replayable),
                        events |-> recovered.events \cup {e \in Wal!ToSet(pending) : e.type = "event"}]
      BY <1>3 DEF Wal!Truncate
    <3>2. Wal!ToSet(pending) \subseteq Wal!Records
      BY <1>0 DEF WalShapes, Wal!ToSet
    <3> QED BY <1>0, <2>1, <3>1, <3>2 DEF WalHistory
  <2>4. WalFlags'
    BY <1>0, <2>0, Zenon DEF WalFlags
  <2>5. WalHistory'
    BY <1>0, <2>0, <2>3 DEF WalHistory
  <2>6. WalShapes'
    BY <1>0, <2>0, <2>2 DEF WalShapes, Phases, Startup
  <2>7. NothingHeld' /\ HeldWereTaken'
    BY <1>0, <2>0 DEF NothingHeld, HeldWereTaken, Startup, Exiting, Wal!Event
  <2> QED BY <1>01, <2>4, <2>5, <2>6, <2>7
<1>4. CASE Wal!SaveFails \/ Wal!SaveOpen \/ Wal!SaveWrite
  <2>1. metaFile' \in Wal!Metadata
    <3>1. Wal!TornMeta \in Wal!Metadata /\ meta \in Wal!Metadata
            /\ metaFile \in Wal!Metadata
      BY <1>0 DEF Wal!TornMeta, Wal!Meta0, Wal!Metadata, WalShapes
    <3> QED BY <1>4, <3>1 DEF Wal!SaveFails, Wal!SaveOpen, Wal!SaveWrite
  <2>2. /\ UNCHANGED <<wal, sequence, clean, writeBuffer, ring, pending, meta, writer, verdict,
                       session, prev, carried, dropped, recovered>>
        /\ \/ phase \in Startup /\ phase' \in Startup \cup {"up"}
           \/ phase \in Exiting /\ phase' \in Exiting
    BY <1>4 DEF Wal!SaveFails, Wal!SaveOpen, Wal!SaveWrite, Startup, Exiting
  <2>3. WalFlags' /\ WalHistory'
    BY <1>0, <2>2, Zenon DEF WalFlags, WalHistory
  <2>4. WalShapes'
    BY <1>0, <2>1, <2>2 DEF WalShapes, Phases
  <2>5. NothingHeld' /\ HeldWereTaken'
    BY <1>0, <2>2 DEF NothingHeld, HeldWereTaken, Startup, Exiting, Wal!Event
  <2> QED BY <1>01, <2>3, <2>4, <2>5
<1>5. ASSUME NEW t \in Threads, Wal!TakeSequence(t) PROVE WalBasics'
  <2>1. ring' \in 0 .. RingPlaces
    BY <1>0, <1>5, RingPlacesAssumption DEF Wal!TakeSequence, Wal!PushAll, WalShapes
  <2>2. /\ phase = "up" /\ sequence < MaxWrites /\ sequence' = sequence + 1
        /\ writer' = [writer EXCEPT ![t] = sequence]
        /\ UNCHANGED <<wal, metaFile, phase, clean, writeBuffer, pending, meta, verdict, session, prev,
                       carried, dropped, recovered>>
    BY <1>5 DEF Wal!TakeSequence
  <2>3. WalFlags' /\ WalHistory'
    BY <1>0, <2>2, Zenon DEF WalFlags, WalHistory
  <2>4. WalShapes'
    BY <1>0, <1>02, <2>1, <2>2 DEF WalShapes
  <2>5. NothingHeld'
    BY <2>2 DEF NothingHeld, Startup
  <2>6. \A i \in DOMAIN writeBuffer : writeBuffer[i].seq \in Nat
    BY BufferFacts
  <2>7. \A u \in Threads : writer[u] = Wal!NoSeq \/ writer[u] \in Nat
    BY <1>0 DEF WalShapes
  <2>8. HeldWereTaken'
    BY <1>0, <1>02, <2>2, <2>6, <2>7 DEF HeldWereTaken, Exiting, Wal!Event, WalShapes, Wal!NoSeq
  <2> QED BY <1>01, <2>3, <2>4, <2>5, <2>8
<1>6. ASSUME NEW t \in Threads, Wal!BufferEntry(t) PROVE WalBasics'
  <2> DEFINE batch == Append(writeBuffer, Wal!Event(writer[t]))
  <2>1. /\ phase = "up" /\ writer[t] # Wal!NoSeq /\ writer' = [writer EXCEPT ![t] = Wal!NoSeq]
        /\ UNCHANGED <<metaFile, phase, sequence, clean, ring, pending, meta, verdict, session, prev,
                       carried, recovered>>
        /\ IF Len(batch) >= Batch THEN Wal!FlushBatch(batch)
           ELSE writeBuffer' = batch /\ UNCHANGED <<wal, dropped>>
    BY <1>6 DEF Wal!BufferEntry
  <2>2. /\ batch \in Seq(Wal!Records)
        /\ \A i \in DOMAIN batch : /\ batch[i] = Wal!Event(batch[i].seq) /\ batch[i].seq < sequence
                                   /\ batch[i].seq < MaxWrites /\ batch[i].seq \in Nat
    BY <2>1, BatchFacts
  <2> HIDE DEF batch
  <2>3. /\ wal' \in Seq(Wal!Records) /\ dropped' \subseteq 0 .. MaxWrites
        /\ writeBuffer' = << >> \/ (writeBuffer' = batch /\ Len(batch) < Batch)
    <3>1. CASE Len(batch) >= Batch
      BY <1>0, <2>1, <2>2, <3>1, FlushFacts DEF WalBasics
    <3>2. CASE ~(Len(batch) >= Batch)
      <4>1. Len(batch) \in Nat
        BY <2>2
      <4>2. writeBuffer' = batch /\ wal' = wal /\ dropped' = dropped
        BY <2>1, <3>2
      <4>3. Len(batch) < Batch
        BY <3>2, <4>1, BatchAssumption
      <4> QED BY <1>0, <4>2, <4>3 DEF WalShapes
    <3> QED BY <3>1, <3>2
  <2>4. WalFlags' /\ WalHistory'
    BY <1>0, <2>1, Zenon DEF WalFlags, WalHistory
  <2>5. writeBuffer' \in Seq(Wal!Records) /\ Len(writeBuffer') < Batch
    <3>1. CASE writeBuffer' = << >>
      BY <3>1, BatchAssumption
    <3>2. CASE writeBuffer' # << >>
      BY <2>2, <2>3, <3>2
    <3> QED BY <3>1, <3>2
  <2>6. WalShapes'
    BY <1>0, <2>1, <2>3, <2>5 DEF WalShapes
  <2>7. NothingHeld'
    BY <2>1 DEF NothingHeld, Startup
  <2>8. \A i \in DOMAIN writeBuffer' :
          /\ writeBuffer'[i] = Wal!Event(writeBuffer'[i].seq)
          /\ writeBuffer'[i].seq < sequence /\ writeBuffer'[i].seq < MaxWrites
    BY <2>2, <2>3
  <2>9. HeldWereTaken'
    BY <1>0, <2>1, <2>8 DEF HeldWereTaken, Wal!Event, WalShapes, Wal!NoSeq
  <2> QED BY <1>01, <2>4, <2>6, <2>7, <2>9
<1>7. CASE Wal!MarkCleanShutdown
  <2>1. /\ phase = "up" /\ (\A t \in Threads : writer[t] = Wal!NoSeq) /\ clean' = TRUE
        /\ sequence' = sequence + 1 /\ phase' = "exitSave"
        /\ (wal' = Append(wal, Wal!Marker(sequence)) \/ wal' = wal)
        /\ meta' = [meta EXCEPT !.lastClean = sequence']
        /\ UNCHANGED <<metaFile, writeBuffer, ring, pending, writer, verdict, session, prev, carried,
                       dropped, recovered>>
    BY <1>7 DEF Wal!MarkCleanShutdown
  <2>2. sequence \in 0 .. MaxWrites
    BY <1>0, <2>1 DEF HeldWereTaken, Exiting, WalShapes
  <2>3. wal' \in Seq(Wal!Records)
    <3>1. Wal!Marker(sequence) \in Wal!Records
      BY <1>02, <2>2, RecordTypes DEF WalBasics
    <3>2. wal \in Seq(Wal!Records)
      BY <1>0 DEF WalShapes
    <3>3. Append(wal, Wal!Marker(sequence)) \in Seq(Wal!Records)
      BY <3>1, <3>2
    <3> QED BY <2>1, <3>2, <3>3
  <2>4. meta' \in Wal!Metadata
    <3>1. sequence + 1 \in Nat
      BY <2>2
    <3> QED BY <1>0, <2>1, <3>1 DEF Wal!Metadata, WalShapes
  <2>5. WalFlags' /\ WalHistory'
    BY <1>0, <2>1, Zenon DEF WalFlags, WalHistory
  <2>6. WalShapes'
    BY <1>0, <1>02, <2>1, <2>2, <2>3, <2>4 DEF WalShapes, Phases, Exiting
  <2>7. NothingHeld'
    BY <2>1 DEF NothingHeld, Startup
  <2>8. HeldWereTaken'
    <3>1. \A i \in DOMAIN writeBuffer : writeBuffer[i].seq \in Nat
      BY BufferFacts
    <3> QED BY <1>0, <2>1, <2>2, <3>1 DEF HeldWereTaken, Exiting, Wal!Event, Wal!NoSeq
  <2> QED BY <1>01, <2>5, <2>6, <2>7, <2>8
<1>8. CASE Wal!SkipCleanShutdown
  <2>1. phase = "up" /\ (\A t \in Threads : writer[t] = Wal!NoSeq) /\ phase' = "closing"
        /\ UNCHANGED <<wal, metaFile, sequence, clean, writeBuffer, ring, pending, meta, writer, verdict,
                       session, prev, carried, dropped, recovered>>
    BY <1>8 DEF Wal!SkipCleanShutdown
  <2>2. WalFlags' /\ WalHistory'
    BY <1>0, <2>1, Zenon DEF WalFlags, WalHistory
  <2>3. WalShapes'
    BY <1>0, <2>1 DEF WalShapes, Phases, Exiting
  <2>4. NothingHeld' /\ HeldWereTaken'
    BY <1>0, <2>1 DEF NothingHeld, HeldWereTaken, Startup, Exiting, Wal!Event
  <2> QED BY <1>01, <2>2, <2>3, <2>4
<1>9. CASE Wal!Close
  <2>1. wal' \in Seq(Wal!Records) /\ writeBuffer' = << >> /\ dropped' \subseteq 0 .. MaxWrites
    <3>1. CASE writeBuffer = << >>
      BY <1>0, <1>9, <3>1 DEF Wal!Close, WalShapes
    <3>2. CASE writeBuffer # << >>
      BY <1>9, <3>2, BufferFacts, FlushFacts DEF Wal!Close, WalBasics
    <3> QED BY <3>1, <3>2
  <2> QED BY <1>9, <2>1, GoDownBasics DEF Wal!Close
<1>10. CASE Wal!Crash
  BY <1>0, <1>10, GoDownBasics DEF Wal!Crash, WalShapes
<1>11. ASSUME NEW batch \in Seq(Wal!Records), Wal!CrashInFlush(batch) PROVE WalBasics'
  BY <1>0, <1>11, CutFlush, GoDownBasics DEF WalShapes, WalBasics
<1>12. ASSUME NEW t \in Threads, Wal!CrashInWrite(t) PROVE WalBasics'
  BY <1>11, <1>12, BatchFacts DEF Wal!CrashInWrite
<1>13. CASE Wal!CrashInClose
  BY <1>11, <1>13, BufferFacts DEF Wal!CrashInClose
<1>14. CASE Wal!CrashInMark
  <2>1. Wal!Torn \in Wal!Records
    BY <1>02 DEF Wal!Torn, Wal!Records
  <2>2. wal' \in Seq(Wal!Records)
    BY <1>0, <1>14, <2>1 DEF Wal!CrashInMark, WalShapes
  <2> QED BY <1>0, <1>14, <2>2, GoDownBasics DEF Wal!CrashInMark, WalShapes
<1>15. CASE UNCHANGED Wal!vars
  <2>1. UNCHANGED <<wal, metaFile, phase, sequence, clean, writeBuffer, ring, pending, meta, writer,
                    verdict, session, prev, carried, dropped, recovered>>
    BY <1>15 DEF Wal!vars
  <2>2. WalFlags' /\ WalHistory'
    BY <1>0, <2>1, Zenon DEF WalFlags, WalHistory
  <2>3. WalShapes' /\ NothingHeld' /\ HeldWereTaken'
    BY <1>0, <2>1 DEF WalShapes, NothingHeld, HeldWereTaken, Wal!Event
  <2> QED BY <1>01, <2>2, <2>3
<1> QED
  BY <1>1, <1>2, <1>3, <1>4, <1>5, <1>6, <1>7, <1>8, <1>9, <1>10, <1>12, <1>13, <1>14, <1>15
  DEF Wal!Next

\* The basics hold from the start.
LEMMA BasicsHold == WalSpec => []WalBasics
<1>1. ASSUME Wal!Init PROVE WalBasics
  <2>1. Wal!Meta0 \in Wal!Metadata
    BY DEF Wal!Meta0, Wal!Metadata
  <2>2. WalFlags
    BY <1>1, Zenon DEF Wal!Init, WalFlags
  <2>3. WalShapes
    BY <1>1, <2>1, BatchAssumption, RingPlacesAssumption, BoundsAssumption
    DEF Wal!Init, WalShapes, Phases, Wal!NoSeq
  <2>4. WalHistory
    <3>1. prev \in [exit : {"none", "clean", "crash"}, marked : BOOLEAN, left : Nat, carried : BOOLEAN]
      BY <1>1 DEF Wal!Init, Wal!NoSession
    <3> QED BY <1>1, <3>1 DEF Wal!Init, WalHistory
  <2>5. NothingHeld /\ HeldWereTaken
    BY <1>1, BoundsAssumption DEF Wal!Init, NothingHeld, HeldWereTaken
  <2> QED BY <2>2, <2>3, <2>4, <2>5, TypeParts DEF WalBasics
<1> QED BY <1>1, BasicsInductive, PTL DEF WalSpec, Wal!Spec

\* Type correctness of the log and its recovery, for any batch, ring, threads and faults.
THEOREM WalTypeCorrect == WalSpec => []WalTypeOK
<1>1. WalBasics => WalTypeOK
  BY DEF WalBasics
<1> QED BY <1>1, BasicsHold, PTL

\* Every step keeps the counts of the metadata below what was recovered.
LEMMA MetaInductive == WalBasics /\ MetaInv /\ [Wal!Next]_(Wal!vars) => MetaInv'
<1> SUFFICES ASSUME WalBasics, MetaInv, [Wal!Next]_(Wal!vars) PROVE MetaInv'
  OBVIOUS
<1> USE DEF Wal!mem, Wal!hist
<1>0. /\ meta \in Wal!Metadata /\ metaFile \in Wal!Metadata
      /\ recovered \in [runs : Nat, count : Nat, events : SUBSET Wal!Records]
  BY TypeParts DEF WalBasics, WalShapes, WalHistory
<1>1. ASSUME UNCHANGED <<meta, metaFile, recovered>> PROVE MetaInv'
  BY <1>1 DEF MetaInv, MetadataNeverOvercounts, Wal!MetadataNeverOvercounts
<1>2. CASE Wal!Start
  <2>1. meta' = (IF metaFile.torn THEN Wal!Meta0 ELSE metaFile) /\ UNCHANGED <<metaFile, recovered>>
    BY <1>2 DEF Wal!Start, Wal!LoadMetadata
  <2>2. CASE metaFile.torn
    BY <1>0, <2>1, <2>2 DEF MetaInv, MetadataNeverOvercounts, Wal!MetadataNeverOvercounts, Wal!Meta0
  <2>3. CASE ~metaFile.torn
    <3>1. meta' = metaFile /\ metaFile.torn = FALSE
      BY <1>0, <2>1, <2>3 DEF Wal!Metadata
    <3> QED BY <2>1, <2>3, <3>1 DEF MetaInv, MetadataNeverOvercounts, Wal!MetadataNeverOvercounts
  <2> QED BY <2>2, <2>3
<1>3. CASE Wal!Truncate
  <2>1. Wal!Cardinality(Wal!Replayable) \in Nat
    BY ReplayableCount DEF WalBasics
  <2>2. /\ recovered'.runs = recovered.runs + 1
        /\ recovered'.count = recovered.count + Wal!Cardinality(Wal!Replayable)
        /\ meta'.recoveries = meta.recoveries + 1
        /\ meta'.entries = meta.entries + Wal!Cardinality(Wal!Replayable)
        /\ meta'.torn = meta.torn /\ metaFile' = metaFile
    BY <1>0, <1>3 DEF Wal!Truncate, Wal!Metadata
  <2>3. /\ meta.recoveries \in Nat /\ meta.entries \in Nat
        /\ metaFile.recoveries \in Nat /\ metaFile.entries \in Nat
        /\ recovered.runs \in Nat /\ recovered.count \in Nat
    BY <1>0 DEF Wal!Metadata
  <2> QED BY <2>1, <2>2, <2>3 DEF MetaInv, MetadataNeverOvercounts, Wal!MetadataNeverOvercounts
<1>4. CASE Wal!SaveOpen
  BY <1>4 DEF Wal!SaveOpen, Wal!TornMeta, Wal!Meta0, MetaInv, MetadataNeverOvercounts,
              Wal!MetadataNeverOvercounts
<1>5. CASE Wal!SaveWrite
  BY <1>5 DEF Wal!SaveWrite, MetaInv, MetadataNeverOvercounts, Wal!MetadataNeverOvercounts
<1>6. CASE Wal!MarkCleanShutdown
  <2>1. meta'.recoveries = meta.recoveries /\ meta'.entries = meta.entries /\ meta'.torn = meta.torn
        /\ UNCHANGED <<metaFile, recovered>>
    BY <1>0, <1>6 DEF Wal!MarkCleanShutdown, Wal!Metadata
  <2> QED BY <2>1 DEF MetaInv, MetadataNeverOvercounts, Wal!MetadataNeverOvercounts
<1>7. ASSUME NEW exit, Wal!GoDown(exit) PROVE MetaInv'
  <2>1. meta' = Wal!Meta0 /\ UNCHANGED <<metaFile, recovered>>
    BY <1>7 DEF Wal!GoDown
  <2>2. meta'.torn = FALSE /\ meta'.recoveries = 0 /\ meta'.entries = 0
    BY <2>1 DEF Wal!Meta0
  <2> QED BY <1>0, <2>1, <2>2 DEF MetaInv, MetadataNeverOvercounts, Wal!MetadataNeverOvercounts
<1>8. CASE Wal!Close \/ Wal!Crash \/ Wal!CrashInMark \/ Wal!CrashInClose
           \/ \E t \in Threads : Wal!CrashInWrite(t)
  BY <1>7, <1>8 DEF Wal!Close, Wal!Crash, Wal!CrashInMark, Wal!CrashInClose, Wal!CrashInWrite,
                    Wal!CrashInFlush
<1>9. CASE Wal!Replay \/ Wal!SaveFails \/ Wal!SkipCleanShutdown \/ UNCHANGED Wal!vars
  BY <1>1, <1>9 DEF Wal!Replay, Wal!SaveFails, Wal!SkipCleanShutdown, Wal!vars
<1>10. ASSUME NEW t \in Threads, Wal!TakeSequence(t) \/ Wal!BufferEntry(t) PROVE MetaInv'
  BY <1>1, <1>10 DEF Wal!TakeSequence, Wal!BufferEntry
<1> QED BY <1>2, <1>3, <1>4, <1>5, <1>6, <1>8, <1>9, <1>10 DEF Wal!Next

(***************************************************************************)
(* The saved metadata never claims a recovery that did not complete,       *)
(* wherever recover and save_metadata are killed and however often.        *)
(***************************************************************************)
THEOREM MetadataCorrect == WalSpec => []MetadataNeverOvercounts
<1>1. Wal!Init => MetaInv
  BY DEF Wal!Init, Wal!Meta0, MetaInv, MetadataNeverOvercounts, Wal!MetadataNeverOvercounts
<1>2. MetaInv => MetadataNeverOvercounts
  BY DEF MetaInv
<1> QED BY <1>1, <1>2, BasicsHold, MetaInductive, PTL DEF WalSpec, Wal!Spec

\* The records a step may add to the log, and where.
NewRecord(i) ==
  /\ phase \in {"up"} \cup Exiting
  /\ \/ \E j \in DOMAIN writeBuffer : wal'[i] = writeBuffer[j]
     \/ phase = "up" /\ \E t \in Threads : writer[t] # Wal!NoSeq /\ wal'[i] = Wal!Event(writer[t])
     \/ phase' = "exitSave" /\ phase = "up" /\ wal'[i] = Wal!Marker(sequence) /\ i = Len(wal) + 1
     \/ phase' = "down" /\ prev'.exit = "crash" /\ wal'[i] = Wal!Torn /\ i = Len(wal')

\* Only truncation takes records from the log; every other step leaves it or adds to its end.
LEMMA LogGrowth ==
  ASSUME WalBasics, [Wal!Next]_(Wal!vars), ~Wal!Truncate
  PROVE  /\ \A i \in DOMAIN wal : i \in DOMAIN wal' /\ wal'[i] = wal[i]
         /\ \A i \in DOMAIN wal' : i \in DOMAIN wal \/ NewRecord(i)
<1> DEFINE Goal == /\ \A i \in DOMAIN wal : i \in DOMAIN wal' /\ wal'[i] = wal[i]
                   /\ \A i \in DOMAIN wal' : i \in DOMAIN wal \/ NewRecord(i)
<1> SUFFICES Goal
  OBVIOUS
<1> USE DEF Wal!mem, Wal!hist
<1>0. wal \in Seq(Wal!Records)
  BY TypeParts DEF WalBasics, WalShapes
<1>1. ASSUME wal' = wal PROVE Goal
  BY <1>1
<1>2. ASSUME NEW batch \in Seq(Wal!Records), wal' = wal \o batch, phase \in {"up"} \cup Exiting,
             \A j \in DOMAIN batch :
               \/ \E k \in DOMAIN writeBuffer : batch[j] = writeBuffer[k]
               \/ phase = "up" /\ \E t \in Threads : writer[t] # Wal!NoSeq /\ batch[j] = Wal!Event(writer[t])
      PROVE  Goal
  <2>1. /\ \A i \in DOMAIN wal : i \in DOMAIN (wal \o batch) /\ (wal \o batch)[i] = wal[i]
        /\ \A i \in DOMAIN (wal \o batch) :
             i \in DOMAIN wal \/ (i - Len(wal) \in DOMAIN batch /\ (wal \o batch)[i] = batch[i - Len(wal)])
    BY <1>0, ConcatFacts
  <2>2. ASSUME NEW i \in DOMAIN wal', i \notin DOMAIN wal PROVE NewRecord(i)
    <3>1. PICK j \in DOMAIN batch : wal'[i] = batch[j]
      BY <1>2, <2>1, <2>2
    <3> QED BY <1>2, <3>1 DEF NewRecord
  <2> QED BY <1>2, <2>1, <2>2
<1>3. ASSUME NEW batch \in Seq(Wal!Records), Wal!CrashInFlush(batch), phase \in {"up"} \cup Exiting,
             \A j \in DOMAIN batch :
               \/ \E k \in DOMAIN writeBuffer : batch[j] = writeBuffer[k]
               \/ phase = "up" /\ \E t \in Threads : writer[t] # Wal!NoSeq /\ batch[j] = Wal!Event(writer[t])
      PROVE  Goal
  <2>1. phase' = "down" /\ prev'.exit = "crash"
    BY <1>3 DEF Wal!CrashInFlush, Wal!GoDown
  <2>2. /\ \A i \in DOMAIN wal : i \in DOMAIN wal' /\ wal'[i] = wal[i]
        /\ \A i \in DOMAIN wal' : \/ i \in DOMAIN wal
                                  \/ \E j \in DOMAIN batch : wal'[i] = batch[j]
                                  \/ wal'[i] = Wal!Torn /\ i = Len(wal')
    BY <1>3, CutFlush DEF WalBasics
  <2>3. ASSUME NEW i \in DOMAIN wal', i \notin DOMAIN wal PROVE NewRecord(i)
    <3>1. CASE \E j \in DOMAIN batch : wal'[i] = batch[j]
      BY <1>3, <3>1 DEF NewRecord
    <3>2. CASE wal'[i] = Wal!Torn /\ i = Len(wal')
      BY <1>3, <2>1, <3>2 DEF NewRecord
    <3> QED BY <2>2, <2>3, <3>1, <3>2
  <2> QED BY <2>2, <2>3
<1>4. ASSUME NEW t \in Threads, writer[t] # Wal!NoSeq, phase = "up",
             NEW j \in DOMAIN Append(writeBuffer, Wal!Event(writer[t]))
      PROVE  \/ \E k \in DOMAIN writeBuffer : Append(writeBuffer, Wal!Event(writer[t]))[j] = writeBuffer[k]
             \/ Append(writeBuffer, Wal!Event(writer[t]))[j] = Wal!Event(writer[t])
  <2>1. writeBuffer \in Seq(Wal!Records) /\ Wal!Event(writer[t]) \in Wal!Records
    BY <1>4, BatchFacts, RecordTypes, BoundsAssumption, TypeParts DEF WalBasics, WalShapes
  <2> QED BY <2>1, AppendProperties
<1>5. ASSUME NEW t \in Threads, Wal!BufferEntry(t) PROVE Goal
  <2> DEFINE batch == Append(writeBuffer, Wal!Event(writer[t]))
  <2>1. writer[t] # Wal!NoSeq /\ phase = "up" /\ (wal' = wal \/ wal' = wal \o batch)
    BY <1>5 DEF Wal!BufferEntry, Wal!FlushBatch
  <2>2. batch \in Seq(Wal!Records)
    BY <2>1, BatchFacts
  <2>3. \A j \in DOMAIN batch :
          \/ \E k \in DOMAIN writeBuffer : batch[j] = writeBuffer[k]
          \/ phase = "up" /\ \E u \in Threads : writer[u] # Wal!NoSeq /\ batch[j] = Wal!Event(writer[u])
    BY <1>4, <2>1
  <2> HIDE DEF batch, Goal
  <2> QED BY <1>1, <1>2, <2>1, <2>2, <2>3
<1>6. ASSUME NEW t \in Threads, Wal!CrashInWrite(t) PROVE Goal
  <2> DEFINE batch == Append(writeBuffer, Wal!Event(writer[t]))
  <2>1. writer[t] # Wal!NoSeq /\ phase = "up" /\ Wal!CrashInFlush(batch)
    BY <1>6 DEF Wal!CrashInWrite
  <2>2. batch \in Seq(Wal!Records)
    BY <2>1, BatchFacts
  <2>3. \A j \in DOMAIN batch :
          \/ \E k \in DOMAIN writeBuffer : batch[j] = writeBuffer[k]
          \/ phase = "up" /\ \E u \in Threads : writer[u] # Wal!NoSeq /\ batch[j] = Wal!Event(writer[u])
    BY <1>4, <2>1
  <2> HIDE DEF batch, Goal
  <2> QED BY <1>3, <2>1, <2>2, <2>3
<1>7. CASE Wal!Close
  <2>1. phase = "closing" /\ (wal' = wal \/ wal' = wal \o writeBuffer)
    BY <1>7 DEF Wal!Close, Wal!FlushBatch
  <2>2. writeBuffer \in Seq(Wal!Records)
    BY BufferFacts
  <2> HIDE DEF Goal
  <2>3. phase \in {"up"} \cup Exiting
    BY <2>1 DEF Exiting
  <2> QED BY <1>1, <1>2, <2>1, <2>2, <2>3
<1>8. CASE Wal!CrashInClose
  <2>1. writeBuffer \in Seq(Wal!Records)
    BY BufferFacts
  <2> HIDE DEF Goal
  <2>2. phase \in {"up"} \cup Exiting /\ Wal!CrashInFlush(writeBuffer)
    BY <1>8 DEF Wal!CrashInClose, Exiting
  <2> QED BY <1>3, <2>1, <2>2
<1>9. ASSUME NEW e \in Wal!Records, wal' = Append(wal, e)
      PROVE  /\ \A i \in DOMAIN wal : i \in DOMAIN wal' /\ wal'[i] = wal[i]
             /\ \A i \in DOMAIN wal' : i \in DOMAIN wal \/ (wal'[i] = e /\ i = Len(wal) + 1 /\ i = Len(wal'))
  <2>1. /\ wal' \in Seq(Wal!Records) /\ Len(wal') = Len(wal) + 1 /\ Len(wal) \in Nat
        /\ \A i \in 1 .. Len(wal) : wal'[i] = wal[i]
        /\ wal'[Len(wal) + 1] = e
    BY <1>0, <1>9, AppendProperties, LenProperties
  <2>2. DOMAIN wal = 1 .. Len(wal) /\ DOMAIN wal' = 1 .. Len(wal) + 1
    BY <1>0, <2>1, LenProperties
  <2> QED BY <2>1, <2>2
<1>10. CASE Wal!MarkCleanShutdown
  <2>1. phase = "up" /\ phase' = "exitSave" /\ (wal' = wal \/ wal' = Append(wal, Wal!Marker(sequence)))
    BY <1>10 DEF Wal!MarkCleanShutdown
  <2>2. Wal!Marker(sequence) \in Wal!Records
    BY RecordTypes, TypeParts DEF WalBasics, WalShapes
  <2>3. CASE wal' = wal
    BY <1>1, <2>3
  <2>4. CASE wal' = Append(wal, Wal!Marker(sequence))
    BY <1>9, <2>1, <2>2, <2>4 DEF NewRecord
  <2> QED BY <2>1, <2>3, <2>4
<1>11. CASE Wal!CrashInMark
  <2>1. phase = "up" /\ phase' = "down" /\ prev'.exit = "crash" /\ wal' = Append(wal, Wal!Torn)
    BY <1>11 DEF Wal!CrashInMark, Wal!GoDown
  <2>2. Wal!Torn \in Wal!Records
    BY BoundsAssumption DEF Wal!Torn, Wal!Records
  <2> QED BY <1>9, <2>1, <2>2 DEF NewRecord
<1>12. CASE Wal!Start \/ Wal!Replay \/ Wal!SaveFails \/ Wal!SaveOpen \/ Wal!SaveWrite \/ Wal!SkipCleanShutdown
            \/ Wal!Crash \/ (\E t \in Threads : Wal!TakeSequence(t)) \/ UNCHANGED Wal!vars
  <2>1. wal' = wal
    BY <1>12 DEF Wal!Start, Wal!Replay, Wal!SaveFails, Wal!SaveOpen, Wal!SaveWrite, Wal!SkipCleanShutdown,
                 Wal!Crash, Wal!TakeSequence, Wal!vars
  <2> QED BY <1>1, <2>1
<1> HIDE DEF Goal
<1> QED BY <1>5, <1>6, <1>7, <1>8, <1>10, <1>11, <1>12 DEF Wal!Next

\* What a step adds is an event of this session, its marker, or a torn record at the end.
LEMMA NewRecordFacts ==
  ASSUME WalBasics, NEW i, NewRecord(i)
  PROVE  \/ /\ wal'[i].type = "event" /\ wal'[i].session = session
            /\ wal'[i].seq \in Nat /\ wal'[i].seq < sequence
            /\ phase = "up" \/ \E j \in DOMAIN writeBuffer : wal'[i] = writeBuffer[j]
         \/ /\ wal'[i].type = "marker" /\ wal'[i].session = session /\ wal'[i].seq = sequence
            /\ phase = "up" /\ phase' = "exitSave"
         \/ /\ wal'[i].type = "torn" /\ wal'[i].session = 0
            /\ phase' = "down" /\ prev'.exit = "crash" /\ i = Len(wal')
<1>1. sequence \in 0 .. MaxWrites + 1 /\ MaxWrites \in Nat
  BY TypeParts, BoundsAssumption DEF WalBasics, WalShapes
<1>2. ASSUME NEW j \in DOMAIN writeBuffer
      PROVE  /\ writeBuffer[j].type = "event" /\ writeBuffer[j].session = session
             /\ writeBuffer[j].seq \in Nat /\ writeBuffer[j].seq < sequence
  BY BufferFacts DEF Wal!Event
<1>3. ASSUME NEW t \in Threads, writer[t] # Wal!NoSeq
      PROVE  /\ Wal!Event(writer[t]).type = "event" /\ Wal!Event(writer[t]).session = session
             /\ Wal!Event(writer[t]).seq \in Nat /\ Wal!Event(writer[t]).seq < sequence
  <2>1. writer[t] \in 0 .. MaxWrites /\ writer[t] < sequence
    BY <1>3, BatchFacts
  <2>2. writer[t] \in Nat
    BY <1>1, <2>1
  <2> QED BY <2>1, <2>2 DEF Wal!Event
<1> QED BY <1>2, <1>3 DEF NewRecord, Wal!Marker, Wal!Torn

\* What steps other than the start and the truncation leave alone.
LEMMA SessionKept ==
  ASSUME [Wal!Next]_(Wal!vars), ~Wal!Start, ~Wal!Truncate
  PROVE  /\ UNCHANGED <<session, recovered, carried>>
         /\ phase' \in Startup => phase \in Startup
         /\ phase' \in {"replay", "truncate"} => pending' = pending /\ phase \in {"replay", "truncate"}
         /\ phase' # "down" => prev' = prev /\ verdict' = verdict /\ phase # "down"
         /\ phase' = "down" /\ phase # "down" => \E exit \in {"clean", "crash"} : Wal!GoDown(exit)
         /\ phase = "down" => UNCHANGED <<wal, phase, prev>>
<1> USE DEF Wal!mem, Wal!hist, Startup
<1>1. CASE Wal!Replay \/ Wal!SaveFails \/ Wal!SaveOpen \/ Wal!SaveWrite \/ Wal!MarkCleanShutdown
           \/ Wal!SkipCleanShutdown \/ UNCHANGED Wal!vars
  BY <1>1 DEF Wal!Replay, Wal!SaveFails, Wal!SaveOpen, Wal!SaveWrite, Wal!MarkCleanShutdown,
              Wal!SkipCleanShutdown, Wal!vars
<1>2. CASE \E t \in Threads : Wal!TakeSequence(t) \/ Wal!BufferEntry(t)
  BY <1>2 DEF Wal!TakeSequence, Wal!BufferEntry
<1>3. ASSUME NEW exit \in {"clean", "crash"}, Wal!GoDown(exit), phase # "down"
      PROVE  /\ UNCHANGED <<session, recovered, carried>> /\ phase' = "down"
  BY <1>3 DEF Wal!GoDown
<1>4. CASE Wal!Close \/ Wal!Crash \/ Wal!CrashInMark \/ Wal!CrashInClose
           \/ \E t \in Threads : Wal!CrashInWrite(t)
  <2>1. phase # "down" /\ \E exit \in {"clean", "crash"} : Wal!GoDown(exit)
    BY <1>4 DEF Wal!Close, Wal!Crash, Wal!CrashInMark, Wal!CrashInClose, Wal!CrashInWrite,
                Wal!CrashInFlush
  <2> QED BY <1>3, <2>1
<1> QED BY <1>1, <1>2, <1>4 DEF Wal!Next

\* Every step keeps what was recovered apart from what is in the log.
LEMMA RecoveryInductive == WalBasics /\ RecoveryInv /\ [Wal!Next]_(Wal!vars) => RecoveryInv'
<1> SUFFICES ASSUME WalBasics, RecoveryInv, [Wal!Next]_(Wal!vars) PROVE RecoveryInv'
  OBVIOUS
<1> USE DEF Wal!mem, Wal!hist
<1>0. /\ session \in Nat /\ wal \in Seq(Wal!Records) /\ pending \in Seq(Wal!Records)
      /\ \A i \in DOMAIN wal : wal[i].session \in Nat
      /\ \A e \in recovered.events : e.session \in Nat
  <2>1. session \in Nat /\ wal \in Seq(Wal!Records) /\ pending \in Seq(Wal!Records)
    BY TypeParts, BoundsAssumption DEF WalBasics, WalShapes
  <2>2. \A i \in DOMAIN wal : wal[i] \in Wal!Records
    BY <2>1
  <2>3. recovered.events \subseteq Wal!Records
    BY DEF WalBasics, WalHistory
  <2>4. \A e \in Wal!Records : e.session \in Nat
    BY BoundsAssumption DEF Wal!Records
  <2> QED BY <2>1, <2>2, <2>3, <2>4
<1>1. CASE Wal!Start
  <2>1. /\ phase' \in {"replay", "up"} /\ session' = session + 1 /\ UNCHANGED <<wal, recovered>>
        /\ \E n \in Wal!ValidReads, r \in Wal!Straddled : pending' = Wal!ReadWal(n, r)
    BY <1>1 DEF Wal!Start
  <2>2. \A i \in DOMAIN wal : wal[i].session < session'
    BY <1>0, <2>1 DEF RecoveryInv
  <2>3. \A e \in recovered'.events : e.session < session' /\ e.type = "event"
    BY <1>0, <2>1 DEF RecoveryInv
  <2>4. \A i \in DOMAIN pending' : pending'[i].type = "event" => pending'[i].session < session'
    <3>1. \A i \in DOMAIN pending' :
            i \in DOMAIN wal /\ (pending'[i] = wal[i] \/ pending'[i] \in Wal!Straddled)
      BY <1>0, <2>1, ReadWalFacts
    <3> QED BY <2>2, <3>1 DEF Wal!Straddled
  <2>5. \A i \in DOMAIN wal' : wal'[i].session <= session'
    BY <1>0, <2>1, <2>2
  <2>6. RecoveredOnce'
    BY <2>1 DEF RecoveryInv, RecoveredOnce, Wal!RecoveredOnce, Wal!ToSet
  <2> QED BY <2>1, <2>2, <2>3, <2>4, <2>5, <2>6 DEF RecoveryInv
<1>2. CASE Wal!Truncate
  <2>1. /\ phase = "truncate" /\ phase' = "recoverSave" /\ wal' = << >> /\ session' = session
        /\ recovered'.events = recovered.events \cup {e \in Wal!ToSet(pending) : e.type = "event"}
    BY <1>2 DEF Wal!Truncate
  <2>2. DOMAIN wal' = {}
    BY <2>1
  <2>3. \A e \in recovered'.events : e.session < session' /\ e.type = "event"
    BY <2>1 DEF RecoveryInv, Wal!ToSet
  <2>4. RecoveredOnce'
    BY <2>2 DEF RecoveredOnce, Wal!RecoveredOnce, Wal!ToSet
  <2> QED BY <2>1, <2>2, <2>3, <2>4 DEF RecoveryInv
<1>3. CASE ~Wal!Start /\ ~Wal!Truncate
  <2>1. /\ session' = session /\ recovered' = recovered
        /\ phase' \in Startup => phase \in Startup
        /\ phase' \in {"replay", "truncate"} => pending' = pending /\ phase \in {"replay", "truncate"}
    BY <1>3, SessionKept
  <2>2. \A i \in DOMAIN wal' : \/ i \in DOMAIN wal /\ wal'[i] = wal[i]
                               \/ /\ NewRecord(i) /\ phase \notin Startup
                                  /\ wal'[i].session = session \/ (wal'[i].session = 0 /\ wal'[i].type = "torn")
    <3>1. ASSUME NEW i \in DOMAIN wal', i \notin DOMAIN wal
          PROVE  /\ NewRecord(i) /\ phase \notin Startup
                 /\ wal'[i].session = session \/ (wal'[i].session = 0 /\ wal'[i].type = "torn")
      <4>1. NewRecord(i)
        BY <1>3, <3>1, LogGrowth
      <4>2. phase \notin Startup
        BY <4>1 DEF NewRecord, Startup, Exiting
      <4> QED BY <4>1, <4>2, NewRecordFacts
    <3> QED BY <1>3, <3>1, LogGrowth
  <2>3. \A i \in DOMAIN wal' : wal'[i].session <= session'
    BY <1>0, <2>1, <2>2 DEF RecoveryInv
  <2>4. phase' \in Startup => \A i \in DOMAIN wal' : wal'[i].session < session'
    BY <2>1, <2>2 DEF RecoveryInv
  <2>5. ASSUME NEW i \in DOMAIN wal' PROVE wal'[i] \notin recovered.events
    <3>1. CASE i \in DOMAIN wal /\ wal'[i] = wal[i]
      BY <3>1 DEF RecoveryInv, RecoveredOnce, Wal!RecoveredOnce, Wal!ToSet
    <3>2. CASE wal'[i].session = session
      BY <1>0, <3>2 DEF RecoveryInv
    <3>3. CASE wal'[i].type = "torn"
      BY <3>3 DEF RecoveryInv
    <3> QED BY <2>2, <3>1, <3>2, <3>3
  <2>6. RecoveredOnce'
    BY <2>1, <2>5 DEF RecoveredOnce, Wal!RecoveredOnce, Wal!ToSet
  <2> QED BY <2>1, <2>3, <2>4, <2>6 DEF RecoveryInv
<1> QED BY <1>1, <1>2, <1>3

(***************************************************************************)
(* What a completed recovery has replayed never shows up in the log again, *)
(* for any number of sessions, kills and torn writes.                      *)
(***************************************************************************)
THEOREM RecoveryCorrect == WalSpec => []RecoveredOnce
<1>1. Wal!Init => RecoveryInv
  BY DEF Wal!Init, RecoveryInv, RecoveredOnce, Wal!RecoveredOnce, Wal!ToSet, Startup
<1>2. RecoveryInv => RecoveredOnce
  BY DEF RecoveryInv
<1> QED BY <1>1, <1>2, BasicsHold, RecoveryInductive, PTL DEF WalSpec, Wal!Spec

\* How often x occurs in a log.
Count(log, x) == Cardinality({i \in 1 .. Len(log) : log[i] = x})

\* Occurrences are counted by a natural number, nought exactly when there is none.
LEMMA CountFacts ==
  ASSUME NEW S, NEW log \in Seq(S), NEW x
  PROVE  /\ IsFiniteSet({i \in 1 .. Len(log) : log[i] = x}) /\ Count(log, x) \in Nat
         /\ Count(log, x) = 0 <=> \A i \in DOMAIN log : log[i] # x
<1> DEFINE A == {i \in 1 .. Len(log) : log[i] = x}
<1>1. Len(log) \in Nat /\ DOMAIN log = 1 .. Len(log)
  BY LenProperties
<1>2. IsFiniteSet(1 .. Len(log)) /\ A \subseteq 1 .. Len(log)
  BY <1>1, FS_Interval
<1>3. A = {} <=> \A i \in DOMAIN log : log[i] # x
  BY <1>1
<1> HIDE DEF A
<1>4. IsFiniteSet(A)
  BY <1>2, FS_Subset
<1>5. Cardinality(A) \in Nat /\ (Cardinality(A) = 0 <=> A = {})
  BY <1>4, FS_CardinalityType, FS_EmptySet
<1> QED BY <1>3, <1>4, <1>5 DEF A, Count

\* Occurrences in two logs put together.
LEMMA CountConcat ==
  ASSUME NEW S, NEW r \in Seq(S), NEW u \in Seq(S), NEW x
  PROVE  Count(r \o u, x) = Count(r, x) + Count(u, x)
<1> DEFINE A == {i \in 1 .. Len(r) : r[i] = x}
           B == {j \in 1 .. Len(u) : u[j] = x}
           C == {i \in 1 .. Len(r \o u) : (r \o u)[i] = x}
           D == {i \in C : i > Len(r)}
           f == [i \in D |-> i - Len(r)]
<1>1. /\ Len(r \o u) = Len(r) + Len(u) /\ Len(r) \in Nat /\ Len(u) \in Nat
      /\ DOMAIN r = 1 .. Len(r) /\ DOMAIN u = 1 .. Len(u) /\ DOMAIN (r \o u) = 1 .. Len(r) + Len(u)
      /\ \A i \in DOMAIN r : (r \o u)[i] = r[i]
      /\ \A j \in DOMAIN u : (r \o u)[Len(r) + j] = u[j]
  BY ConcatFacts
<1>2. C = A \cup D /\ A \cap D = {}
  <2>1. \A i \in C : i \in DOMAIN r \/ i > Len(r)
    BY <1>1
  <2>2. \A i \in A : i \in C /\ ~(i > Len(r))
    BY <1>1
  <2>3. \A i \in C : i \in DOMAIN r => i \in A
    BY <1>1
  <2> QED BY <2>1, <2>2, <2>3
<1>3. f \in Bijection(D, B)
  <2>1. \A i \in D : i - Len(r) \in B
    <3>1. ASSUME NEW i \in D PROVE i - Len(r) \in DOMAIN u /\ Len(r) + (i - Len(r)) = i
      BY <1>1
    <3> QED BY <1>1, <3>1
  <2>2. \A j \in B : Len(r) + j \in D /\ (Len(r) + j) - Len(r) = j
    BY <1>1
  <2>3. \A i, k \in D : i - Len(r) = k - Len(r) => i = k
    BY <1>1
  <2> HIDE DEF D, B
  <2>4. f \in [D -> B]
    BY <2>1
  <2>5. \A i, k \in D : f[i] = f[k] => i = k
    BY <2>3
  <2>6. \A j \in B : \E i \in D : f[i] = j
    BY <2>2
  <2> HIDE DEF f
  <2> QED BY <2>4, <2>5, <2>6 DEF Bijection, Injection, Surjection, IsInjective
<1>4. IsFiniteSet(A) /\ IsFiniteSet(B) /\ IsFiniteSet(C)
  <2>1. r \o u \in Seq(S)
    BY ConcatProperties
  <2> QED BY <2>1, CountFacts
<1> HIDE DEF A, B, C, f
<1>5. IsFiniteSet(D)
  BY <1>4, FS_Subset
<1> HIDE DEF D
<1>6. Cardinality(D) = Cardinality(B)
  <2>1. ExistsBijection(D, B)
    BY <1>3 DEF ExistsBijection
  <2> QED BY <1>5, <2>1, FS_Bijection
<1>7. Cardinality(C) = Cardinality(A) + Cardinality(D) - Cardinality({})
  BY <1>2, <1>4, <1>5, FS_Union
<1>8. Cardinality({}) = 0 /\ Cardinality(A) \in Nat /\ Cardinality(D) \in Nat
  BY <1>4, <1>5, FS_EmptySet, FS_CardinalityType
<1>9. Cardinality(C) = Cardinality(A) + Cardinality(B)
  BY <1>6, <1>7, <1>8
<1>10. Count(r \o u, x) = Cardinality(C) /\ Count(r, x) = Cardinality(A) /\ Count(u, x) = Cardinality(B)
  BY Zenon DEF Count, A, B, C
<1> QED BY <1>9, <1>10

LEMMA CountAppend ==
  ASSUME NEW S, NEW r \in Seq(S), NEW e \in S, NEW x
  PROVE  Count(Append(r, e), x) = Count(r, x) + IF e = x THEN 1 ELSE 0
<1>1. Append(r, e) = r \o <<e>> /\ <<e>> \in Seq(S)
  BY AppendIsConcat
<1>2. Count(<<e>>, x) = IF e = x THEN 1 ELSE 0
  <2>1. CASE e = x
    <3>1. {i \in 1 .. Len(<<e>>) : <<e>>[i] = x} = {1}
      BY <2>1
    <3> QED BY <2>1, <3>1, FS_Singleton DEF Count
  <2>2. CASE e # x
    <3>1. {i \in 1 .. Len(<<e>>) : <<e>>[i] = x} = {}
      BY <2>2
    <3> QED BY <2>2, <3>1, FS_EmptySet DEF Count
  <2> QED BY <2>1, <2>2
<1>3. Count(r \o <<e>>, x) = Count(r, x) + Count(<<e>>, x)
  BY <1>1, CountConcat
<1> QED BY <1>1, <1>2, <1>3

Holders(n) == {t \in Threads : writer[t] = n}

\* PlacesOf, by what is counted in the log and in the buffer.
LEMMA PlacesSum ==
  ASSUME NEW n
  PROVE  /\ Wal!PlacesOf(n) = Count(wal, Wal!Event(n)) + Count(writeBuffer, Wal!Event(n))
                                + Cardinality(Holders(n)) + (IF n \in dropped THEN 1 ELSE 0)
         /\ Wal!PlacesOf(n)' = Count(wal', Wal!Event(n)') + Count(writeBuffer', Wal!Event(n)')
                                 + Cardinality(Holders(n)') + (IF n \in dropped' THEN 1 ELSE 0)
<1>1. /\ Wal!PlacesOf(n) =
           Wal!Cardinality({i \in 1 .. Len(wal) : wal[i] = Wal!Event(n)})
             + Wal!Cardinality({i \in 1 .. Len(writeBuffer) : writeBuffer[i] = Wal!Event(n)})
             + Wal!Cardinality({t \in Threads : writer[t] = n}) + (IF n \in dropped THEN 1 ELSE 0)
      /\ Wal!PlacesOf(n)' =
           Wal!Cardinality({i \in 1 .. Len(wal') : wal'[i] = Wal!Event(n)'})
             + Wal!Cardinality({i \in 1 .. Len(writeBuffer') : writeBuffer'[i] = Wal!Event(n)'})
             + Wal!Cardinality({t \in Threads : writer'[t] = n}) + (IF n \in dropped' THEN 1 ELSE 0)
  BY Zenon DEF Wal!PlacesOf
<1> QED BY <1>1, WalCardinality, Zenon DEF Count, Holders

\* A session that has not recorded yet has nothing anywhere.
LEMMA NoPlaces ==
  ASSUME NEW n, wal' \in Seq(Wal!Records), \A i \in DOMAIN wal' : wal'[i].session # session',
         writeBuffer' = << >>, \A t \in Threads : writer'[t] # n, dropped' = {}
  PROVE  Wal!PlacesOf(n)' = 0
<1>1. \A i \in DOMAIN wal' : wal'[i] # Wal!Event(n)'
  BY DEF Wal!Event
<1>2. Count(wal', Wal!Event(n)') = 0
  BY <1>1, CountFacts
<1>3. Count(writeBuffer', Wal!Event(n)') = 0
  <2>1. writeBuffer' \in Seq(Wal!Records) /\ DOMAIN writeBuffer' = {}
    OBVIOUS
  <2> QED BY <2>1, CountFacts
<1>4. Holders(n)' = {}
  BY DEF Holders
<1>5. Cardinality(Holders(n)') = 0
  BY <1>4, FS_EmptySet
<1>6. n \notin dropped'
  OBVIOUS
<1> QED BY <1>2, <1>3, <1>5, <1>6, PlacesSum

\* The batch holds the numbers of the buffer and the one of the writer that adds to it.
LEMMA BatchCount ==
  ASSUME WalBasics, NEW t \in Threads, writer[t] # Wal!NoSeq, NEW n \in 0 .. MaxWrites
  PROVE  Count(Append(writeBuffer, Wal!Event(writer[t])), Wal!Event(n))
           = Count(writeBuffer, Wal!Event(n)) + IF writer[t] = n THEN 1 ELSE 0
<1>1. writer[t] \in 0 .. MaxWrites /\ MaxWrites \in Nat
  BY BatchFacts, BoundsAssumption
<1>2. writeBuffer \in Seq(Wal!Records)
  BY BufferFacts
<1>3. Wal!Event(writer[t]) \in Wal!Records
  BY <1>1, RecordTypes DEF WalBasics
<1>4. Wal!Event(writer[t]) = Wal!Event(n) <=> writer[t] = n
  <2>1. Wal!Event(writer[t]).seq = writer[t] /\ Wal!Event(n).seq = n
    BY DEF Wal!Event
  <2> QED BY <2>1
<1>5. Count(Append(writeBuffer, Wal!Event(writer[t])), Wal!Event(n))
        = Count(writeBuffer, Wal!Event(n)) + IF Wal!Event(writer[t]) = Wal!Event(n) THEN 1 ELSE 0
  BY <1>2, <1>3, CountAppend
<1> QED BY <1>4, <1>5

\* Taking a number gives it one place, the writer's.
LEMMA TakeKeepsPlaces ==
  ASSUME WalBasics, PlacesInv, NEW t \in Threads, Wal!TakeSequence(t), NEW n \in 0 .. MaxWrites
  PROVE  Wal!PlacesOf(n)' = IF n < sequence' THEN 1 ELSE 0
<1>1. /\ phase = "up" /\ writer[t] = Wal!NoSeq /\ sequence' = sequence + 1
      /\ writer' = [writer EXCEPT ![t] = sequence]
      /\ UNCHANGED <<wal, writeBuffer, dropped, session>>
  BY DEF Wal!TakeSequence, Wal!hist
<1>2. /\ writer \in [Threads -> 0 .. MaxWrites \cup {Wal!NoSeq}] /\ Wal!NoSeq = MaxWrites + 2
      /\ sequence \in Nat /\ MaxWrites \in Nat
      /\ wal \in Seq(Wal!Records) /\ writeBuffer \in Seq(Wal!Records)
  BY TypeParts, BoundsAssumption DEF WalBasics, WalShapes, Wal!NoSeq
<1>3. Wal!Event(n)' = Wal!Event(n)
  BY <1>1 DEF Wal!Event
<1>4. Wal!PlacesOf(n) = IF n < sequence THEN 1 ELSE 0
  BY <1>1 DEF PlacesInv
<1>5. IsFiniteSet(Holders(n))
  BY ThreadsAssumption, FS_Subset DEF Holders
<1>6. t \notin Holders(n)
  BY <1>1, <1>2 DEF Holders
<1>7. Count(wal, Wal!Event(n)) \in Nat /\ Count(writeBuffer, Wal!Event(n)) \in Nat
      /\ Cardinality(Holders(n)) \in Nat
  BY <1>2, <1>5, CountFacts, FS_CardinalityType
<1>8. CASE n = sequence
  <2>1. Holders(n)' = Holders(n) \cup {t}
    BY <1>1, <1>2, <1>8 DEF Holders
  <2>2. Cardinality(Holders(n)') = Cardinality(Holders(n)) + 1
    BY <1>5, <1>6, <2>1, FS_AddElement
  <2> QED BY <1>1, <1>2, <1>3, <1>4, <1>7, <1>8, <2>2, PlacesSum
<1>9. CASE n # sequence
  <2>1. Holders(n)' = Holders(n)
    BY <1>1, <1>2, <1>9 DEF Holders
  <2>2. n < sequence' <=> n < sequence
    BY <1>1, <1>2, <1>9
  <2> QED BY <1>1, <1>3, <1>4, <2>1, <2>2, PlacesSum
<1> QED BY <1>8, <1>9

\* An entry moves from its writer to the buffer, or with the batch to the log or away.
LEMMA BufferKeepsPlaces ==
  ASSUME WalBasics, PlacesInv, NEW t \in Threads, Wal!BufferEntry(t), NEW n \in 0 .. MaxWrites
  PROVE  Wal!PlacesOf(n)' = IF n < sequence' THEN 1 ELSE 0
<1>b. PICK batch : batch = Append(writeBuffer, Wal!Event(writer[t]))
  OBVIOUS
<1>1. /\ phase = "up" /\ writer[t] # Wal!NoSeq /\ writer' = [writer EXCEPT ![t] = Wal!NoSeq]
      /\ UNCHANGED <<sequence, session>>
      /\ IF Len(batch) >= Batch THEN Wal!FlushBatch(batch)
         ELSE writeBuffer' = batch /\ UNCHANGED <<wal, dropped>>
  BY <1>b DEF Wal!BufferEntry
<1>2. /\ writer \in [Threads -> 0 .. MaxWrites \cup {Wal!NoSeq}] /\ Wal!NoSeq = MaxWrites + 2
      /\ sequence \in Nat /\ MaxWrites \in Nat
      /\ wal \in Seq(Wal!Records) /\ writeBuffer \in Seq(Wal!Records)
  BY TypeParts, BoundsAssumption DEF WalBasics, WalShapes, Wal!NoSeq
<1>3. Wal!Event(n)' = Wal!Event(n)
  BY <1>1 DEF Wal!Event
<1>4. Wal!PlacesOf(n) = IF n < sequence THEN 1 ELSE 0
  BY <1>1 DEF PlacesInv
<1>5. /\ batch \in Seq(Wal!Records)
      /\ \A i \in DOMAIN batch : batch[i] = Wal!Event(batch[i].seq) /\ batch[i].seq < sequence
  BY <1>b, <1>1, BatchFacts
<1>6. PICK w, b, c, h, k : /\ w = Count(wal, Wal!Event(n)) /\ b = Count(writeBuffer, Wal!Event(n))
                           /\ c = Count(batch, Wal!Event(n)) /\ h = Cardinality(Holders(n))
                           /\ k = Cardinality(Holders(n)')
  OBVIOUS
<1>7. IsFiniteSet(Holders(n)) /\ IsFiniteSet(Holders(n)')
  BY ThreadsAssumption, FS_Subset DEF Holders
<1>8. w \in Nat /\ b \in Nat /\ c \in Nat /\ h \in Nat /\ k \in Nat
  BY <1>2, <1>5, <1>6, <1>7, CountFacts, FS_CardinalityType
<1>9. c + k = b + h
  <2>1. c = b + IF writer[t] = n THEN 1 ELSE 0
    BY <1>b, <1>1, <1>6, BatchCount
  <2>2. CASE writer[t] = n
    <3>1. Holders(n)' = Holders(n) \ {t} /\ t \in Holders(n)
      BY <1>1, <1>2, <2>2 DEF Holders
    <3>2. k = h - 1
      BY <1>6, <1>7, <3>1, FS_RemoveElement
    <3> QED BY <1>8, <2>1, <2>2, <3>2
  <2>3. CASE writer[t] # n
    <3>1. Holders(n)' = Holders(n)
      BY <1>1, <1>2, <2>3 DEF Holders
    <3> QED BY <1>6, <1>8, <2>1, <2>3, <3>1
  <2> QED BY <2>2, <2>3
<1>10. /\ Wal!PlacesOf(n) = w + b + h + (IF n \in dropped THEN 1 ELSE 0)
       /\ Wal!PlacesOf(n)' = Count(wal', Wal!Event(n)) + Count(writeBuffer', Wal!Event(n)) + k
                               + (IF n \in dropped' THEN 1 ELSE 0)
  BY <1>3, <1>6, PlacesSum
<1>11. CASE writeBuffer' = batch /\ wal' = wal /\ dropped' = dropped
  <2>1. Wal!PlacesOf(n)' = w + c + k + (IF n \in dropped THEN 1 ELSE 0)
    BY <1>6, <1>10, <1>11
  <2> QED BY <1>1, <1>4, <1>8, <1>9, <1>10, <2>1
<1>12. ASSUME Wal!FlushBatch(batch) PROVE Wal!PlacesOf(n)' = IF n < sequence' THEN 1 ELSE 0
  <2>1. writeBuffer' = << >>
    BY <1>12 DEF Wal!FlushBatch
  <2>2. Count(writeBuffer', Wal!Event(n)) = 0
    <3>1. writeBuffer' \in Seq(Wal!Records) /\ DOMAIN writeBuffer' = {}
      BY <2>1
    <3> QED BY <3>1, CountFacts
  <2>3. CASE wal' = wal \o batch /\ dropped' = dropped
    <3>1. Count(wal', Wal!Event(n)) = w + c
      BY <1>2, <1>5, <1>6, <2>3, CountConcat
    <3> QED BY <1>1, <1>4, <1>8, <1>9, <1>10, <2>2, <2>3, <3>1
  <2>4. CASE wal' = wal /\ dropped' = dropped \cup {e.seq : e \in Wal!ToSet(batch)}
    <3>1. n \in {e.seq : e \in Wal!ToSet(batch)} <=> c # 0
      <4>1. \A i \in DOMAIN batch : batch[i].seq = n <=> batch[i] = Wal!Event(n)
        <5>1. Wal!Event(n).seq = n
          BY DEF Wal!Event
        <5> QED BY <1>5, <5>1
      <4>2. c = 0 <=> \A i \in DOMAIN batch : batch[i] # Wal!Event(n)
        BY <1>5, <1>6, CountFacts
      <4> QED BY <4>1, <4>2 DEF Wal!ToSet
    <3>2. c # 0 => n < sequence
      <4>1. Wal!Event(n).seq = n
        BY DEF Wal!Event
      <4>2. c = 0 <=> \A i \in DOMAIN batch : batch[i] # Wal!Event(n)
        BY <1>5, <1>6, CountFacts
      <4> QED BY <1>5, <4>1, <4>2
    <3>3. Wal!PlacesOf(n)' = w + k + (IF n \in dropped' THEN 1 ELSE 0)
      BY <1>6, <1>8, <1>10, <2>2, <2>4
    <3>4. CASE c = 0
      <4>1. n \in dropped' <=> n \in dropped
        BY <2>4, <3>1, <3>4
      <4> QED BY <1>1, <1>4, <1>8, <1>9, <1>10, <3>3, <3>4, <4>1
    <3>5. CASE c # 0
      <4>1. n \in dropped'
        BY <2>4, <3>1, <3>5
      <4>2. w + b + h + (IF n \in dropped THEN 1 ELSE 0) = 1
        BY <1>4, <1>10, <3>2, <3>5
      <4>3. w = 0 /\ k = 0
        BY <1>8, <1>9, <3>5, <4>2
      <4> QED BY <1>1, <1>2, <3>2, <3>3, <3>5, <4>1, <4>3
    <3> QED BY <3>4, <3>5
  <2> QED BY <1>12, <2>3, <2>4 DEF Wal!FlushBatch
<1> QED BY <1>1, <1>11, <1>12

\* Every step keeps each number that was handed out in one place.
LEMMA PlacesInductive ==
  WalBasics /\ RecoveryInv /\ PlacesInv /\ [Wal!Next]_(Wal!vars) => PlacesInv'
<1> SUFFICES ASSUME WalBasics, RecoveryInv, PlacesInv, [Wal!Next]_(Wal!vars) PROVE PlacesInv'
  OBVIOUS
<1> USE DEF Wal!mem, Wal!hist, Startup, Exiting
<1>0. /\ wal \in Seq(Wal!Records) /\ session \in Nat /\ Wal!NoSeq = MaxWrites + 2 /\ MaxWrites \in Nat
      /\ \A i \in DOMAIN wal : wal[i].session \in Nat
  <2>1. wal \in Seq(Wal!Records) /\ session \in Nat /\ Wal!NoSeq = MaxWrites + 2 /\ MaxWrites \in Nat
    BY TypeParts, BoundsAssumption DEF WalBasics, WalShapes, Wal!NoSeq
  <2>2. \A i \in DOMAIN wal : wal[i] \in Wal!Records
    BY <2>1
  <2> QED BY <2>1, <2>2, BoundsAssumption DEF Wal!Records
\* The two ways to begin to record: with the log as it is, or after a recovery.
<1>1. ASSUME phase \in Startup \cup {"down"}, phase' = "up", wal' = wal, dropped' = {},
             UNCHANGED <<sequence, writeBuffer, writer>>, \A i \in DOMAIN wal : wal[i].session # session'
      PROVE  PlacesInv'
  <2>1. sequence = 0 /\ writeBuffer = << >> /\ \A t \in Threads : writer[t] = Wal!NoSeq
    BY <1>1 DEF WalBasics, NothingHeld, HeldWereTaken
  <2>2. ASSUME NEW n \in 0 .. MaxWrites PROVE Wal!PlacesOf(n)' = 0
    <3>1. \A t \in Threads : writer'[t] # n
      BY <1>0, <1>1, <2>1
    <3>2. wal' \in Seq(Wal!Records) /\ \A i \in DOMAIN wal' : wal'[i].session # session'
      BY <1>0, <1>1
    <3> QED BY <1>1, <2>1, <3>1, <3>2, NoPlaces
  <2>3. \A n \in 0 .. MaxWrites : ~(n < sequence')
    BY <1>1, <2>1
  <2> QED BY <1>1, <2>2, <2>3 DEF PlacesInv
<1>2. CASE Wal!Start
  <2>1. /\ phase = "down" /\ session' = session + 1 /\ dropped' = {} /\ phase' \in {"replay", "up"}
        /\ UNCHANGED <<wal, sequence, writeBuffer, writer>>
    BY <1>2 DEF Wal!Start
  <2>2. \A i \in DOMAIN wal : wal[i].session # session'
    BY <1>0, <2>1 DEF RecoveryInv
  <2>3. CASE phase' = "up"
    BY <1>1, <2>1, <2>2, <2>3
  <2>4. CASE phase' = "replay"
    BY <2>1, <2>4 DEF PlacesInv
  <2> QED BY <2>1, <2>3, <2>4
<1>3. CASE Wal!SaveFails \/ Wal!SaveWrite
  <2>1. /\ UNCHANGED <<wal, sequence, writeBuffer, writer, session, dropped>>
        /\ \/ phase \in {"recoverSave", "recoverWrite"} /\ phase' = "up"
           \/ phase \in {"exitSave", "exitWrite"} /\ phase' = "closing"
    BY <1>3 DEF Wal!SaveFails, Wal!SaveWrite
  <2>2. CASE phase \in {"recoverSave", "recoverWrite"}
    <3>1. dropped = {} /\ \A i \in DOMAIN wal : wal[i].session # session'
      BY <1>0, <2>1, <2>2 DEF PlacesInv, RecoveryInv
    <3> QED BY <1>1, <2>1, <2>2, <3>1
  <2>3. CASE phase \in {"exitSave", "exitWrite"}
    BY <2>1, <2>3 DEF PlacesInv
  <2> QED BY <2>1, <2>2, <2>3
<1>4. ASSUME NEW t \in Threads, Wal!TakeSequence(t) PROVE PlacesInv'
  <2>1. phase' = "up"
    BY <1>4 DEF Wal!TakeSequence
  <2> QED BY <1>4, <2>1, TakeKeepsPlaces DEF PlacesInv
<1>5. ASSUME NEW t \in Threads, Wal!BufferEntry(t) PROVE PlacesInv'
  <2>1. phase' = "up"
    BY <1>5 DEF Wal!BufferEntry
  <2> QED BY <1>5, <2>1, BufferKeepsPlaces DEF PlacesInv
<1>6. CASE Wal!Replay \/ Wal!Truncate \/ Wal!SaveOpen
  <2>1. dropped' = dropped /\ phase' # "up" /\ (phase' \in Startup => phase \in Startup)
    BY <1>6 DEF Wal!Replay, Wal!Truncate, Wal!SaveOpen
  <2> QED BY <2>1 DEF PlacesInv
<1>7. CASE Wal!MarkCleanShutdown \/ Wal!SkipCleanShutdown \/ Wal!Close \/ Wal!Crash
           \/ Wal!CrashInClose \/ Wal!CrashInMark \/ \E t \in Threads : Wal!CrashInWrite(t)
  <2>1. phase' \notin Startup \cup {"up"}
    BY <1>7 DEF Wal!MarkCleanShutdown, Wal!SkipCleanShutdown, Wal!Close, Wal!Crash, Wal!CrashInClose,
                Wal!CrashInMark, Wal!CrashInWrite, Wal!CrashInFlush, Wal!GoDown
  <2> QED BY <2>1 DEF PlacesInv
<1>8. CASE UNCHANGED Wal!vars
  <2>1. UNCHANGED <<wal, writeBuffer, writer, dropped, session, phase, sequence>>
    BY <1>8 DEF Wal!vars
  <2>2. \A n : Wal!PlacesOf(n)' = Wal!PlacesOf(n)
    BY <2>1, Zenon DEF Wal!PlacesOf, Wal!Event
  <2> QED BY <2>1, <2>2 DEF PlacesInv
<1> QED BY <1>2, <1>3, <1>4, <1>5, <1>6, <1>7, <1>8 DEF Wal!Next

\* Each number that was handed out is in one place, and the recovery is behind.
LEMMA PlacesHold == WalSpec => [](WalBasics /\ RecoveryInv /\ PlacesInv)
<1>1. Wal!Init => RecoveryInv /\ PlacesInv
  BY DEF Wal!Init, RecoveryInv, PlacesInv, RecoveredOnce, Wal!RecoveredOnce, Wal!ToSet, Startup
<1> QED BY <1>1, BasicsHold, RecoveryInductive, PlacesInductive, PTL DEF WalSpec, Wal!Spec

(***************************************************************************)
(* While the layer runs, every sequence number handed out is in exactly    *)
(* one place: no entry is lost or written twice, for any number of threads *)
(* inside write and any flush that cannot open the file.                   *)
(***************************************************************************)
THEOREM EntriesCorrect == WalSpec => []EntriesAccountedFor
<1>1. WalBasics /\ PlacesInv => EntriesAccountedFor
  <2> SUFFICES ASSUME WalBasics, PlacesInv, phase = "up", NEW n \in 0 .. sequence - 1
               PROVE  Wal!PlacesOf(n) = 1
    BY DEF EntriesAccountedFor, Wal!EntriesAccountedFor
  <2>1. sequence \in Nat /\ sequence <= MaxWrites /\ MaxWrites \in Nat
    BY TypeParts, BoundsAssumption DEF WalBasics, WalShapes, HeldWereTaken, Exiting
  <2> QED BY <2>1 DEF PlacesInv
<1> QED BY <1>1, PlacesHold, PTL

\* A union holds at most what its two parts hold together.
LEMMA UnionAtMost ==
  ASSUME NEW S, IsFiniteSet(S), NEW T, IsFiniteSet(T)
  PROVE  IsFiniteSet(S \cup T) /\ Cardinality(S \cup T) <= Cardinality(S) + Cardinality(T)
<1>1. IsFiniteSet(S \cap T)
  BY FS_Intersection
<1>2. Cardinality(S \cap T) \in Nat /\ Cardinality(S) \in Nat /\ Cardinality(T) \in Nat
  BY <1>1, FS_CardinalityType
<1>3. IsFiniteSet(S \cup T) /\ Cardinality(S \cup T) = Cardinality(S) + Cardinality(T) - Cardinality(S \cap T)
  BY FS_Union
<1> QED BY <1>2, <1>3

\* The first n naturals, from nought and from one.
LEMMA UpTo ==
  ASSUME NEW n \in Nat
  PROVE  /\ IsFiniteSet(0 .. n - 1) /\ Cardinality(0 .. n - 1) = n
         /\ IsFiniteSet(1 .. n) /\ Cardinality(1 .. n) = n
<1>1. 0 \in Int /\ 1 \in Int /\ n \in Int /\ n - 1 \in Int
  OBVIOUS
<1>2. /\ IsFiniteSet(0 .. n - 1)
      /\ Cardinality(0 .. n - 1) = IF 0 > n - 1 THEN 0 ELSE (n - 1) - 0 + 1
  BY <1>1, FS_Interval
<1>3. IsFiniteSet(1 .. n) /\ Cardinality(1 .. n) = IF 1 > n THEN 0 ELSE n - 1 + 1
  BY <1>1, FS_Interval
<1> QED BY <1>2, <1>3

\* The numbers that the buffer, the threads and the log hold cover those handed out.
LEMMA LossBound ==
  ASSUME WalBasics, PlacesInv, [Wal!Next]_(Wal!vars), phase = "up", phase' = "down", dropped = {}
  PROVE  sequence <= prev'.left + (Batch - 1) + Cardinality(Wal!Carrying)
<1> DEFINE R == Wal!RecordsOf(wal', session, "event")
           seqOf == [e \in R |-> e.seq]
           bufOf == [i \in 1 .. Len(writeBuffer) |-> writeBuffer[i].seq]
           A == {seqOf[e] : e \in R}
           B == {bufOf[i] : i \in 1 .. Len(writeBuffer)}
           C == {writer[t] : t \in Wal!Carrying}
           D == 0 .. sequence - 1
<1>1. /\ sequence \in Nat /\ sequence <= MaxWrites /\ MaxWrites \in Nat
      /\ wal \in Seq(Wal!Records) /\ writeBuffer \in Seq(Wal!Records) /\ Len(writeBuffer) < Batch
      /\ Batch \in Nat /\ Len(writeBuffer) \in Nat
      /\ DOMAIN writeBuffer = 1 .. Len(writeBuffer) /\ DOMAIN wal = 1 .. Len(wal)
  BY TypeParts, BoundsAssumption, BatchAssumption, LenProperties
  DEF WalBasics, WalShapes, HeldWereTaken, Exiting
<1>2. wal' \in Seq(Wal!Records)
  BY BasicsInductive, TypeParts DEF WalBasics, WalShapes
<1>3. ~Wal!Truncate /\ ~Wal!Start
  BY DEF Wal!Truncate, Wal!Start
<1>4. prev'.left = Cardinality(R)
  <2>1. \E exit \in {"clean", "crash"} : Wal!GoDown(exit)
    BY <1>3, SessionKept
  <2> QED BY <2>1, WalCardinality DEF Wal!GoDown
<1>5. D \subseteq A \cup B \cup C
  <2> SUFFICES ASSUME NEW n \in D, n \notin B, n \notin C PROVE n \in A
    OBVIOUS
  <2>1. n \in 0 .. MaxWrites /\ Wal!PlacesOf(n) = 1
    BY <1>1 DEF PlacesInv
  <2>2. Wal!Event(n) = [session |-> session, seq |-> n, type |-> "event"]
    BY DEF Wal!Event
  <2>3. Count(writeBuffer, Wal!Event(n)) = 0
    <3>1. \A i \in DOMAIN writeBuffer : writeBuffer[i] # Wal!Event(n)
      BY <1>1, <2>2
    <3> QED BY <1>1, <3>1, CountFacts
  <2>4. Cardinality(Holders(n)) = 0
    <3>1. n # Wal!NoSeq
      BY <1>1 DEF Wal!NoSeq
    <3>2. Holders(n) = {}
      BY <3>1 DEF Holders, Wal!Carrying
    <3> QED BY <3>2, FS_EmptySet
  <2>5. Count(wal, Wal!Event(n)) # 0
    <3>1. Count(wal, Wal!Event(n)) \in Nat /\ n \notin dropped
      BY <1>1, CountFacts
    <3> QED BY <2>1, <2>3, <2>4, <3>1, PlacesSum
  <2>6. PICK i \in DOMAIN wal : wal[i] = Wal!Event(n)
    BY <1>1, <2>5, CountFacts
  <2>7. i \in DOMAIN wal' /\ wal'[i] = Wal!Event(n)
    BY <1>3, <2>6, LogGrowth
  <2>8. Wal!Event(n) \in R
    BY <2>2, <2>7 DEF Wal!RecordsOf, Wal!ToSet
  <2> HIDE DEF R
  <2> QED BY <2>2, <2>8
<1>6. IsFiniteSet(R)
  BY <1>2, RecordsFinite
<1> HIDE DEF R
<1>7. IsFiniteSet(A) /\ Cardinality(A) <= Cardinality(R)
  BY <1>6, ValuesFinite
<1>8. IsFiniteSet(B) /\ Cardinality(B) <= Len(writeBuffer)
  <2>1. IsFiniteSet(1 .. Len(writeBuffer)) /\ Cardinality(1 .. Len(writeBuffer)) = Len(writeBuffer)
    BY <1>1, UpTo
  <2> QED BY <2>1, ValuesFinite
<1>9. /\ IsFiniteSet(Wal!Carrying)
      /\ IsFiniteSet(C) /\ Cardinality(C) <= Cardinality(Wal!Carrying)
  <2>1. IsFiniteSet(Wal!Carrying)
    BY ThreadsAssumption, FS_Subset DEF Wal!Carrying
  <2> QED BY <2>1, ValuesFinite
<1>10. IsFiniteSet(D) /\ Cardinality(D) = sequence
  BY <1>1, UpTo
<1> HIDE DEF A, B, C, D
<1>11. /\ IsFiniteSet(A \cup B) /\ Cardinality(A \cup B) <= Cardinality(A) + Cardinality(B)
  BY <1>7, <1>8, UnionAtMost
<1>12. /\ IsFiniteSet(A \cup B \cup C)
       /\ Cardinality(A \cup B \cup C) <= Cardinality(A \cup B) + Cardinality(C)
  BY <1>9, <1>11, UnionAtMost
<1>13. Cardinality(D) <= Cardinality(A \cup B \cup C)
  BY <1>5, <1>12, FS_Subset
<1>14. /\ Cardinality(A) \in Nat /\ Cardinality(B) \in Nat /\ Cardinality(C) \in Nat
       /\ Cardinality(R) \in Nat /\ Cardinality(Wal!Carrying) \in Nat
       /\ Cardinality(A \cup B) \in Nat /\ Cardinality(A \cup B \cup C) \in Nat
  BY <1>6, <1>7, <1>8, <1>9, <1>11, <1>12, FS_CardinalityType
<1> QED BY <1>1, <1>4, <1>7, <1>8, <1>9, <1>10, <1>11, <1>12, <1>13, <1>14

(***************************************************************************)
(* A kill costs a session at most an unfinished batch and one entry for    *)
(* each thread inside write, for any batch size and any number of threads. *)
(***************************************************************************)
THEOREM LossCorrect == WalSpec => LossBounded
<1>1. WalBasics /\ PlacesInv /\ [Wal!Next]_(Wal!vars)
        => [phase = "up" /\ phase' = "down" /\ dropped = {} =>
              sequence <= prev'.left + (Batch - 1) + Wal!Cardinality(Wal!Carrying)]_(Wal!vars)
  BY LossBound, WalCardinality
<1> QED BY <1>1, PlacesHold, PTL DEF WalSpec, Wal!Spec, LossBounded, Wal!LossBounded

\* The sequence numbers of a log are bounded naturals.
LEMMA MaxSeqFacts ==
  ASSUME NEW log \in Seq(Wal!Records)
  PROVE  /\ Wal!MaxSeq(log) \in Nat
         /\ \A i \in DOMAIN log : log[i].seq \in Nat /\ log[i].seq <= Wal!MaxSeq(log)
         /\ Wal!MaxSeq(log) = 0 \/ \E i \in DOMAIN log : log[i].seq = Wal!MaxSeq(log)
<1> DEFINE S == {0} \cup {e.seq : e \in Wal!ToSet(log)}
<1>1. \A i \in DOMAIN log : log[i] \in Wal!Records
  OBVIOUS
<1>2. MaxWrites + 1 \in Nat /\ \A i \in DOMAIN log : log[i].seq \in Nat /\ log[i].seq <= MaxWrites + 1
  BY <1>1, BoundsAssumption DEF Wal!Records
<1>3. \A x : x \in S <=> x = 0 \/ \E i \in DOMAIN log : x = log[i].seq
  BY DEF Wal!ToSet
<1>4. Wal!MaxSeq(log) = Wal!Max(S)
  BY Zenon DEF Wal!MaxSeq
<1> HIDE DEF S
<1>5. S \in SUBSET Nat /\ S # {} /\ \A x \in S : x <= MaxWrites + 1
  <2>1. ASSUME NEW x \in S PROVE x \in Nat /\ x <= MaxWrites + 1
    <3>1. CASE x = 0
      BY <1>2, <3>1
    <3>2. CASE \E i \in DOMAIN log : x = log[i].seq
      BY <1>2, <3>2
    <3> QED BY <1>3, <2>1, <3>1, <3>2, Zenon
  <2>2. S # {}
    BY <1>3, Zenon
  <2> QED BY <2>1, <2>2
<1>6. Wal!Max(S) \in S /\ \A y \in S : Wal!Max(S) >= y
  BY <1>2, <1>5, GreatestElement
<1> QED BY <1>2, <1>3, <1>4, <1>5, <1>6

\* A log that a marker ends above every event looks like a clean shutdown.
LEMMA MarkedLooksClean ==
  ASSUME wal \in Seq(Wal!Records), MarkedLog(wal), NEW n \in Wal!ValidReads, NEW r \in Wal!Straddled
  PROVE  Wal!LooksClean(Wal!ReadWal(n, r))
<1>1. Wal!ReadWal(n, r) = wal
  <2>1. Wal!TornAt = {}
    BY DEF MarkedLog, Wal!TornAt
  <2> QED BY <2>1 DEF Wal!ReadWal
<1> DEFINE markers == {i \in DOMAIN wal : wal[i].type = "marker"}
<1>2. DOMAIN wal = 1 .. Len(wal) /\ Len(wal) \in Nat
  BY LenProperties
<1>3. markers \in SUBSET Nat /\ markers # {} /\ \A x \in markers : x <= Len(wal)
  BY <1>2 DEF MarkedLog
<1>4. Wal!ShutdownSeq(wal) = wal[Wal!Max(markers)].seq
  BY <1>3, Zenon DEF Wal!ShutdownSeq
<1>5. PICK m \in DOMAIN wal : wal[m].type = "marker" /\ Wal!ShutdownSeq(wal) = wal[m].seq
  <2>1. Wal!Max(markers) \in markers
    <3> HIDE DEF markers
    <3> QED BY <1>2, <1>3, GreatestElement
  <2> QED BY <1>4, <2>1
<1>6. \A j \in DOMAIN wal : wal[j].seq <= wal[m].seq
  BY <1>5, MaxSeqFacts DEF MarkedLog
<1>7. PICK j \in DOMAIN wal : wal[j].type = "event"
  BY DEF MarkedLog
<1>8. wal[j].seq < wal[m].seq
  BY <1>5, <1>7 DEF MarkedLog
<1>9. /\ wal[m].seq \in Nat /\ wal[j].seq \in Nat /\ Wal!MaxSeq(wal) \in Nat
      /\ wal[m].seq <= Wal!MaxSeq(wal)
      /\ Wal!MaxSeq(wal) = 0 \/ \E i \in DOMAIN wal : wal[i].seq = Wal!MaxSeq(wal)
  BY MaxSeqFacts
<1>10. Wal!ShutdownSeq(wal) >= Wal!MaxSeq(wal) /\ Wal!MaxSeq(wal) > 0
  BY <1>5, <1>6, <1>8, <1>9
<1> QED BY <1>1, <1>10 DEF Wal!LooksClean

\* A log with events and no marker, torn at its end or not, looks like a crash.
LEMMA UnmarkedLooksCrashed ==
  ASSUME wal \in Seq(Wal!Records), UnmarkedLog(wal), NEW n \in Wal!ValidReads,
         NEW r \in Wal!Straddled
  PROVE  ~Wal!LooksClean(Wal!ReadWal(n, r)) /\ Wal!ReadWal(n, r) # << >>
<1> DEFINE torn == Wal!TornAt
<1>0. PICK entries : entries = Wal!ReadWal(n, r)
  OBVIOUS
<1>1. entries \in Seq(Wal!Records)
  BY <1>0, ReadWalFacts
<1>2. PICK j \in DOMAIN wal : wal[j].type = "event"
  BY DEF UnmarkedLog
<1>3. DOMAIN wal = 1 .. Len(wal) /\ Len(wal) \in Nat
  BY LenProperties
<1>4. entries # << >> /\ \A i \in DOMAIN entries : i \in DOMAIN wal /\ entries[i] = wal[i]
  <2>1. CASE torn = {}
    <3>1. entries = wal
      BY <1>0, <2>1, Zenon DEF Wal!ReadWal
    <3> QED BY <1>2, <3>1
  <2>2. CASE torn # {}
    <3>1. torn \in SUBSET Nat /\ \A i \in torn : i = Len(wal)
      BY <1>3 DEF UnmarkedLog, Wal!TornAt
    <3>2. Wal!Min(torn) = Len(wal)
      <4>1. Wal!Min(torn) \in torn
        <5> HIDE DEF torn
        <5> QED BY <2>2, <3>1, LeastElement
      <4> QED BY <3>1, <4>1
    <3>3. Len(wal) \in torn
      BY <2>2, <3>1
    <3>4. Len(wal) - 1 >= 1
      BY <1>2, <1>3, <3>3 DEF Wal!TornAt
    <3>5. n = Len(wal) - 1
      <4>1. n \in Len(wal) - 1 .. Len(wal) - 1
        BY <2>2, <3>2, Zenon DEF Wal!ValidReads
      <4>2. \A k \in Nat : \A x \in k - 1 .. k - 1 : x = k - 1
        OBVIOUS
      <4> QED BY <1>3, <4>1, <4>2
    <3>6. entries = [i \in 1 .. n |-> IF i < Len(wal) THEN wal[i] ELSE r]
      BY <1>0, <2>2, <3>2, Zenon DEF Wal!ReadWal
    <3>7. DOMAIN entries = 1 .. n /\ \A i \in 1 .. n : i \in DOMAIN wal /\ entries[i] = wal[i]
      BY <1>3, <3>5, <3>6
    <3>8. 1 \in DOMAIN entries
      BY <1>3, <3>4, <3>5, <3>7
    <3>9. entries # << >>
      BY <3>8
    <3>10. \A i \in DOMAIN entries : i \in DOMAIN wal /\ entries[i] = wal[i]
      BY <3>7
    <3> QED BY <3>9, <3>10
  <2> QED BY <2>1, <2>2
<1>5. \A i \in DOMAIN entries : entries[i].type # "marker"
  BY <1>4 DEF UnmarkedLog
<1>6. Wal!ShutdownSeq(entries) = 0
  <2>1. {i \in DOMAIN entries : entries[i].type = "marker"} = {}
    BY <1>5
  <2> QED BY <2>1, Zenon DEF Wal!ShutdownSeq
<1>7. Wal!MaxSeq(entries) \in Nat
  BY <1>1, MaxSeqFacts
<1>8. ~Wal!LooksClean(entries)
  BY <1>6, <1>7 DEF Wal!LooksClean
<1> QED BY <1>0, <1>8, <1>4

\* A step inside a session keeps a log that started empty the session's own.
LEMMA OwnLogKept ==
  ASSUME WalBasics, OwnLog, phase \in {"replay", "truncate"} => carried,
         [Wal!Next]_(Wal!vars), ~Wal!Start, ~Wal!Truncate
  PROVE  OwnLog'
<1> SUFFICES ASSUME ~carried', phase' \in Running PROVE OwnLog'
  BY DEF OwnLog
<1> USE DEF Wal!mem, Wal!hist, Startup, Exiting, Running
<1>0. /\ wal \in Seq(Wal!Records) /\ sequence \in Nat /\ DOMAIN wal = 1 .. Len(wal)
      /\ \A i \in DOMAIN wal : wal[i].seq \in Nat
      /\ \A i \in DOMAIN writeBuffer : writeBuffer[i].seq \in Nat /\ writeBuffer[i].seq < sequence
  <2>1. wal \in Seq(Wal!Records) /\ sequence \in Nat
    BY TypeParts, BoundsAssumption DEF WalBasics, WalShapes
  <2> QED BY <2>1, BufferFacts, MaxSeqFacts
<1>1. session' = session /\ ~carried /\ phase \in Running
  <2>1. session' = session /\ carried' = carried /\ phase # "down" /\ phase \in Phases
    BY SessionKept, TypeParts DEF WalBasics, WalShapes
  <2> QED BY <2>1 DEF Phases
<1>2. \A i \in DOMAIN wal :
        /\ wal[i].session = session /\ wal[i].type \in {"event", "marker"}
        /\ wal[i].type = "event" => wal[i].seq < sequence
        /\ wal[i].type = "marker" =>
             /\ phase \in Exiting /\ wal[i].seq = sequence - 1
             /\ \A j \in DOMAIN wal : wal[j].type = "event" => wal[j].seq < wal[i].seq
             /\ \A j \in DOMAIN writeBuffer : writeBuffer[j].seq < wal[i].seq
  BY <1>1 DEF OwnLog
<1>3. CASE UNCHANGED <<wal, sequence, writeBuffer>> /\ (phase \in Exiting => phase' \in Exiting)
  BY <1>1, <1>2, <1>3 DEF OwnLog
<1>4. CASE Wal!SaveFails \/ Wal!SaveOpen \/ Wal!SaveWrite \/ Wal!SkipCleanShutdown
           \/ UNCHANGED Wal!vars
  BY <1>3, <1>4 DEF Wal!SaveFails, Wal!SaveOpen, Wal!SaveWrite, Wal!SkipCleanShutdown, Wal!vars
<1>5. CASE \E t \in Threads : Wal!TakeSequence(t) \/ Wal!BufferEntry(t)
  <2>1. phase = "up" /\ phase' = "up" /\ sequence' \in {sequence, sequence + 1}
    BY <1>5 DEF Wal!TakeSequence, Wal!BufferEntry
  <2>2. ASSUME NEW i \in DOMAIN wal'
        PROVE  wal'[i].session = session /\ wal'[i].type = "event" /\ wal'[i].seq < sequence'
    <3>1. CASE i \in DOMAIN wal /\ wal'[i] = wal[i]
      BY <1>0, <1>2, <2>1, <3>1
    <3>2. CASE NewRecord(i)
      BY <1>0, <2>1, <3>2, NewRecordFacts
    <3> QED BY <3>1, <3>2, LogGrowth
  <2> QED BY <1>1, <2>2 DEF OwnLog
<1>6. CASE Wal!MarkCleanShutdown
  <2>1. /\ phase = "up" /\ phase' = "exitSave" /\ sequence' = sequence + 1 /\ writeBuffer' = writeBuffer
        /\ wal' = Append(wal, Wal!Marker(sequence)) \/ wal' = wal
    BY <1>6 DEF Wal!MarkCleanShutdown
  <2>2. \A i \in DOMAIN wal : /\ wal[i].session = session /\ wal[i].type = "event"
                              /\ wal[i].seq < sequence /\ wal[i].seq < sequence'
    BY <1>0, <1>2, <2>1
  <2>3. ASSUME NEW i \in DOMAIN wal'
        PROVE  \/ i \in DOMAIN wal /\ wal'[i] = wal[i]
               \/ wal'[i].session = session /\ wal'[i].type = "marker" /\ wal'[i].seq = sequence
    <3>1. CASE NewRecord(i)
      BY <2>1, <3>1 DEF NewRecord, Wal!Marker, Wal!Event
    <3> QED BY <3>1, LogGrowth
  <2> QED BY <1>0, <1>1, <2>1, <2>2, <2>3 DEF OwnLog
<1>7. CASE Wal!Replay
  BY <1>7 DEF Wal!Replay
<1>8. CASE Wal!Close \/ Wal!Crash \/ Wal!CrashInClose \/ Wal!CrashInMark
           \/ \E t \in Threads : Wal!CrashInWrite(t)
  BY <1>8 DEF Wal!Close, Wal!Crash, Wal!CrashInClose, Wal!CrashInMark, Wal!CrashInWrite,
              Wal!CrashInFlush, Wal!GoDown
<1> QED BY <1>4, <1>5, <1>6, <1>7, <1>8 DEF Wal!Next

\* What a session leaves in a log that started empty.
LEMMA LeftLogKept ==
  ASSUME WalBasics, OwnLog, LeftLog, phase \in {"replay", "truncate"} => carried,
         [Wal!Next]_(Wal!vars), ~Wal!Start, ~Wal!Truncate
  PROVE  LeftLog'
<1> SUFFICES ASSUME phase' = "down", prev'.left > 0, ~prev'.carried
             PROVE  /\ prev'.exit = "clean" /\ prev'.marked => MarkedLog(wal')
                    /\ prev'.exit = "crash" /\ ~prev'.marked => UnmarkedLog(wal')
  BY DEF LeftLog, MarkedLog, UnmarkedLog
<1>0. /\ wal \in Seq(Wal!Records) /\ sequence \in Nat /\ phase \in Phases
      /\ wal' \in Seq(Wal!Records)
  <2>1. WalShapes /\ WalShapes'
    BY BasicsInductive, TypeParts DEF WalBasics
  <2> QED BY <2>1, BoundsAssumption DEF WalShapes
<1>1. CASE phase = "down"
  <2>1. UNCHANGED <<wal, phase, prev>>
    BY <1>1, SessionKept
  <2> QED BY <1>1, <2>1 DEF LeftLog
<1>2. CASE phase # "down"
  <2> DEFINE events == Wal!RecordsOf(wal', session, "event")
             marks == Wal!RecordsOf(wal', session, "marker")
  <2>1. PICK exit \in {"clean", "crash"} : Wal!GoDown(exit)
    BY <1>2, SessionKept
  <2>2. /\ prev'.exit = exit /\ prev'.left = Wal!Cardinality(events)
        /\ prev'.carried = carried
    BY <2>1 DEF Wal!GoDown
  <2>3. prev'.marked <=> marks # {}
    BY <2>1, Zenon DEF Wal!GoDown
  <2>4. phase \in Running /\ ~carried
    BY <1>0, <1>2, <2>2 DEF Phases, Running, Startup, Exiting
  <2>5. \A i \in DOMAIN wal :
          /\ wal[i].session = session /\ wal[i].type \in {"event", "marker"}
          /\ wal[i].type = "marker" =>
               /\ wal[i].seq = sequence - 1 /\ phase \in Exiting
               /\ \A j \in DOMAIN wal : wal[j].type = "event" => wal[j].seq < wal[i].seq
               /\ \A j \in DOMAIN writeBuffer : writeBuffer[j].seq < wal[i].seq
    BY <2>4 DEF OwnLog
  <2>6. \A i \in DOMAIN wal : i \in DOMAIN wal' /\ wal'[i] = wal[i]
    BY LogGrowth
  <2>7. \A i \in DOMAIN wal' :
          \/ i \in DOMAIN wal /\ wal'[i] = wal[i]
          \/ /\ wal'[i].type = "event" /\ wal'[i].session = session
             /\ phase = "up" \/ \E j \in DOMAIN writeBuffer : wal'[i] = writeBuffer[j]
          \/ wal'[i].type = "torn" /\ exit = "crash" /\ i = Len(wal')
    <3> SUFFICES ASSUME NEW i \in DOMAIN wal', i \notin DOMAIN wal
                 PROVE  \/ /\ wal'[i].type = "event" /\ wal'[i].session = session
                           /\ phase = "up" \/ \E j \in DOMAIN writeBuffer : wal'[i] = writeBuffer[j]
                        \/ wal'[i].type = "torn" /\ exit = "crash" /\ i = Len(wal')
      BY <2>6
    <3>1. NewRecord(i)
      BY LogGrowth
    <3> QED BY <2>2, <3>1, NewRecordFacts
  <2>8. PICK k \in DOMAIN wal' : wal'[k].type = "event"
    <3>1. events # {}
      <4>1. Cardinality(events) > 0
        BY <2>2, WalCardinality
      <4> HIDE DEF events
      <4> QED BY <4>1, FS_EmptySet
    <3> QED BY <3>1 DEF Wal!RecordsOf, Wal!ToSet
  <2>9. ASSUME exit = "clean", marks # {} PROVE MarkedLog(wal')
    <3>1. PICK m \in DOMAIN wal' : wal'[m].type = "marker"
      BY <2>9 DEF Wal!RecordsOf, Wal!ToSet
    <3>2. m \in DOMAIN wal /\ wal[m].type = "marker" /\ phase \in Exiting
      BY <2>5, <2>7, <3>1
    <3>3. phase # "up"
      BY <3>2 DEF Exiting
    <3>4. \A i \in DOMAIN wal' :
            \/ i \in DOMAIN wal /\ wal'[i] = wal[i]
            \/ wal'[i].type = "event" /\ \E j \in DOMAIN writeBuffer : wal'[i] = writeBuffer[j]
      BY <2>7, <2>9, <3>3
    <3>5. \A i \in DOMAIN wal' : wal'[i].type = "marker" => i \in DOMAIN wal /\ wal'[i] = wal[i]
      BY <3>4
    <3>6. \A i, j \in DOMAIN wal' : wal'[i].type = "marker" =>
            IF wal'[j].type = "event" THEN wal'[j].seq < wal'[i].seq ELSE wal'[j].seq = wal'[i].seq
      BY <2>5, <3>4, <3>5
    <3> QED BY <2>5, <2>8, <3>1, <3>4, <3>6 DEF MarkedLog
  <2>10. ASSUME exit = "crash", marks = {} PROVE UnmarkedLog(wal')
    <3>1. \A i \in DOMAIN wal' : ~(wal'[i].type = "marker" /\ wal'[i].session = session)
      BY <2>10 DEF Wal!RecordsOf, Wal!ToSet
    <3>2. \A i \in DOMAIN wal' : wal'[i].type = "event" \/ (wal'[i].type = "torn" /\ i = Len(wal'))
      BY <2>5, <2>7, <3>1
    <3> QED BY <2>8, <3>2 DEF UnmarkedLog
  <2> HIDE DEF marks
  <2> QED BY <2>2, <2>3, <2>9, <2>10
<1> QED BY <1>1, <1>2

\* Every step keeps the log of a fresh session telling how the session ended.
LEMMA DetectionInductive == WalBasics /\ DetectionInv /\ [Wal!Next]_(Wal!vars) => DetectionInv'
<1> SUFFICES ASSUME WalBasics, DetectionInv, [Wal!Next]_(Wal!vars) PROVE DetectionInv'
  OBVIOUS
<1> USE DEF Startup, Exiting, Running
<1>0. wal \in Seq(Wal!Records)
  BY TypeParts DEF WalBasics, WalShapes
<1>1. CASE Wal!Start
  <2>1. PICK n \in Wal!ValidReads, r \in Wal!Straddled :
          verdict' = (~Wal!LooksClean(Wal!ReadWal(n, r)) /\ Wal!ReadWal(n, r) # << >>)
    BY <1>1 DEF Wal!Start
  <2>2. /\ phase = "down" /\ UNCHANGED <<wal, prev>>
        /\ phase' = (IF verdict' THEN "replay" ELSE "up")
    BY <1>1 DEF Wal!Start
  <2>3. carried' <=> wal # << >>
    BY <1>1, Zenon DEF Wal!Start
  <2>4. verdict' <=> ~Wal!LooksClean(Wal!ReadWal(n, r)) /\ Wal!ReadWal(n, r) # << >>
    BY <2>1, Zenon
  <2>5. Wal!ReadWal(n, r) # << >> => wal # << >>
    <3>1. /\ Wal!ReadWal(n, r) \in Seq(Wal!Records) /\ Len(Wal!ReadWal(n, r)) <= Len(wal)
      BY <1>0, ReadWalFacts
    <3> QED BY <1>0, <3>1, EmptySeq
  <2>6. phase' \in {"replay", "truncate"} => carried'
    BY <2>2, <2>3, <2>4, <2>5
  <2>7. OwnLog'
    <3>1. ~carried' => DOMAIN wal' = {}
      BY <2>2, <2>3
    <3> QED BY <3>1 DEF OwnLog
  <2>8. LeftLog'
    BY <2>2 DEF LeftLog
  <2>9. FreshLogDetection'
    <3> SUFFICES ASSUME prev.left > 0, ~prev.carried
                 PROVE  /\ prev.exit = "clean" /\ prev.marked => ~verdict'
                        /\ prev.exit = "crash" /\ ~prev.marked => verdict'
      BY <2>2 DEF FreshLogDetection, Wal!FreshLogDetection
    <3>1. /\ prev.exit = "clean" /\ prev.marked => MarkedLog(wal)
          /\ prev.exit = "crash" /\ ~prev.marked => UnmarkedLog(wal)
      BY <2>2 DEF DetectionInv, LeftLog
    <3> QED BY <1>0, <2>4, <3>1, MarkedLooksClean, UnmarkedLooksCrashed
  <2> QED BY <2>6, <2>7, <2>8, <2>9 DEF DetectionInv
<1>2. CASE Wal!Truncate
  <2>1. phase' = "recoverSave" /\ phase = "truncate" /\ DOMAIN wal' = {} /\ UNCHANGED <<prev, verdict>>
    BY <1>2 DEF Wal!Truncate
  <2> QED BY <2>1 DEF DetectionInv, OwnLog, LeftLog, FreshLogDetection, Wal!FreshLogDetection
<1>3. CASE ~Wal!Start /\ ~Wal!Truncate
  <2>1. /\ carried' = carried
        /\ phase' \in {"replay", "truncate"} => phase \in {"replay", "truncate"}
        /\ phase' # "down" => prev' = prev /\ verdict' = verdict /\ phase # "down"
    BY <1>3, SessionKept
  <2>2. phase' \in {"replay", "truncate"} => carried'
    BY <2>1 DEF DetectionInv
  <2>3. FreshLogDetection'
    BY <2>1 DEF DetectionInv, FreshLogDetection, Wal!FreshLogDetection
  <2>4. OwnLog' /\ LeftLog'
    BY <1>3, OwnLogKept, LeftLogKept DEF DetectionInv
  <2> QED BY <2>2, <2>3, <2>4 DEF DetectionInv
<1> QED BY <1>1, <1>2, <1>3

(***************************************************************************)
(* A log that held nothing when a session began tells the next start how   *)
(* that session ended, for any threads, batch size, kill and torn write.   *)
(***************************************************************************)
THEOREM DetectionCorrect == WalSpec => []FreshLogDetection
<1>1. Wal!Init => DetectionInv
  BY DEF Wal!Init, DetectionInv, OwnLog, LeftLog, FreshLogDetection, Wal!FreshLogDetection, Running,
         Exiting, Wal!NoSession
<1>2. DetectionInv => FreshLogDetection
  BY DEF DetectionInv
<1> QED BY <1>1, <1>2, BasicsHold, DetectionInductive, PTL DEF WalSpec, Wal!Spec

=============================================================================

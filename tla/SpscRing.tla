------------------------------ MODULE SpscRing ------------------------------
(***************************************************************************)
(* The lock-free ring between the threads that record Vulkan commands and  *)
(* the analyzer thread: TelemetryRingBuffer (synapse_umd.h) and its twin   *)
(* TelemetryRing (atomic/atomic_telemetry.h), with the loop of             *)
(* Analyzer::process_telemetry_loop as the consumer.                       *)
(*                                                                         *)
(* push and pop are split at every access to a shared location.  The       *)
(* acquire load of the other side's index may return an old value of that  *)
(* index: the producers read tailView, the consumer headView, and the two  *)
(* views catch up with tail and head in steps of their own.  The release   *)
(* store makes the slot visible no later than the index, so the slots      *)
(* themselves need no view.                                                *)
(*                                                                         *)
(* The class is written for one producer; Producers is a parameter because *)
(* the layer calls push from every thread that records commands.           *)
(***************************************************************************)
EXTENDS Naturals, Sequences

CONSTANTS
  Producers,   \* the threads that call push
  Values,      \* the entries they push
  Capacity,    \* kCapacity / kBufferSize
  NoEntry,     \* the content of a slot or a local that was never written
  MaxPushes    \* bound: no push starts once this many were accepted

ASSUME CapacityAssumption == Capacity \in Nat /\ Capacity >= 2
ASSUME MaxPushesAssumption == MaxPushes \in Nat
ASSUME NoEntryAssumption == NoEntry \notin Values

VARIABLES
  head,      \* head_: next slot to write
  tail,      \* tail_: next slot to read
  buffer,    \* buffer_
  tailView,  \* the value an acquire load of tail_ returns to a producer
  headView,  \* the value an acquire load of head_ returns to the consumer
  prod,      \* per producer: where it is in push, its copy of head_, its entry
  cons,      \* where the consumer is in pop, and the entry it has copied
  running,   \* Analyzer::running_
  sent,      \* history: the entries whose push returned true
  rcvd       \* history: the entries pop has returned

vars == <<head, tail, buffer, tailView, headView, prod, cons, running, sent, rcvd>>

Index == 0 .. Capacity - 1

Entries == Values \cup {NoEntry}

ProducerState ==
  [pc : {"idle", "check", "write", "publish"}, head : Index, entry : Entries]

ConsumerState == [pc : {"idle", "read", "commit"}, entry : Entries]

TypeOK ==
  /\ head \in Index
  /\ tail \in Index
  /\ tailView \in Index
  /\ headView \in Index
  /\ buffer \in [Index -> Entries]
  /\ prod \in [Producers -> ProducerState]
  /\ cons \in ConsumerState
  /\ running \in BOOLEAN
  /\ sent \in Seq(Entries)
  /\ rcvd \in Seq(Entries)

Init ==
  /\ head = 0
  /\ tail = 0
  /\ tailView = 0
  /\ headView = 0
  /\ buffer = [i \in Index |-> NoEntry]
  /\ prod = [p \in Producers |-> [pc |-> "idle", head |-> 0, entry |-> NoEntry]]
  /\ cons = [pc |-> "idle", entry |-> NoEntry]
  /\ running = TRUE
  /\ sent = << >>
  /\ rcvd = << >>

\* (i + 1) & (kCapacity - 1): the capacity is a power of two, so the mask is a remainder.
NextIndex(i) == (i + 1) % Capacity

\* Variant: the consumer's index is never looked at.
NeverFull(h) == FALSE

\* The comparison that makes push return false.
Full(h) == NextIndex(h) = tailView

---------------------------------------------------------------------------
\* push

PushLoadHead(p) ==
  /\ prod[p].pc = "idle"
  /\ Len(sent) < MaxPushes
  /\ \E v \in Values : prod' = [prod EXCEPT ![p] = [pc |-> "check", head |-> head, entry |-> v]]
  /\ UNCHANGED <<head, tail, buffer, tailView, headView, cons, running, sent, rcvd>>

\* The ring looks full: push returns false and the entry is dropped.
PushFull(p) ==
  /\ prod[p].pc = "check"
  /\ Full(prod[p].head)
  /\ prod' = [prod EXCEPT ![p].pc = "idle"]
  /\ UNCHANGED <<head, tail, buffer, tailView, headView, cons, running, sent, rcvd>>

PushRoom(p) ==
  /\ prod[p].pc = "check"
  /\ ~Full(prod[p].head)
  /\ prod' = [prod EXCEPT ![p].pc = "write"]
  /\ UNCHANGED <<head, tail, buffer, tailView, headView, cons, running, sent, rcvd>>

PushWrite(p) ==
  /\ prod[p].pc = "write"
  /\ buffer' = [buffer EXCEPT ![prod[p].head] = prod[p].entry]
  /\ prod' = [prod EXCEPT ![p].pc = "publish"]
  /\ UNCHANGED <<head, tail, tailView, headView, cons, running, sent, rcvd>>

PushPublish(p) ==
  /\ prod[p].pc = "publish"
  /\ head' = NextIndex(prod[p].head)
  /\ sent' = Append(sent, prod[p].entry)
  /\ prod' = [prod EXCEPT ![p].pc = "idle"]
  /\ UNCHANGED <<tail, buffer, tailView, headView, cons, running, rcvd>>

---------------------------------------------------------------------------
\* pop, called by the analyzer loop while running_ is set.  An empty ring makes
\* the loop yield and changes nothing.

\* Variant: the last entry in the ring is left there.
PopCheckLeavesLast ==
  /\ running
  /\ cons.pc = "idle"
  /\ tail # headView /\ NextIndex(tail) # headView
  /\ cons' = [cons EXCEPT !.pc = "read"]
  /\ UNCHANGED <<head, tail, buffer, tailView, headView, prod, running, sent, rcvd>>

PopCheck ==
  /\ running
  /\ cons.pc = "idle"
  /\ tail # headView
  /\ cons' = [cons EXCEPT !.pc = "read"]
  /\ UNCHANGED <<head, tail, buffer, tailView, headView, prod, running, sent, rcvd>>

PopRead ==
  /\ cons.pc = "read"
  /\ cons' = [pc |-> "commit", entry |-> buffer[tail]]
  /\ UNCHANGED <<head, tail, buffer, tailView, headView, prod, running, sent, rcvd>>

\* Variant: the slot is not handed back.
PopCommitKeepsSlot ==
  /\ cons.pc = "commit"
  /\ rcvd' = Append(rcvd, cons.entry)
  /\ cons' = [cons EXCEPT !.pc = "idle"]
  /\ UNCHANGED <<head, tail, buffer, tailView, headView, prod, running, sent>>

PopCommit ==
  /\ cons.pc = "commit"
  /\ tail' = NextIndex(tail)
  /\ rcvd' = Append(rcvd, cons.entry)
  /\ cons' = [cons EXCEPT !.pc = "idle"]
  /\ UNCHANGED <<head, buffer, tailView, headView, prod, running, sent>>

\* Analyzer::shutdown: the loop ends when it next looks at running_.
Shutdown ==
  /\ running
  /\ running' = FALSE
  /\ UNCHANGED <<head, tail, buffer, tailView, headView, prod, cons, sent, rcvd>>

---------------------------------------------------------------------------
\* A release store becomes visible to the other side's acquire load.

TailVisible ==
  /\ tailView # tail
  /\ tailView' = tail
  /\ UNCHANGED <<head, tail, buffer, headView, prod, cons, running, sent, rcvd>>

HeadVisible ==
  /\ headView # head
  /\ headView' = head
  /\ UNCHANGED <<head, tail, buffer, tailView, prod, cons, running, sent, rcvd>>

Consume == PopCheck \/ PopRead \/ PopCommit

Next ==
  \/ \E p \in Producers :
       PushLoadHead(p) \/ PushFull(p) \/ PushRoom(p) \/ PushWrite(p) \/ PushPublish(p)
  \/ Consume
  \/ Shutdown
  \/ TailVisible
  \/ HeadVisible

Spec == Init /\ [][Next]_vars

(***************************************************************************)
(* The analyzer thread is scheduled and its loop never blocks, and a store *)
(* becomes visible in finite time; nothing forces a producer to push.      *)
(***************************************************************************)
FairSpec == Spec /\ WF_vars(Consume) /\ WF_vars(HeadVisible)

---------------------------------------------------------------------------
\* Properties

(***************************************************************************)
(* What pop returns is what push accepted, in the order it was accepted:   *)
(* nothing is lost, repeated, reordered or overwritten before it is read,  *)
(* although each side may act on an old value of the other side's index.   *)
(***************************************************************************)
FifoDelivery ==
  /\ Len(rcvd) <= Len(sent)
  /\ \A i \in 1 .. Len(rcvd) : rcvd[i] = sent[i]

(***************************************************************************)
(* The plain, non-atomic copies into and out of buffer_ never touch the    *)
(* same slot at the same time: no data race between push and pop, nor      *)
(* between two pushes.                                                     *)
(***************************************************************************)
NoSlotRace ==
  \A p \in Producers : prod[p].pc = "write" =>
    /\ cons.pc = "read" => prod[p].head # tail
    /\ \A q \in Producers \ {p} : prod[q].pc = "write" => prod[p].head # prod[q].head

(***************************************************************************)
(* push and pop implement the bounded channel of BoundedFifo, with one     *)
(* slot of buffer_ always left free.                                       *)
(***************************************************************************)
Fifo == INSTANCE BoundedFifo WITH Places <- Capacity - 1

ImplementsFifo == Fifo!FifoSpec

(***************************************************************************)
(* An accepted entry is eventually handed to update_model unless the       *)
(* analyzer is told to stop: the loop does not miss the last entry of a    *)
(* burst whatever the views were when it looked.                           *)
(***************************************************************************)
EventuallyDelivered ==
  \A n \in 1 .. MaxPushes : (Len(sent) >= n) ~> (Len(rcvd) >= n \/ ~running)

---------------------------------------------------------------------------
\* The inductive invariant behind FifoDelivery, NoSlotRace and ImplementsFifo.

\* How far index b is ahead of index a around the ring; size() is Dist(tail, head).
Dist(a, b) == IF b >= a THEN b - a ELSE b + Capacity - a

\* The slot k places after index a.
SlotAt(a, k) == IF a + k < Capacity THEN a + k ELSE a + k - Capacity

\* Around the ring the four indices come in the order tailView, tail, headView, head.
IndicesInOrder ==
  Dist(tailView, tail) + Dist(tail, headView) + Dist(headView, head) < Capacity

\* The slots from tail up to head hold the accepted entries that pop has not returned.
SlotsHoldWaiting ==
  /\ Len(sent) = Len(rcvd) + Dist(tail, head)
  /\ \A k \in 0 .. Dist(tail, head) - 1 : buffer[SlotAt(tail, k)] = sent[Len(rcvd) + k + 1]

\* A producer inside push has the current head, and once past the check a free slot.
ProducerHasSlot ==
  \A p \in Producers :
    /\ prod[p].pc # "idle" => prod[p].head = head /\ prod[p].entry \in Values
    /\ prod[p].pc \in {"write", "publish"} => Dist(tailView, head) < Capacity - 1
    /\ prod[p].pc = "publish" => buffer[head] = prod[p].entry

\* A consumer inside pop is at a published slot and copies what was sent there.
ConsumerHasEntry ==
  /\ cons.pc # "idle" => tail # headView
  /\ cons.pc = "commit" => cons.entry = buffer[tail]

(***************************************************************************)
(* The ring as its authors picture it: the indices never overtake each     *)
(* other, every slot between them holds the entry it should, and a thread  *)
(* in the middle of push or pop owns the slot it is working on.            *)
(***************************************************************************)
RingInv ==
  /\ IndicesInOrder
  /\ SlotsHoldWaiting
  /\ ProducerHasSlot
  /\ ConsumerHasEntry
  /\ FifoDelivery

=============================================================================

---------------------------- MODULE BoundedFifo ----------------------------
(***************************************************************************)
(* What a telemetry ring promises to its users: a first-in first-out       *)
(* channel with a fixed number of places.  `sent` is the sequence of       *)
(* entries whose push returned true, `rcvd` the sequence of entries that   *)
(* pop has returned.  SpscRing is shown to implement this specification.   *)
(***************************************************************************)
EXTENDS Naturals, Sequences

CONSTANTS
  Values,   \* the entries that can be pushed
  Places    \* how many accepted entries may be waiting

VARIABLES sent, rcvd

fifoVars == <<sent, rcvd>>

FifoInit == sent = << >> /\ rcvd = << >>

Enqueue(v) ==
  /\ Len(sent) - Len(rcvd) < Places
  /\ sent' = Append(sent, v)
  /\ UNCHANGED rcvd

Dequeue ==
  /\ Len(rcvd) < Len(sent)
  /\ rcvd' = Append(rcvd, sent[Len(rcvd) + 1])
  /\ UNCHANGED sent

FifoNext == (\E v \in Values : Enqueue(v)) \/ Dequeue

FifoSpec == FifoInit /\ [][FifoNext]_fifoVars

=============================================================================

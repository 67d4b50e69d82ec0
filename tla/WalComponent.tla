---------------------------- MODULE WalComponent ----------------------------
(***************************************************************************)
(* WalRecovery under names of its own, so that it can be put beside the    *)
(* ring of the same header (SpscRing) without their definitions meeting.   *)
(***************************************************************************)
EXTENDS Naturals, FiniteSets, Sequences

CONSTANTS   \* see WalRecovery
  Threads, Batch, RingPlaces, FlushMayFail, WritesMayTear, MaxWrites, MaxSessions

VARIABLES
  wal, metaFile, phase, sequence, clean,
  writeBuffer,   \* buffer of WalRecovery
  ring, pending, meta, writer, verdict, session, prev, carried, dropped, recovered

Wal == INSTANCE WalRecovery WITH buffer <- writeBuffer

ASSUME ThreadsAssumption == IsFiniteSet(Threads)
ASSUME BatchAssumption == Batch \in Nat \ {0}
ASSUME RingPlacesAssumption == RingPlaces \in Nat
ASSUME FaultsAssumption == FlushMayFail \in BOOLEAN /\ WritesMayTear \in BOOLEAN
ASSUME BoundsAssumption == MaxWrites \in Nat /\ MaxSessions \in Nat

WalSpec == Wal!Spec

\* The two files, the buffer, the ring and the metadata keep their types and their bounds.
WalTypeOK == Wal!TypeOK

\* A log that started empty tells a crash from a clean exit.
FreshLogDetection == Wal!FreshLogDetection

\* While the layer runs, every sequence number handed out is in exactly one place.
EntriesAccountedFor == Wal!EntriesAccountedFor

\* A kill costs a session at most an unfinished batch and what the threads were carrying.
LossBounded == Wal!LossBounded

\* What a completed recovery has replayed never shows up in the log again.
RecoveredOnce == Wal!RecoveredOnce

\* The saved counters never claim a recovery that did not complete.
MetadataNeverOvercounts == Wal!MetadataNeverOvercounts

\* Every crash after entries reached the log is reported; see WalRecovery.
CrashDetected == Wal!CrashDetected

=============================================================================

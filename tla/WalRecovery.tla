---------------------------- MODULE WalRecovery ----------------------------
(***************************************************************************)
(* The write-ahead log of AtomicTelemetry (atomic/atomic_telemetry.h) and  *)
(* the recovery that CrashRecoveryManager (recovery/crash_recovery.h) runs *)
(* on it, over several sessions of the layer: a device is created, checks  *)
(* the log left by the session before, replays it if it looks like a       *)
(* crash, records entries from several threads, and is either destroyed    *)
(* (~SynapseCore, then ~AtomicTelemetry) or killed at any point.           *)
(*                                                                         *)
(* An entry stands for its sequence number, its kind and, as history, the  *)
(* session that wrote it; the payload is left out.  A write to a file that *)
(* is cut off by a crash leaves a prefix of it, possibly with a Torn       *)
(* record at the end, after which nothing later in the file is aligned;    *)
(* what reads there show is left open (Straddled).                         *)
(* WalComponent states the assumptions about the constants.                *)
(***************************************************************************)
EXTENDS Naturals, FiniteSets, Sequences, SequencesExt

CONSTANTS
  Threads,        \* threads that record commands and so call write
  Batch,          \* kWALFlushBatch
  RingPlaces,     \* entries the in-memory ring holds: TelemetryRing::kCapacity - 1
  FlushMayFail,   \* whether opening a file for writing can fail
  WritesMayTear,  \* whether a kill can cut a record in the file short
  MaxWrites,      \* bound: entries written in one session
  MaxSessions     \* bound: sessions

VARIABLES
  wal,        \* the records in synapse.wal
  metaFile,   \* synapse_recovery.meta: the saved RecoveryMetadata, or TornMeta
  phase,      \* where the process is in its life
  sequence,   \* sequence_
  clean,      \* clean_shutdown_
  buffer,     \* write_buffer_
  ring,       \* the entries in ring_: nothing in the layer calls read(), so it only fills
  pending,    \* pending_recovery_
  meta,       \* CrashRecoveryManager::metadata_
  writer,     \* per thread inside write: its sequence number, else NoSeq
  verdict,    \* check_for_crash's answer in this session
  session,    \* history: number of the session
  prev,       \* history: how the session before this one ended
  carried,    \* history: the log was not empty when this session began to record
  dropped,    \* history: entries of this session that a failed flush threw away
  recovered   \* history: what completed replays removed from the log

mem  == <<sequence, clean, buffer, ring, pending, meta, writer>>
hist == <<session, prev, carried, dropped, recovered>>
vars == <<wal, metaFile, phase, mem, verdict, hist>>

NoSeq == MaxWrites + 2     \* larger than any sequence number
NoSession == [exit |-> "none", marked |-> FALSE, left |-> 0, carried |-> FALSE]

Event(n)  == [session |-> session, seq |-> n, type |-> "event"]
Marker(n) == [session |-> session, seq |-> n, type |-> "marker"]
Torn      == [session |-> 0, seq |-> 0, type |-> "torn"]

Meta0    == [torn |-> FALSE, recoveries |-> 0, entries |-> 0, lastClean |-> 0, lastWal |-> 0]
TornMeta == [Meta0 EXCEPT !.torn = TRUE]

Init ==
  /\ wal = << >>
  /\ metaFile = Meta0
  /\ phase = "down"
  /\ sequence = 0
  /\ clean = FALSE
  /\ buffer = << >>
  /\ ring = 0
  /\ pending = << >>
  /\ meta = Meta0
  /\ writer = [t \in Threads |-> NoSeq]
  /\ verdict = FALSE
  /\ session = 0
  /\ prev = NoSession
  /\ carried = FALSE
  /\ dropped = {}
  /\ recovered = [runs |-> 0, count |-> 0, events |-> {}]

---------------------------------------------------------------------------
\* Reading the log

(***************************************************************************)
(* Past a torn record the fixed-size reads straddle two records.  The      *)
(* first shows the torn record's own number and type if it was cut off     *)
(* behind them, later ones bytes of numbers, times and payloads.  The      *)
(* check compares numbers and asks for the last marker, so it is enough    *)
(* that such a read is a marker or not, numbered below or above all        *)
(* others, and that they are alike: a mixture has the effect of fewer      *)
(* reads that are alike.                                                   *)
(***************************************************************************)
Straddled == [session : {0}, seq : {0, MaxWrites + 1}, type : {"blank", "marker"}]

TornAt == {i \in DOMAIN wal : wal[i].type = "torn"}

\* How many reads is_valid_wal_entry can let pass: all that are aligned, and some, all or
\* none of those that straddle.
ValidReads == IF TornAt = {} THEN {Len(wal)} ELSE Min(TornAt) - 1 .. Len(wal) - 1

\* read_wal, when n reads are valid and those that straddle show r.
ReadWal(n, r) ==
  IF TornAt = {} THEN wal
  ELSE [i \in 1 .. n |-> IF i < Min(TornAt) THEN wal[i] ELSE r]

\* check_recovery's shutdown_seq: the sequence of the last marker in the file, not the highest.
ShutdownSeq(entries) ==
  LET markers == {i \in DOMAIN entries : entries[i].type = "marker"}
  IN  IF markers = {} THEN 0 ELSE entries[Max(markers)].seq

MaxSeq(entries) == Max({0} \cup {e.seq : e \in ToSet(entries)})

\* Variant: without the test max_seq > 0.
LooksCleanWithoutZeroTest(entries) == ShutdownSeq(entries) >= MaxSeq(entries)

\* check_recovery's test for a clean shutdown.
LooksClean(entries) ==
  ShutdownSeq(entries) >= MaxSeq(entries) /\ MaxSeq(entries) > 0

\* load_metadata: a file cut off by a crash is too short and yields the defaults.
LoadMetadata == IF metaFile.torn THEN Meta0 ELSE metaFile

---------------------------------------------------------------------------
\* Startup: SynapseCore's constructor, then check_and_recover

\* check_for_crash, and recover's second, identical check_recovery.
Start ==
  /\ phase = "down"
  /\ session < MaxSessions
  /\ session' = session + 1
  /\ meta' = LoadMetadata
  /\ dropped' = {}
  /\ \E n \in ValidReads, r \in Straddled :
       LET entries == ReadWal(n, r)
       IN  /\ clean' = LooksClean(entries)
           /\ pending' = entries
           /\ verdict' = (~LooksClean(entries) /\ entries # << >>)
  /\ phase' = IF verdict' THEN "replay" ELSE "up"
  /\ carried' = (wal # << >>)
  /\ UNCHANGED <<wal, metaFile, sequence, buffer, ring, writer, prev, recovered>>

\* What replay pushes: everything but the markers; the ring drops what does not fit.
Replayable == {i \in DOMAIN pending : pending[i].type # "marker"}

\* Variant: the ring never refuses an entry.
PushAllUnchecked(r, n) == r + n

PushAll(r, n) == IF r + n <= RingPlaces THEN r + n ELSE RingPlaces

\* Variant: the metadata is saved before the log is truncated.
ReplaySavesFirst ==
  /\ phase = "replay"
  /\ ring' = PushAll(ring, Cardinality(Replayable))
  /\ metaFile' = [meta EXCEPT !.recoveries = @ + 1, !.entries = @ + Cardinality(Replayable)]
  /\ phase' = "truncate"
  /\ UNCHANGED <<wal, sequence, clean, buffer, pending, meta, writer, verdict, hist>>

\* replay, up to truncate_wal.
Replay ==
  /\ phase = "replay"
  /\ ring' = PushAll(ring, Cardinality(Replayable))
  /\ phase' = "truncate"
  /\ UNCHANGED <<wal, metaFile, sequence, clean, buffer, pending, meta, writer, verdict, hist>>

\* Variant: the log is not truncated.
TruncateForgotten ==
  /\ phase = "truncate"
  /\ recovered' = [runs |-> recovered.runs + 1, count |-> recovered.count + Cardinality(Replayable),
                    events |-> recovered.events \cup {e \in ToSet(pending) : e.type = "event"}]
  /\ pending' = << >>
  /\ meta' = [meta EXCEPT !.recoveries = @ + 1, !.entries = @ + Cardinality(Replayable), !.lastWal = sequence]
  /\ phase' = "recoverSave"
  /\ UNCHANGED <<wal, carried, metaFile, sequence, clean, buffer, ring, writer, verdict, session,
                 prev, dropped>>

\* truncate_wal, and recover's update of the metadata in memory.
Truncate ==
  /\ phase = "truncate"
  /\ wal' = << >>
  /\ carried' = FALSE
  /\ recovered' = [runs |-> recovered.runs + 1, count |-> recovered.count + Cardinality(Replayable),
                    events |-> recovered.events \cup {e \in ToSet(pending) : e.type = "event"}]
  /\ pending' = << >>
  /\ meta' = [meta EXCEPT !.recoveries = @ + 1, !.entries = @ + Cardinality(Replayable), !.lastWal = sequence]
  /\ phase' = "recoverSave"
  /\ UNCHANGED <<metaFile, sequence, clean, buffer, ring, writer, verdict, session, prev, dropped>>

\* save_metadata: opening the file truncates it, the contents follow; if it cannot be
\* opened nothing happens.
SaveFails ==
  /\ FlushMayFail
  /\ phase \in {"recoverSave", "exitSave"}
  /\ phase' = IF phase = "recoverSave" THEN "up" ELSE "closing"
  /\ UNCHANGED <<wal, metaFile, mem, verdict, hist>>

SaveOpen ==
  /\ phase \in {"recoverSave", "exitSave"}
  /\ metaFile' = TornMeta
  /\ phase' = IF phase = "recoverSave" THEN "recoverWrite" ELSE "exitWrite"
  /\ UNCHANGED <<wal, mem, verdict, hist>>

SaveWrite ==
  /\ phase \in {"recoverWrite", "exitWrite"}
  /\ metaFile' = meta
  /\ phase' = IF phase = "recoverWrite" THEN "up" ELSE "closing"
  /\ UNCHANGED <<wal, mem, verdict, hist>>

---------------------------------------------------------------------------
\* Recording: AtomicTelemetry::write

\* sequence_.fetch_add and the push into the ring, before any lock.
TakeSequence(t) ==
  /\ phase = "up"
  /\ writer[t] = NoSeq
  /\ sequence < MaxWrites
  /\ writer' = [writer EXCEPT ![t] = sequence]
  /\ sequence' = sequence + 1
  /\ ring' = PushAll(ring, 1)
  /\ UNCHANGED <<wal, metaFile, phase, clean, buffer, pending, meta, verdict, hist>>

\* Variant: write_buffer_ is not cleared.
FlushBatchKept(batch) ==
  /\ buffer' = batch
  /\ wal' = wal \o batch
  /\ UNCHANGED dropped

\* flush_buffer_locked: append the batch to the log; if the file cannot be opened
\* the batch is thrown away all the same.
FlushBatch(batch) ==
  /\ buffer' = << >>
  /\ \/ /\ wal' = wal \o batch
        /\ UNCHANGED dropped
     \/ /\ FlushMayFail
        /\ dropped' = dropped \cup {e.seq : e \in ToSet(batch)}
        /\ UNCHANGED wal

\* Variant: flushes one entry too late.
BufferEntryLate(t) ==
  /\ phase = "up"
  /\ writer[t] # NoSeq
  /\ writer' = [writer EXCEPT ![t] = NoSeq]
  /\ LET batch == Append(buffer, Event(writer[t]))
     IN  IF Len(batch) > Batch
         THEN FlushBatch(batch)
         ELSE buffer' = batch /\ UNCHANGED <<wal, dropped>>
  /\ UNCHANGED <<metaFile, phase, sequence, clean, ring, pending, meta, verdict, session, prev,
                 carried, recovered>>

\* The section of write under buffer_mutex_.
BufferEntry(t) ==
  /\ phase = "up"
  /\ writer[t] # NoSeq
  /\ writer' = [writer EXCEPT ![t] = NoSeq]
  /\ LET batch == Append(buffer, Event(writer[t]))
     IN  IF Len(batch) >= Batch
         THEN FlushBatch(batch)
         ELSE buffer' = batch /\ UNCHANGED <<wal, dropped>>
  /\ UNCHANGED <<metaFile, phase, sequence, clean, ring, pending, meta, verdict, session, prev,
                 carried, recovered>>

---------------------------------------------------------------------------
\* Destruction: ~SynapseCore and the members it destroys

\* The device is destroyed only when no thread records on it.  mark_clean_shutdown
\* goes straight to the log, ahead of what is still in the buffer; it is skipped
\* when clean_shutdown_ is already set.
MarkCleanShutdown ==
  /\ phase = "up"
  /\ \A t \in Threads : writer[t] = NoSeq
  /\ ~clean
  /\ clean' = TRUE
  /\ \/ wal' = Append(wal, Marker(sequence))
     \/ FlushMayFail /\ UNCHANGED wal
  /\ sequence' = sequence + 1
  /\ meta' = [meta EXCEPT !.lastClean = sequence']
  /\ phase' = "exitSave"
  /\ UNCHANGED <<metaFile, buffer, ring, pending, writer, verdict, hist>>

SkipCleanShutdown ==
  /\ phase = "up"
  /\ \A t \in Threads : writer[t] = NoSeq
  /\ clean
  /\ phase' = "closing"
  /\ UNCHANGED <<wal, metaFile, mem, verdict, hist>>

\* The records of session s in a log.
RecordsOf(log, s, type) == {e \in ToSet(log) : e.type = type /\ e.session = s}

\* The process is gone and its memory with it; prev keeps how the session ended.
GoDown(exit) ==
  /\ phase' = "down"
  /\ prev' = [exit |-> exit, marked |-> RecordsOf(wal', session, "marker") # {},
              left |-> Cardinality(RecordsOf(wal', session, "event")), carried |-> carried]
  /\ sequence' = 0
  /\ clean' = FALSE
  /\ ring' = 0
  /\ pending' = << >>
  /\ meta' = Meta0
  /\ writer' = [t \in Threads |-> NoSeq]
  /\ verdict' = FALSE
  /\ UNCHANGED <<metaFile, session, carried, recovered>>

\* ~AtomicTelemetry: flush_buffer; clean_shutdown_ is set, so no second marker.
Close ==
  /\ phase = "closing"
  /\ IF buffer = << >> THEN UNCHANGED <<buffer, wal, dropped>> ELSE FlushBatch(buffer)
  /\ GoDown("clean")

---------------------------------------------------------------------------
\* Crashes

\* The process is killed; only the two files survive.
Crash ==
  /\ phase # "down"
  /\ buffer' = << >>
  /\ UNCHANGED <<wal, dropped>>
  /\ GoDown("crash")

\* The process is killed while a batch is being written.
CrashInFlush(batch) ==
  /\ \E n \in 0 .. Len(batch) - 1, torn \in {FALSE, WritesMayTear} :
       wal' = wal \o SubSeq(batch, 1, n) \o (IF torn THEN <<Torn>> ELSE << >>)
  /\ buffer' = << >>
  /\ UNCHANGED dropped
  /\ GoDown("crash")

CrashInWrite(t) ==
  /\ phase = "up"
  /\ writer[t] # NoSeq
  /\ Len(buffer) + 1 >= Batch
  /\ CrashInFlush(Append(buffer, Event(writer[t])))

CrashInClose ==
  /\ phase = "closing"
  /\ buffer # << >>
  /\ CrashInFlush(buffer)

\* The process is killed while the marker is being appended.
CrashInMark ==
  /\ WritesMayTear
  /\ phase = "up"
  /\ \A t \in Threads : writer[t] = NoSeq
  /\ ~clean
  /\ wal' = Append(wal, Torn)
  /\ buffer' = << >>
  /\ UNCHANGED dropped
  /\ GoDown("crash")

Next ==
  \/ Start \/ Replay \/ Truncate \/ SaveFails \/ SaveOpen \/ SaveWrite
  \/ \E t \in Threads : TakeSequence(t) \/ BufferEntry(t) \/ CrashInWrite(t)
  \/ MarkCleanShutdown \/ SkipCleanShutdown \/ Close
  \/ Crash \/ CrashInClose \/ CrashInMark

Spec == Init /\ [][Next]_vars
---------------------------------------------------------------------------
\* Properties

Records == [session : 0 .. MaxSessions, seq : 0 .. MaxWrites + 1,
            type : {"event", "marker", "torn", "blank"}]

Metadata == [torn : BOOLEAN, recoveries : Nat, entries : Nat, lastClean : Nat, lastWal : Nat]

TypeOK ==
  /\ wal \in Seq(Records)
  /\ metaFile \in Metadata /\ meta \in Metadata
  /\ phase \in {"down", "replay", "truncate", "recoverSave", "recoverWrite", "up",
                "exitSave", "exitWrite", "closing"}
  /\ sequence \in 0 .. MaxWrites + 1
  /\ clean \in BOOLEAN /\ verdict \in BOOLEAN /\ carried \in BOOLEAN
  /\ buffer \in Seq(Records) /\ Len(buffer) < Batch
  /\ ring \in 0 .. RingPlaces
  /\ pending \in Seq(Records)
  /\ writer \in [Threads -> 0 .. MaxWrites \cup {NoSeq}]
  /\ session \in 0 .. MaxSessions
  /\ dropped \subseteq 0 .. MaxWrites

(***************************************************************************)
(* When the log held nothing before a session began to record, the check   *)
(* at the next start tells how that session ended: a session that was      *)
(* killed after some of its entries reached the log is reported as a       *)
(* crash, one that was destroyed and wrote its marker is not.  Holds for   *)
(* any interleaving of the writers, any point of the kill and any torn     *)
(* batch (check_recovery, mark_clean_shutdown).                            *)
(***************************************************************************)
FreshLogDetection ==
  phase # "down" /\ prev.left > 0 /\ ~prev.carried =>
    /\ prev.exit = "clean" /\ prev.marked => ~verdict
    /\ prev.exit = "crash" /\ ~prev.marked => verdict

\* Where the entry with sequence number n of the running session is.
PlacesOf(n) ==
  Cardinality({i \in 1 .. Len(wal) : wal[i] = Event(n)})
    + Cardinality({i \in 1 .. Len(buffer) : buffer[i] = Event(n)})
    + Cardinality({t \in Threads : writer[t] = n})
    + (IF n \in dropped THEN 1 ELSE 0)

(***************************************************************************)
(* Every sequence number a running session has handed out is in exactly    *)
(* one place: held by a writer, in write_buffer_, in the log, or thrown    *)
(* away by a flush that could not open the file.  No entry is lost or      *)
(* written twice while the layer runs.                                     *)
(***************************************************************************)
EntriesAccountedFor ==
  phase = "up" => \A n \in 0 .. sequence - 1 : PlacesOf(n) = 1

\* The threads inside write, between taking a number and buffering the entry.
Carrying == {t \in Threads : writer[t] # NoSeq}

(***************************************************************************)
(* A kill costs a session at most the entries of one unfinished batch and  *)
(* those the threads were still carrying, wherever it strikes.             *)
(***************************************************************************)
LossBounded ==
  [][phase = "up" /\ phase' = "down" /\ dropped = {} =>
       sequence <= prev'.left + (Batch - 1) + Cardinality(Carrying)]_vars

(***************************************************************************)
(* An entry that a completed recovery has replayed never shows up in the   *)
(* log again, so no later start replays it a second time, even when the    *)
(* recovery itself is killed and repeated.                                 *)
(***************************************************************************)
RecoveredOnce == ToSet(wal) \cap recovered.events = {}

(***************************************************************************)
(* The persisted counters never claim a recovery that did not complete:    *)
(* a kill anywhere in recover or save_metadata can only lose counts.       *)
(***************************************************************************)
MetadataNeverOvercounts ==
  ~metaFile.torn =>
    metaFile.recoveries <= recovered.runs /\ metaFile.entries <= recovered.count

---------------------------------------------------------------------------
\* What comments and tests of the repository say and the code does not do

(***************************************************************************)
(* "In a crash, this destructor never runs, so the WAL remains unclean -   *)
(* which is how we detect crashes" (~AtomicTelemetry): a session killed    *)
(* after some of its entries reached the log is reported at the next start.*)
(***************************************************************************)
CrashDetected ==
  phase # "down" /\ prev.exit = "crash" /\ prev.left > 0 /\ ~prev.marked => verdict

=============================================================================

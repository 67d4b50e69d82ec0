--------------------------- MODULE ConfigWatcher ---------------------------
(***************************************************************************)
(* ConfigWatcher (hotreload/config_watcher.h) as SynapseCore uses it: a    *)
(* thread that polls the modification time of config.toml, in seconds, and *)
(* hands the contents to apply_config_content when the time has changed.   *)
(* Meanwhile the user edits, removes and recreates the file, and the       *)
(* destructor stops the watcher.                                           *)
(*                                                                         *)
(* The contents are the number of the edit that wrote them; 0 is what an   *)
(* absent file reads as, and applying it changes nothing.  SynapseCore     *)
(* registers one callback and no validator, so a file is always passed on. *)
(* WatcherComponent states the assumptions about the bounds.               *)
(***************************************************************************)
EXTENDS Naturals

CONSTANTS
  MaxEdits,    \* bound: edits of the file
  MaxTime,     \* bound: seconds
  MaxSkew      \* bound: seconds by which get_mtime may be off

VARIABLES
  now,        \* the clock, in seconds
  file,       \* the contents of config.toml, 0 when it is absent
  mtime,      \* its modification time, 0 when it is absent
  edits,      \* edits so far, the file found or written by start_config_watcher included
  edited,     \* the second of the last edit
  watching,   \* watching_
  pc,         \* where watch_loop is
  last,       \* last_modified_
  seen,       \* its local `current`
  content,    \* its local `content`
  applied,    \* the contents the configuration agrees with, 0 for none
  blurred     \* history: whether modification times ever failed to tell two versions apart

vars == <<now, file, mtime, edits, edited, watching, pc, last, seen, content, applied, blurred>>
world == <<now, file, mtime, edits, edited>>

\* start_config_watcher writes a default file from the configuration, or finds one,
\* which nobody reads.
Init ==
  /\ now = 1 /\ file = 1 /\ mtime = 1
  /\ edits = 1 /\ edited = 1
  /\ watching = TRUE
  /\ pc = "start"
  /\ last = 0 /\ seen = 0 /\ content = 0
  /\ applied \in {0, 1}
  /\ blurred = FALSE

---------------------------------------------------------------------------
\* The user and the clock

Tick ==
  /\ now < MaxTime
  /\ now' = now + 1
  /\ UNCHANGED <<file, mtime, edits, edited, watching, pc, last, seen, content, applied, blurred>>

Edit ==
  /\ edits < MaxEdits
  /\ edits' = edits + 1
  /\ file' = edits + 1
  /\ mtime' = now
  /\ edited' = now
  /\ blurred' = (blurred \/ now = edited \/ pc = "start")
  /\ UNCHANGED <<now, watching, pc, last, seen, content, applied>>

\* An editor that rewrites the file in place empties it first.
Truncate ==
  /\ edits < MaxEdits
  /\ file' = 0
  /\ mtime' = now
  /\ edited' = now
  /\ blurred' = TRUE
  /\ UNCHANGED <<now, edits, watching, pc, last, seen, content, applied>>

Remove ==
  /\ file # 0
  /\ edits < MaxEdits
  /\ file' = 0
  /\ mtime' = 0
  /\ UNCHANGED <<now, edits, edited, watching, pc, last, seen, content, applied, blurred>>

---------------------------------------------------------------------------
\* watch_loop

\* get_mtime: 0 if there is no file; else its time by way of two clocks, which are not
\* read at the same instant.  The order of the two reads is the compiler's choice, so the
\* result can be early or late.
MeasuredTimes ==
  IF mtime = 0 THEN {0} ELSE {t \in 1 .. mtime + MaxSkew : mtime <= t + MaxSkew}

CaptureTime ==
  /\ pc = "start"
  /\ last' \in MeasuredTimes
  /\ blurred' = (blurred \/ last' # mtime)
  /\ pc' = "test"
  /\ UNCHANGED <<world, watching, seen, content, applied>>

\* Variant: the loop does not look at watching_.
TestIgnored ==
  /\ pc = "test"
  /\ pc' = "poll"
  /\ UNCHANGED <<world, watching, last, seen, content, applied, blurred>>

\* The loop condition.
Test ==
  /\ pc = "test"
  /\ pc' = IF watching THEN "poll" ELSE "done"
  /\ UNCHANGED <<world, watching, last, seen, content, applied, blurred>>

\* Variant: only a time two seconds later counts as a change.
PollLater ==
  /\ pc = "poll"
  /\ seen' \in MeasuredTimes
  /\ blurred' = (blurred \/ seen' # mtime)
  /\ pc' = IF seen' > last + 1 THEN "read" ELSE "test"
  /\ UNCHANGED <<world, watching, last, content, applied>>

\* An unchanged time, or none, leads to the sleep and back to the test.
Poll ==
  /\ pc = "poll"
  /\ seen' \in MeasuredTimes
  /\ blurred' = (blurred \/ seen' # mtime)
  /\ pc' = IF seen' # last /\ seen' # 0 THEN "read" ELSE "test"
  /\ UNCHANGED <<world, watching, last, content, applied>>

Read ==
  /\ pc = "read"
  /\ content' = file
  /\ pc' = "notify"
  /\ UNCHANGED <<world, watching, last, seen, applied, blurred>>

\* Variant: keys the file does not have fall back to what they were at the start.
NotifyResets ==
  /\ pc = "notify"
  /\ applied' = content
  /\ last' = seen
  /\ pc' = "test"
  /\ UNCHANGED <<world, watching, seen, content, blurred>>

\* Variant: the second after the poll is remembered.
NotifyNextSecond ==
  /\ pc = "notify"
  /\ applied' = IF content = 0 THEN applied ELSE content
  /\ last' = seen + 1
  /\ pc' = "test"
  /\ UNCHANGED <<world, watching, seen, content, blurred>>

\* notify_all, and the time of the poll, not of the read, is remembered.
Notify ==
  /\ pc = "notify"
  /\ applied' = IF content = 0 THEN applied ELSE content
  /\ last' = seen
  /\ pc' = "test"
  /\ UNCHANGED <<world, watching, seen, content, blurred>>

\* stop: the destructor of SynapseCore then waits for the thread.
Stop ==
  /\ watching
  /\ watching' = FALSE
  /\ UNCHANGED <<world, pc, last, seen, content, applied, blurred>>

Loop == CaptureTime \/ Test \/ Poll \/ Read \/ Notify

Next == Tick \/ Edit \/ Truncate \/ Remove \/ Loop \/ Stop

Spec == Init /\ [][Next]_vars

(***************************************************************************)
(* The watcher thread is scheduled, its sleep ends and its callback        *)
(* returns.  Nothing makes the user edit or the layer stop.                *)
(***************************************************************************)
FairSpec == Spec /\ WF_vars(Loop)

---------------------------------------------------------------------------
\* Properties

TypeOK ==
  /\ now \in 1 .. MaxTime /\ edits \in 1 .. MaxEdits /\ edited \in 1 .. now
  /\ file \in 0 .. edits /\ mtime \in 0 .. now
  /\ watching \in BOOLEAN
  /\ pc \in {"start", "test", "poll", "read", "notify", "done"}
  /\ last \in 0 .. now + MaxSkew /\ seen \in 0 .. now + MaxSkew
  /\ content \in 0 .. edits /\ applied \in 0 .. edits
  /\ blurred \in BOOLEAN

(***************************************************************************)
(* The configuration never falls back to an older version of the file,     *)
(* however edits, truncations, removals and polls interleave and whatever  *)
(* the clocks do.                                                          *)
(***************************************************************************)
NeverOlder == [][applied' >= applied]_vars

(***************************************************************************)
(* "changes take effect immediately": what the user writes while the layer *)
(* is running is applied, unless a later edit replaces it or the layer     *)
(* stops first.  It holds as long as get_mtime reads the exact time and    *)
(* edits replace the file at once, each in a second of its own: an edit in *)
(* the second of the one just read goes unnoticed, and so does one before  *)
(* CaptureTime.                                                            *)
(***************************************************************************)
EditTakesEffect ==
  \A n \in 2 .. MaxEdits :
    (file = n /\ ~blurred) ~> (applied >= n \/ file # n \/ ~watching \/ blurred)

(***************************************************************************)
(* stop's join returns: the loop ends once watching_ is cleared, whatever  *)
(* the file does in the meantime.                                          *)
(***************************************************************************)
StopReturns == ~watching ~> pc = "done"

---------------------------------------------------------------------------
\* What the configuration file says and the code does not do

(***************************************************************************)
(* "Edit while the layer is running - changes take effect immediately", as *)
(* the file start_config_watcher writes begins: every version of the file  *)
(* is applied in the end, unless another replaces it or the layer stops.   *)
(***************************************************************************)
EveryEditTakesEffect ==
  \A n \in 2 .. MaxEdits : file = n ~> (applied >= n \/ file # n \/ ~watching)

=============================================================================

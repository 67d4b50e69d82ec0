---------------------------- MODULE MCLiveConfig ----------------------------
(***************************************************************************)
(* The running configuration for TLC, and the watcher that brings it new   *)
(* contents.  LiveConfig lets any contents arrive at any time, and to      *)
(* ConfigWatcher applying them is one call, so each is checked while the   *)
(* other one rests.                                                        *)
(***************************************************************************)
EXTENDS LiveConfig, WatcherComponent
CONSTANTS w, a, b, balanced, saver, broken, keep
VARIABLE part   \* the one that is at work

TwoCallers == {a, b}
AllProfiles == {balanced, saver, broken}
GoodProfiles == {balanced, saver}

\* A file that only turns JIT off, one that turns it back on, and one that sets a
\* profile and turns telemetry off.
SomeFiles == {[profile |-> keep,  on |-> {},                off |-> {"jit"}],
              [profile |-> keep,  on |-> {"jit", "telemetry"}, off |-> {}],
              [profile |-> saver, on |-> {},                off |-> {"telemetry"}]}

watcherVars == <<now, file, mtime, edits, edited, watching, pc, last, seen, content, applied, blurred>>

\* The watcher starts in two ways; while it rests one of them is enough.
ConfigInit ==
  /\ Init /\ Watch!Init
  /\ \/ part = "config" /\ applied = 0
     \/ part = "watcher"

ConfigNext ==
  \/ part = "config" /\ Next /\ UNCHANGED <<watcherVars, part>>
  \/ part = "watcher" /\ Watch!Next /\ UNCHANGED <<vars, part>>

\* The fairness of ConfigWatcher, while it is at work.
ConfigSpec ==
  /\ ConfigInit
  /\ [][ConfigNext]_<<vars, watcherVars, part>>
  /\ WF_watcherVars(part = "watcher" /\ Watch!Loop /\ UNCHANGED <<vars, part>>)
=============================================================================

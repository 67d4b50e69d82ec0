-------------------------- MODULE WatcherComponent --------------------------
(***************************************************************************)
(* ConfigWatcher under names of its own, so that it can be put beside the  *)
(* configuration it writes to (LiveConfig) without their definitions       *)
(* meeting.                                                                *)
(***************************************************************************)
EXTENDS Naturals

CONSTANTS MaxEdits, MaxTime, MaxSkew   \* see ConfigWatcher

ASSUME WatcherBoundsAssumption ==
  MaxEdits \in Nat \ {0} /\ MaxTime \in Nat \ {0} /\ MaxSkew \in Nat

VARIABLES now, file, mtime, edits, edited, watching, pc, last, seen, content, applied, blurred

Watch == INSTANCE ConfigWatcher

WatcherSpec == Watch!Spec
WatcherFairSpec == Watch!FairSpec

\* The file, the clock and the locals of watch_loop keep their types.
WatcherTypeOK == Watch!TypeOK

\* The configuration never falls back to an older version of the file.
NeverOlder == Watch!NeverOlder

\* What the user writes while the layer is running is applied.
EditTakesEffect == Watch!EditTakesEffect

\* So is every edit, two in the same second included; see ConfigWatcher.
EveryEditTakesEffect == Watch!EveryEditTakesEffect

\* stop's join returns.
StopReturns == Watch!StopReturns

=============================================================================

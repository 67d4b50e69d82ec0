------------------------------ MODULE ModelSwap ------------------------------
(***************************************************************************)
(* AtomicModelSwap (hotreload/ml_hotreload.h): the last kMaxVersions       *)
(* models in an array that is read without a lock.  A load takes its       *)
(* version before it takes load_mutex_; the slot it then fills is an       *)
(* ordinary shared_ptr, so a reader that looks at it meanwhile may see     *)
(* anything.  A loader that returns no model changes nothing.  Inference   *)
(* counts and rewards are not modelled.  Stores are seen in the order they *)
(* are made, as on x64, which the project is built for: the relaxed store  *)
(* of previous_version_ would allow more elsewhere.                        *)
(***************************************************************************)
EXTENDS Naturals

CONSTANTS
  Loaders,   \* threads of schedule_reload
  Readers,   \* threads that call current, decide_with_ab, stats or record_inference
  MaxLoads   \* bound: models loaded

kMaxVersions == 4

VARIABLES
  slots,       \* slots_
  current,     \* current_version_
  previous,    \* previous_version_
  holder,      \* load_mutex_: the loader that has it, if any
  loads,       \* models loaded so far, which number the models
  overlapped,  \* whether a load was ever published over one that its version did not count
  loader,      \* per loader: where it is, and new_ver
  reader       \* per reader: where it is, the version it loaded and what it read

vars == <<slots, current, previous, holder, loads, overlapped, loader, reader>>

NoModel == [version |-> 0, model |-> 0]
Slot(version) == version % kMaxVersions

Init ==
  /\ slots = [i \in 0 .. kMaxVersions - 1 |-> NoModel]
  /\ current = 0 /\ previous = 0
  /\ holder = {}
  /\ loads = 0
  /\ overlapped = FALSE
  /\ loader = [l \in Loaders |-> [pc |-> "idle", new |-> NoModel]]
  /\ reader = [r \in Readers |-> [pc |-> "idle", version |-> 0, got |-> NoModel]]

---------------------------------------------------------------------------
\* load_model_async

NewVersion(l) ==
  /\ loader[l].pc = "idle"
  /\ loads < MaxLoads
  /\ loads' = loads + 1
  /\ loader' = [loader EXCEPT ![l] = [pc |-> "lock", new |-> [version |-> current + 1, model |-> loads']]]
  /\ UNCHANGED <<slots, current, previous, holder, overlapped, reader>>

\* Variant: the version is published before its slot is filled.
KeepPreviousEarly(l) ==
  /\ loader[l].pc = "lock" /\ holder = {}
  /\ holder' = {l}
  /\ previous' = current
  /\ current' = loader[l].new.version
  /\ overlapped' = (overlapped \/ loader[l].new.version # current + 1)
  /\ loader' = [loader EXCEPT ![l].pc = "write"]
  /\ UNCHANGED <<slots, loads, reader>>

\* The mutex is taken, and the version to be replaced is noted.
KeepPrevious(l) ==
  /\ loader[l].pc = "lock" /\ holder = {}
  /\ holder' = {l}
  /\ previous' = current
  /\ overlapped' = (overlapped \/ loader[l].new.version # current + 1)
  /\ loader' = [loader EXCEPT ![l].pc = "write"]
  /\ UNCHANGED <<slots, current, loads, reader>>

\* The assignment to the slot begins and ends; what is read in between is no model.
BeginWrite(l) ==
  /\ loader[l].pc = "write"
  /\ slots' = [slots EXCEPT ![Slot(loader[l].new.version)] = NoModel]
  /\ loader' = [loader EXCEPT ![l].pc = "writing"]
  /\ UNCHANGED <<current, previous, holder, loads, overlapped, reader>>

EndWrite(l) ==
  /\ loader[l].pc = "writing"
  /\ slots' = [slots EXCEPT ![Slot(loader[l].new.version)] = loader[l].new]
  /\ loader' = [loader EXCEPT ![l].pc = "publish"]
  /\ UNCHANGED <<current, previous, holder, loads, overlapped, reader>>

Publish(l) ==
  /\ loader[l].pc = "publish"
  /\ current' = loader[l].new.version
  /\ holder' = {}
  /\ loader' = [loader EXCEPT ![l].pc = "idle"]
  /\ UNCHANGED <<slots, previous, loads, overlapped, reader>>

---------------------------------------------------------------------------
\* current, stats and record_inference; decide_with_ab comes here as well when the two versions agree

LoadCurrent(r) ==
  /\ reader[r].pc \in {"idle", "current"}
  /\ reader' = [reader EXCEPT ![r] = [pc |-> "read", version |-> current, got |-> NoModel]]
  /\ UNCHANGED <<slots, current, previous, holder, loads, overlapped, loader>>

\* decide_with_ab, for the share of the calls that goes to the previous model
LoadPrevious(r) ==
  /\ reader[r].pc = "idle"
  /\ reader' = [reader EXCEPT ![r] = [pc |-> "compare", version |-> previous, got |-> NoModel]]
  /\ UNCHANGED <<slots, current, previous, holder, loads, overlapped, loader>>

Compare(r) ==
  /\ reader[r].pc = "compare"
  /\ reader' = [reader EXCEPT ![r].pc = IF reader[r].version # current THEN "read" ELSE "current"]
  /\ UNCHANGED <<slots, current, previous, holder, loads, overlapped, loader>>

\* The reader has a reference to the slot, and follows the pointer in it.
ReadSlot(r) ==
  /\ reader[r].pc = "read"
  /\ reader' = [reader EXCEPT ![r].pc = "follow", ![r].got = slots[Slot(reader[r].version)]]
  /\ UNCHANGED <<slots, current, previous, holder, loads, overlapped, loader>>

\* It goes on to read or copy members through the slot, and has a whole model only if the
\* slot is still what it was.
Dereference(r) ==
  LET seen == slots[Slot(reader[r].version)] IN
  /\ reader[r].pc = "follow"
  /\ reader' = [reader EXCEPT ![r].pc = "got", ![r].got = IF seen = @ THEN @ ELSE NoModel]
  /\ UNCHANGED <<slots, current, previous, holder, loads, overlapped, loader>>

Done(r) ==
  /\ reader[r].pc = "got"
  /\ reader' = [reader EXCEPT ![r] = [pc |-> "idle", version |-> 0, got |-> NoModel]]
  /\ UNCHANGED <<slots, current, previous, holder, loads, overlapped, loader>>

Next ==
  \/ \E l \in Loaders :
       NewVersion(l) \/ KeepPrevious(l) \/ BeginWrite(l) \/ EndWrite(l) \/ Publish(l)
  \/ \E r \in Readers :
       LoadCurrent(r) \/ LoadPrevious(r) \/ Compare(r) \/ ReadSlot(r) \/ Dereference(r) \/ Done(r)

Spec == Init /\ [][Next]_vars

---------------------------------------------------------------------------
\* Properties

Versions == [version : Nat, model : Nat]

TypeOK ==
  /\ slots \in [0 .. kMaxVersions - 1 -> Versions]
  /\ current \in Nat /\ previous \in Nat
  /\ holder \subseteq Loaders
  /\ loads \in Nat
  /\ overlapped \in BOOLEAN
  /\ loader \in [Loaders -> [pc : {"idle", "lock", "write", "writing", "publish"}, new : Versions]]
  /\ reader \in [Readers -> [pc : {"idle", "compare", "current", "read", "follow", "got"},
                             version : Nat, got : Versions]]

(***************************************************************************)
(* "Get current model for inference (lock-free read)": a reader that       *)
(* loaded a version gets the model of that version, whole, although loads  *)
(* go on: its slot is filled before the version can be seen, and not       *)
(* touched again until kMaxVersions - 1 newer ones are there.  This is so  *)
(* as long as no two loads overlap.                                        *)
(***************************************************************************)
ModelServed ==
  \A r \in Readers :
    /\ reader[r].pc = "got" /\ reader[r].version >= 1
    /\ ~overlapped /\ current < reader[r].version + kMaxVersions - 1
    => reader[r].got.version = reader[r].version

\* What ModelServed rests on, as long as no two loads overlap: load_mutex_ excludes, whoever
\* has it is about to publish the next version, the last three versions are in their slots,
\* and so is the one before them until its slot is written again.
Inside(l) == loader[l].pc \in {"write", "writing", "publish"}

SlotsFilled ==
  /\ \A l \in Loaders : Inside(l) <=> holder = {l}
  /\ ~overlapped =>
       /\ \A l \in Loaders : Inside(l) => loader[l].new.version = current + 1
       /\ \A l \in Loaders : loader[l].pc = "publish" => slots[Slot(current + 1)].version = current + 1
       /\ \A v \in Nat : 1 <= v /\ v <= current /\ current < v + kMaxVersions - 1 => slots[Slot(v)].version = v
       /\ \A v \in Nat : 1 <= v /\ current = v + kMaxVersions - 1
                          /\ (\A l \in Loaders : loader[l].pc \notin {"writing", "publish"})
                         => slots[Slot(v)].version = v
       /\ previous <= current
       /\ \A r \in Readers : reader[r].version <= current

\* With it: the slot that a reader follows stays as it is.
SlotHeld ==
  \A r \in Readers :
    /\ reader[r].pc = "follow" /\ reader[r].version >= 1
    /\ ~overlapped /\ current < reader[r].version + kMaxVersions - 1
    => reader[r].got = slots[Slot(reader[r].version)]

=============================================================================

----------------------------- MODULE LiveConfig -----------------------------
(***************************************************************************)
(* The running configuration of the layer: AtomicConfig                    *)
(* (atomic/atomic_config.h), the feature switches of GracefulDegradation   *)
(* (atomic/graceful_degradation.h), and the operations of SynapseCore that *)
(* write them (synapse_core.cpp): the config watcher's                     *)
(* apply_config_content, sync_config_from_profile (also behind             *)
(* apply_preset), the degradation around crash recovery, and the one       *)
(* around a JIT cache miss in execute_jit_path.                            *)
(*                                                                         *)
(* Each operation is split at every access to current_, version_ or        *)
(* features_.  The settings that come from a user profile (power budget,   *)
(* thermal target, ml_aggressive) are one value; learning_rate and epsilon *)
(* behave like it and are left out.  Every feature is registered before    *)
(* the threads start, so the unlocked map of features_ never changes shape *)
(* and its entries are read and written one at a time.                     *)
(***************************************************************************)
EXTENDS Naturals, Sequences

CONSTANTS
  Watcher,         \* the thread of ConfigWatcher
  Callers,         \* the threads of the application
  Profiles,        \* profile settings
  ValidProfiles,   \* those that validate accepts
  DefaultProfile,  \* the one ConfigSnapshot starts with
  Keep,            \* a setting a config file does not mention, or sets out of range
  Contents,        \* config files: a profile or Keep, and the features set on and off
  MaxOps           \* bound: operations started

Features == {"jit", "hai", "telemetry"}
FeatureOrder == <<"jit", "hai", "telemetry">>

ASSUME ThreadsAssumption == Watcher \notin Callers
ASSUME ProfilesAssumption == ValidProfiles \subseteq Profiles /\ DefaultProfile \in ValidProfiles
ASSUME ContentsAssumption ==
  Contents \subseteq [profile : ValidProfiles \cup {Keep}, on : SUBSET Features, off : SUBSET Features]
ASSUME KeepAssumption == Keep \notin Profiles
ASSUME MaxOpsAssumption == MaxOps \in Nat

VARIABLES
  current,    \* *current_
  version,    \* version_
  features,   \* features_
  thr,        \* per thread: the operation it is in, and its locals
  booted,     \* whether CreateDevice is past check_and_recover
  ops,        \* operations started
  asked,      \* history: what the stored updates asked for, in the order they were stored
  overlapped  \* history: whether two operations were ever under way at once

history == <<asked, overlapped>>
vars == <<current, version, features, thr, booted, ops, history>>

Threads == Callers \cup {Watcher}

Snapshots == [version : Nat, profile : Profiles, flags : SUBSET Features]
FeatureStates == {"Enabled", "Degraded", "Disabled", "Fallback"}

\* The configuration after the constructor's own sync_config_from_profile.
Default == [version |-> 1, profile |-> DefaultProfile, flags |-> Features]
Nothing == [profile |-> Keep, on |-> {}, off |-> {}]
Idle == [op |-> "none", pc |-> "idle", ask |-> Nothing, snap |-> Default, new |-> Default,
         todo |-> << >>]

Init ==
  /\ current = Default
  /\ version = 1
  /\ features = [f \in Features |-> "Enabled"]
  /\ thr = [t \in Threads |-> Idle]
  /\ booted = FALSE
  /\ ops = 0
  /\ asked = [profile |-> DefaultProfile, flags |-> Features]
  /\ overlapped = FALSE

\* handle_error: recovery restores the state the feature was registered with.
HandleError(f, code) ==
  features' = [features EXCEPT ![f] = CASE code = 0 -> "Enabled"
                                        [] code = 1 -> "Degraded"
                                        [] code = 3 -> "Fallback"
                                        [] OTHER    -> "Disabled"]

IsAvailable(f) == features[f] \in {"Enabled", "Degraded"}

\* validate: only the profile settings can be out of range here.
Validate(s) == s.profile \in ValidProfiles

\* What the keys of a config file, or a profile, do to a snapshot.
Overlay(base, ask) ==
  [base EXCEPT !.profile = IF ask.profile = Keep THEN base.profile ELSE ask.profile,
               !.flags = (base.flags \cup ask.on) \ ask.off]

---------------------------------------------------------------------------
\* Starting an operation

\* The creation of the device, recovery included, counts as one operation that is under
\* way until it is booted.
Busy(t) == (\E u \in Threads \ {t} : thr[u].pc # "idle") \/ (t = Watcher /\ ~booted)

Begin(t, locals) ==
  /\ thr[t].pc = "idle"
  /\ ops < MaxOps
  /\ ops' = ops + 1
  /\ thr' = [thr EXCEPT ![t] = locals]
  /\ overlapped' = (overlapped \/ Busy(t))
  /\ asked' = asked

\* apply_config_content: read the current values and parse the file over them.
ApplyContent(ask) ==
  /\ Begin(Watcher, [Idle EXCEPT !.op = "apply", !.pc = "load", !.ask = ask,
                                 !.snap = Overlay(current, ask)])
  /\ UNCHANGED <<current, version, features, booted>>

\* sync_config_from_profile: the plan of the user profile goes into the config.
SyncProfile(t, p) ==
  /\ booted
  /\ Begin(t, [Idle EXCEPT !.op = "sync", !.pc = "load", !.ask = [Nothing EXCEPT !.profile = p]])
  /\ UNCHANGED <<current, version, features, booted>>

\* execute_jit_path: reached only when the feature is available.
JitMiss(t) ==
  /\ booted
  /\ IsAvailable("jit")
  /\ Begin(t, [Idle EXCEPT !.op = "jit", !.pc = "degrade"])
  /\ UNCHANGED <<current, version, features, booted>>

\* check_and_recover, in CreateDevice: nothing to recover, or telemetry is degraded
\* while the log is replayed.
NothingToRecover ==
  /\ ~booted
  /\ \A t \in Callers : thr[t].pc = "idle"
  /\ booted' = TRUE
  /\ UNCHANGED <<current, version, features, thr, ops, history>>

Recover(t) ==
  /\ ~booted
  /\ \A u \in Callers : thr[u].pc = "idle"
  /\ Begin(t, [Idle EXCEPT !.op = "recover", !.pc = "degrade"])
  /\ UNCHANGED <<current, version, features, booted>>

---------------------------------------------------------------------------
\* AtomicConfig::update

UpdateLoad(t) ==
  /\ thr[t].pc = "load"
  /\ thr' = [thr EXCEPT ![t].new = current, ![t].pc = "mutate"]
  /\ UNCHANGED <<current, version, features, booted, ops, history>>

\* Variant: the profile's update starts from a fresh snapshot.
MutatedFresh(t) ==
  IF thr[t].op = "apply" THEN thr[t].snap
  ELSE Overlay([Default EXCEPT !.version = version + 1], thr[t].ask)

\* The watcher's mutator replaces the whole snapshot, its version included; the
\* profile's sets only its own fields.
Mutated(t) ==
  IF thr[t].op = "apply" THEN thr[t].snap
  ELSE Overlay([thr[t].new EXCEPT !.version = version + 1], thr[t].ask)

\* Variant: the new snapshot is stored without a look at validate.
UpdateMutateUnchecked(t) ==
  /\ thr[t].pc = "mutate"
  /\ thr' = [thr EXCEPT ![t].new = Mutated(t), ![t].pc = "store"]
  /\ UNCHANGED <<current, version, features, booted, ops, history>>

\* The load of version_, the mutator and validate; a refused update goes on to the flags.
UpdateMutate(t) ==
  /\ thr[t].pc = "mutate"
  /\ thr' = [thr EXCEPT ![t] =
       IF Validate(Mutated(t))
       THEN [thr[t] EXCEPT !.new = Mutated(t), !.pc = "store"]
       ELSE [thr[t] EXCEPT !.pc = "flags", !.todo = FeatureOrder]]
  /\ UNCHANGED <<current, version, features, booted, ops, history>>

UpdateStore(t) ==
  /\ thr[t].pc = "store"
  /\ current' = thr[t].new
  /\ asked' = Overlay(asked, thr[t].ask)
  /\ overlapped' = overlapped
  /\ thr' = [thr EXCEPT ![t].pc = "bump"]
  /\ UNCHANGED <<version, features, booted, ops>>

UpdateBump(t) ==
  /\ thr[t].pc = "bump"
  /\ version' = version + 1
  /\ thr' = [thr EXCEPT ![t].pc = "flags", ![t].todo = FeatureOrder]
  /\ UNCHANGED <<current, features, booted, ops, history>>

---------------------------------------------------------------------------
\* Passing the flags on to the feature switches

\* sync_config_from_profile reads the config again for every flag.
FlagRead(t) ==
  /\ thr[t].pc = "flags" /\ thr[t].op = "sync" /\ thr[t].todo # << >>
  /\ thr' = [thr EXCEPT ![t].snap = current, ![t].pc = "set"]
  /\ UNCHANGED <<current, version, features, booted, ops, history>>

\* Variant: a flag that is off is left as it is.
FlagSetOnly(t) ==
  /\ thr[t].todo # << >>
  /\ thr[t].pc = IF thr[t].op = "sync" THEN "set" ELSE "flags"
  /\ IF Head(thr[t].todo) \in thr[t].snap.flags THEN HandleError(Head(thr[t].todo), 0)
     ELSE UNCHANGED features
  /\ thr' = [thr EXCEPT ![t].todo = Tail(@), ![t].pc = "flags"]
  /\ UNCHANGED <<current, version, booted, ops, history>>

\* apply_config_content uses the snapshot it parsed, whether or not it was stored.
FlagSet(t) ==
  /\ thr[t].todo # << >>
  /\ thr[t].pc = IF thr[t].op = "sync" THEN "set" ELSE "flags"
  /\ HandleError(Head(thr[t].todo), IF Head(thr[t].todo) \in thr[t].snap.flags THEN 0 ELSE 2)
  /\ thr' = [thr EXCEPT ![t].todo = Tail(@), ![t].pc = "flags"]
  /\ UNCHANGED <<current, version, booted, ops, history>>

FlagsDone(t) ==
  /\ thr[t].pc = "flags" /\ thr[t].todo = << >>
  /\ thr' = [thr EXCEPT ![t] = Idle]
  /\ UNCHANGED <<current, version, features, booted, ops, history>>

---------------------------------------------------------------------------
\* Degrading a feature for the time of a fallback

Degradable(t) == IF thr[t].op = "jit" THEN "jit" ELSE "telemetry"

Degrade(t) ==
  /\ thr[t].pc = "degrade"
  /\ HandleError(Degradable(t), 1)
  /\ thr' = [thr EXCEPT ![t].pc = "restore"]
  /\ UNCHANGED <<current, version, booted, ops, history>>

Restore(t) ==
  /\ thr[t].pc = "restore"
  /\ HandleError(Degradable(t), 0)
  /\ booted' = TRUE
  /\ thr' = [thr EXCEPT ![t] = Idle]
  /\ UNCHANGED <<current, version, ops, history>>

Step(t) ==
  \/ UpdateLoad(t) \/ UpdateMutate(t) \/ UpdateStore(t) \/ UpdateBump(t)
  \/ FlagRead(t) \/ FlagSet(t) \/ FlagsDone(t)
  \/ Degrade(t) \/ Restore(t)

Next ==
  \/ \E ask \in Contents : ApplyContent(ask)
  \/ NothingToRecover
  \/ \E t \in Callers : JitMiss(t) \/ Recover(t) \/ \E p \in Profiles : SyncProfile(t, p)
  \/ \E t \in Threads : Step(t)

Spec == Init /\ [][Next]_vars

---------------------------------------------------------------------------
\* Properties

Asks == [profile : Profiles \cup {Keep}, on : SUBSET Features, off : SUBSET Features]

Locals ==
  [op : {"none", "apply", "sync", "jit", "recover"},
   pc : {"idle", "load", "mutate", "store", "bump", "flags", "set", "degrade", "restore"},
   ask : Asks, snap : Snapshots, new : Snapshots, todo : Seq(Features)]

TypeOK ==
  /\ current \in Snapshots
  /\ version \in Nat
  /\ features \in [Features -> FeatureStates]
  /\ thr \in [Threads -> Locals]
  /\ booted \in BOOLEAN
  /\ ops \in 0 .. MaxOps
  /\ asked \in [profile : Profiles, flags : SUBSET Features]
  /\ overlapped \in BOOLEAN

Quiet == \A t \in Threads : thr[t].pc = "idle"

(***************************************************************************)
(* "validated": whatever threads interleave, every snapshot a reader can   *)
(* see passed validate, also when the watcher stores one it assembled from *)
(* a read made long before.                                                *)
(***************************************************************************)
OnlyValidSnapshots == Validate(current)

\* What a thread still holds is valid, for the proof of OnlyValidSnapshots.
HeldSnapshotsValid ==
  \A t \in Threads : Validate(thr[t].snap) /\ (thr[t].pc = "store" => Validate(thr[t].new))

ConfigInv == OnlyValidSnapshots /\ HeldSnapshotsValid

(***************************************************************************)
(* As long as no two operations overlap, a feature can be used exactly     *)
(* when the configuration has it on: neither a refused profile, nor a JIT  *)
(* miss, nor recovery leaves a switch of GracefulDegradation in the wrong  *)
(* position.                                                               *)
(***************************************************************************)
FeaturesFollowConfig ==
  Quiet /\ booted /\ ~overlapped => \A f \in Features : IsAvailable(f) <=> f \in current.flags

(***************************************************************************)
(* As long as no two operations overlap, the configuration holds what each *)
(* stored update asked for, and no update undoes what another one set and  *)
(* it does not mention.                                                    *)
(***************************************************************************)
NoLostUpdate == ~overlapped => current.profile = asked.profile /\ current.flags = asked.flags

=============================================================================

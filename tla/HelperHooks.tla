---------------------------- MODULE HelperHooks ----------------------------
(***************************************************************************)
(* The D3D12 helper DLL (synapse_d3d12_helper_dll.cpp): a table of         *)
(* function pointers it has replaced, and the cores that load, attach and  *)
(* detach it (try_attach_d3d12_helper and ~SynapseCore in                  *)
(* synapse_core.cpp).  Every operation of the DLL runs under g_mutex, so   *)
(* each is one step; changing the protection of a page may fail in any of  *)
(* them.  A device attaches twice: in the constructor of its core, and     *)
(* again in vkCreateDevice.  Whoever else uses the DLL may have loaded it  *)
(* beforehand; with the last reference the table is gone.                  *)
(*                                                                         *)
(* An operation that fails or refuses its arguments changes nothing and is *)
(* not a step, except where it forgets what it had.                        *)
(***************************************************************************)
EXTENDS Naturals, Sequences, FiniteSets

CONSTANTS
  Targets,       \* addresses of function pointers
  Functions,     \* what they may point to
  Genuine,       \* what each points to when nobody has hooked it
  Places,        \* the size of g_hooks
  Cores          \* the SynapseCores of the process

ASSUME GenuineAssumption == Genuine \in [Targets -> Functions]
ASSUME PlacesAssumption == Places \in Nat
ASSUME CoresAssumption == IsFiniteSet(Cores)

VARIABLES
  slot,       \* what is stored at each target
  hooks,      \* the first g_hook_count records of g_hooks, all of them active
  ready,      \* g_ready
  refs,       \* how often the process has loaded the DLL
  core,       \* per core: how far its creation is, and whether d3d12_helper_module_ is set
  stranded    \* history: the targets a shutdown or an unload did not restore

vars == <<slot, hooks, ready, refs, core, stranded>>
table == <<slot, hooks, stranded>>

Init ==
  /\ slot = Genuine
  /\ hooks = << >>
  /\ ready = FALSE
  /\ refs \in {0, 1}
  /\ core = [c \in Cores |-> [pc |-> "none", module |-> FALSE]]
  /\ stranded = {}

---------------------------------------------------------------------------
\* The table

Hooked(t) == \E i \in 1 .. Len(hooks) : hooks[i].target = t

\* Variant: a target may be hooked a second time.
InstallHookTwice(t, r) ==
  /\ refs > 0 /\ Len(hooks) < Places
  /\ hooks' = Append(hooks, [target |-> t, original |-> slot[t], replacement |-> r])
  /\ slot' = [slot EXCEPT ![t] = r]
  /\ ready' = TRUE
  /\ UNCHANGED <<refs, core, stranded>>

\* install_hook, when the target is new and there is room.
InstallHook(t, r) ==
  /\ ~Hooked(t)
  /\ refs > 0 /\ Len(hooks) < Places
  /\ hooks' = Append(hooks, [target |-> t, original |-> slot[t], replacement |-> r])
  /\ slot' = [slot EXCEPT ![t] = r]
  /\ ready' = TRUE
  /\ UNCHANGED <<refs, core, stranded>>

\* Variant: the records are moved up one place too low.
WithoutShifted(i) == [j \in 1 .. Len(hooks) - 1 |-> IF j <= i THEN hooks[j] ELSE hooks[j + 1]]

\* The records after the i-th move up by one.
Without(i) == [j \in 1 .. Len(hooks) - 1 |-> IF j < i THEN hooks[j] ELSE hooks[j + 1]]

\* remove_hook, for a target that is hooked and the original it was given.
RemoveHook(i) ==
  /\ refs > 0 /\ i <= Len(hooks)
  /\ slot' = [slot EXCEPT ![hooks[i].target] = hooks[i].original]
  /\ hooks' = Without(i)
  /\ ready' = (Len(hooks) > 1)
  /\ UNCHANGED <<refs, core, stranded>>

\* Restoring each record, where the page of a target in failed stays protected.
Restored(failed) ==
  [t \in Targets |->
     IF Hooked(t) /\ t \notin failed
     THEN (hooks[CHOOSE i \in 1 .. Len(hooks) : hooks[i].target = t]).original
     ELSE slot[t]]

\* shutdown drops every record, whether it was restored or not.
Shutdown ==
  /\ \E failed \in SUBSET {t \in Targets : Hooked(t)} :
       /\ slot' = Restored(failed)
       /\ stranded' = stranded \cup failed
  /\ hooks' = << >>
  /\ ready' = FALSE

\* detach_process_hooks, called by whoever else has loaded the DLL.
DetachProcessHooks ==
  /\ refs > 0
  /\ Shutdown
  /\ UNCHANGED <<refs, core>>

---------------------------------------------------------------------------
\* The cores

\* A core is constructed and attaches (pc "none"), and vkCreateDevice attaches once more.
Attaching(c) == core[c].pc \in {"none", "constructed"}
Attached(c) == IF core[c].pc = "none" THEN "constructed" ELSE "up"

\* LoadLibrary and attach_process_hooks succeed.
AttachHelper(c) ==
  /\ Attaching(c)
  /\ refs' = refs + 1
  /\ ready' = TRUE
  /\ core' = [core EXCEPT ![c] = [pc |-> Attached(c), module |-> TRUE]]
  /\ UNCHANGED table

\* The DLL or its entry point is not found (attach_process_hooks itself returns g_init_hr, which
\* is S_OK): a module the core had is forgotten, and its reference with it.
AttachFails(c) ==
  /\ Attaching(c)
  /\ core' = [core EXCEPT ![c] = [pc |-> Attached(c), module |-> FALSE]]
  /\ UNCHANGED <<table, ready, refs>>

\* ~SynapseCore begins with detach_process_hooks.
DetachCore(c) ==
  /\ core[c].pc = "up" /\ core[c].module
  /\ Shutdown
  /\ core' = [core EXCEPT ![c].pc = "detached"]
  /\ UNCHANGED refs

\* The DLL has no DllMain: what was hooked meanwhile stays so when its table is unloaded.
Unload ==
  /\ hooks' = << >> /\ ready' = FALSE
  /\ stranded' = stranded \cup {t \in Targets : Hooked(t)}

\* Variant: the library is freed as often as it was attached.
FreeHelperTwice(c) ==
  /\ core[c].pc = "detached"
  /\ refs' = IF refs > 1 THEN refs - 2 ELSE 0
  /\ \/ refs > 2 /\ UNCHANGED <<hooks, ready, stranded>>
     \/ refs <= 2 /\ Unload
  /\ core' = [core EXCEPT ![c] = [pc |-> "gone", module |-> FALSE]]
  /\ UNCHANGED slot

\* It goes on with FreeLibrary, once.
FreeHelper(c) ==
  /\ core[c].pc = "detached"
  /\ refs' = refs - 1
  /\ \/ refs > 1 /\ UNCHANGED <<hooks, ready, stranded>>
     \/ refs = 1 /\ Unload
  /\ core' = [core EXCEPT ![c] = [pc |-> "gone", module |-> FALSE]]
  /\ UNCHANGED slot

\* A core without the module leaves the DLL alone.
DestroyCoreWithout(c) ==
  /\ core[c].pc = "up" /\ ~core[c].module
  /\ core' = [core EXCEPT ![c].pc = "gone"]
  /\ UNCHANGED <<table, ready, refs>>

Next ==
  \/ \E t \in Targets, r \in Functions : InstallHook(t, r)
  \/ \E i \in 1 .. Places : RemoveHook(i)
  \/ DetachProcessHooks
  \/ \E c \in Cores : \/ AttachHelper(c) \/ AttachFails(c)
                      \/ DetachCore(c) \/ FreeHelper(c) \/ DestroyCoreWithout(c)

Spec == Init /\ [][Next]_vars

---------------------------------------------------------------------------
\* Properties

Records == [target : Targets, original : Functions, replacement : Functions]

TypeOK ==
  /\ slot \in [Targets -> Functions]
  /\ hooks \in Seq(Records) /\ Len(hooks) <= Places
  /\ ready \in BOOLEAN
  /\ refs \in Nat
  /\ core \in [Cores -> [pc : {"none", "constructed", "up", "detached", "gone"}, module : BOOLEAN]]
  /\ stranded \subseteq Targets

(***************************************************************************)
(* The table describes the memory: no target has two records, and what is  *)
(* stored at the target of a record is its replacement, after any sequence *)
(* of installs, removals (which move records) and detaches.                *)
(***************************************************************************)
TableMatchesMemory ==
  /\ \A i, j \in 1 .. Len(hooks) : hooks[i].target = hooks[j].target => i = j
  /\ \A i \in 1 .. Len(hooks) : slot[hooks[i].target] = hooks[i].replacement

(***************************************************************************)
(* Nothing is left behind: a target without a record points to its genuine *)
(* function, and the original of a record is the genuine one, so removing  *)
(* hooks in any order restores the process, except for targets a shutdown  *)
(* could not write to or that were hooked when the DLL was unloaded.       *)
(***************************************************************************)
GenuineRestored ==
  /\ \A t \in Targets : ~Hooked(t) /\ t \notin stranded => slot[t] = Genuine[t]
  /\ \A i \in 1 .. Len(hooks) :
       hooks[i].target \notin stranded => hooks[i].original = Genuine[hooks[i].target]

(***************************************************************************)
(* "Return whether helper hooks are currently installed": is_ready is      *)
(* never false while a hook is installed.                                  *)
(***************************************************************************)
ReadyWhileHooked == hooks # << >> => ready

(***************************************************************************)
(* The DLL is never unloaded under a core that still has its module,       *)
(* however cores come and go and attachments fail: the second reference    *)
(* every device takes is never given back.                                 *)
(***************************************************************************)
LoadedWhileNeeded == \A c \in Cores : core[c].module => refs > 0

---------------------------------------------------------------------------
\* The inductive invariant behind them.

\* Each core that has the module owns at least one of the references.
Holders == {c \in Cores : core[c].module}
RefsCover == /\ Cardinality(Holders) <= refs
             /\ \A c \in Cores : core[c].pc = "detached" => core[c].module

HookInv == TypeOK /\ TableMatchesMemory /\ GenuineRestored /\ ReadyWhileHooked /\ RefsCover

=============================================================================

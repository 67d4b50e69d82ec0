--------------------------- MODULE DeviceLifecycle ---------------------------
(***************************************************************************)
(* Creation and destruction of instances and devices in layer_entry.cpp:   *)
(* the maps g_instances and g_devices, which every other entry point       *)
(* searches by dispatch key, and the user profile a device leaves behind   *)
(* in user_profile.dat for the next one.                                   *)
(*                                                                         *)
(* Threads of the application create and destroy objects at the same time, *)
(* within what Vulkan allows: an object is used and destroyed by nobody    *)
(* else once its destruction begins, and an instance goes after its own    *)
(* devices.  The driver gives a key out again as soon as it is free, and   *)
(* the process may be killed at any moment.                                *)
(***************************************************************************)
EXTENDS Naturals

CONSTANTS
  Threads,         \* threads of the application
  Keys,            \* dispatch keys
  Profiles,        \* user profiles
  DefaultProfile,  \* the one a UserProfile is constructed with
  Absent,          \* user_profile.dat does not exist
  NoThread,        \* g_device_mutex is free
  MaxCreated       \* bound: objects created

Kinds == {"instance", "device"}
Files == Profiles \cup {Absent}

ASSUME KeysAssumption == Keys # {}
ASSUME DefaultAssumption == DefaultProfile \in Profiles
ASSUME AbsentAssumption == Absent \notin Profiles
ASSUME NoThreadAssumption == NoThread \notin Threads
ASSUME MaxCreatedAssumption == MaxCreated \in Nat

VARIABLES
  live,       \* the driver's objects: per kind and key the number of the object, 0 for none
  table,      \* g_instances and g_devices: the object an entry was made for, 0 for no entry
  parent,     \* the instance each device was created from; of no meaning without the device
  owned,      \* the objects the application may use
  profile,    \* user_profile_ of the core in g_devices
  file,       \* user_profile.dat
  lock,       \* the holder of g_device_mutex between two steps
  thr,        \* per thread: the call it is in
  created,    \* objects created so far
  chosen,     \* history: the last preset the user chose
  kept,       \* history: the last preset chosen when a profile was saved
  overlapped, \* history: whether two devices were ever up at the same time
  torn        \* history: whether a kill ever hit the save of a profile

maps == <<live, table, parent, owned, created>>
history == <<chosen, kept, overlapped, torn>>
vars == <<maps, profile, file, lock, thr, history>>

Outside == [pc |-> "outside", kind |-> "device", key |-> CHOOSE k \in Keys : TRUE, open |-> FALSE]
Nobody == [kind \in Kinds |-> [k \in Keys |-> 0]]

Init ==
  /\ live = Nobody /\ table = Nobody
  /\ parent = [k \in Keys |-> k]
  /\ owned = [kind \in Kinds |-> {}]
  /\ profile = [k \in Keys |-> DefaultProfile]
  /\ file = Absent
  /\ lock = NoThread
  /\ thr = [t \in Threads |-> Outside]
  /\ created = 0
  /\ chosen = DefaultProfile /\ kept = DefaultProfile
  /\ overlapped = FALSE /\ torn = FALSE

\* The object thread t is creating or destroying.
At(t, f) == f[thr[t].kind][thr[t].key]

Inside(t, pc, kind, k, open) ==
  thr' = [thr EXCEPT ![t] = [pc |-> pc, kind |-> kind, key |-> k, open |-> open]]
Leave(t) == thr' = [thr EXCEPT ![t] = Outside]

---------------------------------------------------------------------------
\* Creation

\* The next layer creates the object.  A missing link or a failure there returns early and
\* changes nothing.
NextCreates(t, kind, k) ==
  /\ thr[t].pc = "outside"
  /\ created < MaxCreated
  /\ live[kind][k] = 0
  /\ \/ kind = "instance" /\ parent' = parent
     \/ kind = "device" /\ \E i \in owned["instance"] : parent' = [parent EXCEPT ![k] = i]
  /\ live' = [live EXCEPT ![kind][k] = created + 1]
  /\ created' = created + 1
  /\ Inside(t, "insert", kind, k, FALSE)
  /\ UNCHANGED <<table, owned, profile, file, lock, history>>

InsertInstance(t) ==
  /\ thr[t].pc = "insert" /\ thr[t].kind = "instance"
  /\ table' = [table EXCEPT !["instance"][thr[t].key] = At(t, live)]
  /\ owned' = [owned EXCEPT !["instance"] = @ \cup {thr[t].key}]
  /\ Leave(t)
  /\ UNCHANGED <<live, parent, created, profile, file, lock, history>>

\* Variant: the persisted profile is not loaded.
InsertDeviceFresh(t) ==
  /\ thr[t].pc = "insert" /\ thr[t].kind = "device"
  /\ lock = NoThread
  /\ table' = [table EXCEPT !["device"][thr[t].key] = At(t, live)]
  /\ owned' = [owned EXCEPT !["device"] = @ \cup {thr[t].key}]
  /\ profile' = [profile EXCEPT ![thr[t].key] = DefaultProfile]
  /\ overlapped' = (overlapped \/ \E k \in Keys : table["device"][k] # 0)
  /\ Leave(t)
  /\ UNCHANGED <<live, parent, created, file, lock, chosen, kept, torn>>

\* With g_device_mutex held throughout: the entry, its SynapseCore, the blocklist, recovery
\* (see WalRecovery), and the profile if there is a file.
InsertDevice(t) ==
  /\ thr[t].pc = "insert" /\ thr[t].kind = "device"
  /\ lock = NoThread
  /\ table' = [table EXCEPT !["device"][thr[t].key] = At(t, live)]
  /\ owned' = [owned EXCEPT !["device"] = @ \cup {thr[t].key}]
  /\ profile' = [profile EXCEPT ![thr[t].key] = IF file = Absent THEN DefaultProfile ELSE file]
  /\ overlapped' = (overlapped \/ \E k \in Keys : table["device"][k] # 0)
  /\ Leave(t)
  /\ UNCHANGED <<live, parent, created, file, lock, chosen, kept, torn>>

\* SynapseCore::apply_preset on a device that is up.
ApplyPreset(k, p) ==
  /\ k \in owned["device"]
  /\ profile' = [profile EXCEPT ![k] = p]
  /\ chosen' = p
  /\ UNCHANGED <<maps, file, lock, thr, kept, overlapped, torn>>

---------------------------------------------------------------------------
\* Destruction: first out of the map, then to the next layer.

\* No device of instance i is left.
Childless(i) == \A k \in Keys : live["device"][k] # 0 => parent[k] # i

\* Variant: the entry stays in the map.
EraseInstanceKept(t, k) ==
  /\ thr[t].pc = "outside"
  /\ k \in owned["instance"]
  /\ Childless(k)
  /\ owned' = [owned EXCEPT !["instance"] = @ \ {k}]
  /\ Inside(t, "destroy", "instance", k, FALSE)
  /\ UNCHANGED <<live, table, parent, created, profile, file, lock, history>>

EraseInstance(t, k) ==
  /\ thr[t].pc = "outside"
  /\ k \in owned["instance"]
  /\ Childless(k)
  /\ table' = [table EXCEPT !["instance"][k] = 0]
  /\ owned' = [owned EXCEPT !["instance"] = @ \ {k}]
  /\ Inside(t, "destroy", "instance", k, FALSE)
  /\ UNCHANGED <<live, parent, created, profile, file, lock, history>>

\* Opening user_profile.dat empties it; or it cannot be opened.
OpenProfile(t, k) ==
  /\ thr[t].pc = "outside"
  /\ k \in owned["device"]
  /\ lock = NoThread /\ lock' = t
  /\ owned' = [owned EXCEPT !["device"] = @ \ {k}]
  /\ \E open \in BOOLEAN :
       /\ Inside(t, "erase", "device", k, open)
       /\ file' = IF open THEN DefaultProfile ELSE file
  /\ UNCHANGED <<live, table, parent, created, profile, history>>

\* What a save, or the lack of one, makes of the profile of the core.
SaveProfile(t) ==
  /\ file' = IF thr[t].open THEN profile[thr[t].key] ELSE file
  /\ chosen' = IF thr[t].open THEN chosen ELSE kept
  /\ kept' = IF thr[t].open THEN chosen ELSE kept

\* Variant: the next layer destroys the device before the entry goes.
EraseDeviceLate(t) ==
  /\ thr[t].pc = "erase"
  /\ \/ /\ lock = t
        /\ SaveProfile(t)
        /\ live' = [live EXCEPT !["device"][thr[t].key] = 0]
        /\ lock' = NoThread
        /\ UNCHANGED <<table, thr>>
     \/ /\ lock = NoThread
        /\ table' = [table EXCEPT !["device"][thr[t].key] = 0]
        /\ Leave(t)
        /\ UNCHANGED <<live, file, lock, chosen, kept>>
  /\ UNCHANGED <<parent, owned, created, profile, overlapped, torn>>

\* The profile is written, the entry erased, which destroys the core, and the mutex released.
EraseDevice(t) ==
  /\ thr[t].pc = "erase"
  /\ SaveProfile(t)
  /\ table' = [table EXCEPT !["device"][thr[t].key] = 0]
  /\ lock' = NoThread
  /\ Inside(t, "destroy", "device", thr[t].key, FALSE)
  /\ UNCHANGED <<live, parent, owned, created, profile, overlapped, torn>>

NextDestroys(t) ==
  /\ thr[t].pc = "destroy"
  /\ live' = [live EXCEPT ![thr[t].kind][thr[t].key] = 0]
  /\ Leave(t)
  /\ UNCHANGED <<table, parent, owned, created, profile, file, lock, history>>

---------------------------------------------------------------------------
\* The process is killed and started again.  A file emptied and not yet written reads back as
\* a default profile.
Kill ==
  /\ live' = Nobody /\ table' = Nobody
  /\ owned' = [kind \in Kinds |-> {}]
  /\ profile' = [k \in Keys |-> DefaultProfile]
  /\ lock' = NoThread
  /\ thr' = [t \in Threads |-> Outside]
  /\ chosen' = kept
  /\ torn' = (torn \/ \E t \in Threads : thr[t].pc = "erase" /\ thr[t].open)
  /\ UNCHANGED <<parent, created, file, kept, overlapped>>

Next ==
  \/ \E t \in Threads, k \in Keys :
       \/ \E kind \in Kinds : NextCreates(t, kind, k)
       \/ EraseInstance(t, k) \/ OpenProfile(t, k)
  \/ \E t \in Threads : InsertInstance(t) \/ InsertDevice(t) \/ EraseDevice(t) \/ NextDestroys(t)
  \/ \E k \in Keys, p \in Profiles : ApplyPreset(k, p)
  \/ Kill

Spec == Init /\ [][Next]_vars

---------------------------------------------------------------------------
\* Properties

Calls == [pc : {"outside", "insert", "erase", "destroy"}, kind : Kinds, key : Keys, open : BOOLEAN]

TypeOK ==
  /\ live \in [Kinds -> [Keys -> 0 .. created]] /\ table \in [Kinds -> [Keys -> 0 .. created]]
  /\ owned \in [Kinds -> SUBSET Keys] /\ parent \in [Keys -> Keys]
  /\ profile \in [Keys -> Profiles] /\ file \in Files
  /\ lock \in Threads \cup {NoThread}
  /\ thr \in [Threads -> Calls]
  /\ created \in 0 .. MaxCreated
  /\ chosen \in Profiles /\ kept \in Profiles
  /\ overlapped \in BOOLEAN /\ torn \in BOOLEAN

(***************************************************************************)
(* Every entry point finds, for an object the application may use, the     *)
(* entry made for that very object: also when the driver gives the key of  *)
(* an object another thread is still destroying to a new one.              *)
(***************************************************************************)
LookupExact ==
  \A kind \in Kinds : \A k \in owned[kind] : live[kind][k] # 0 /\ table[kind][k] = live[kind][k]

(***************************************************************************)
(* No entry of g_instances or g_devices outlives the object of the next    *)
(* layer it was made for, so no core calls into a dead device.             *)
(***************************************************************************)
NoStaleEntry ==
  \A kind \in Kinds, k \in Keys : table[kind][k] # 0 => table[kind][k] = live[kind][k]

(***************************************************************************)
(* "Load persisted user profile": a device starts with the preset the user *)
(* chose last, unless two devices were up at the same time or a kill hit   *)
(* the save.  A kill at any other moment loses only what was chosen in the *)
(* session it ends, and so does a save that cannot open the file.          *)
(***************************************************************************)
ProfileCarriesOver ==
  [][\A k \in Keys :
       k \in owned'["device"] \ owned["device"] /\ ~overlapped' /\ ~torn => profile'[k] = chosen]_vars

---------------------------------------------------------------------------
\* The inductive invariant behind LookupExact and NoStaleEntry.

\* What a thread in the middle of a call knows of its object.
InTransitKnown ==
  \A t \in Threads :
    /\ thr[t].pc # "outside" => At(t, live) # 0 /\ thr[t].key \notin owned[thr[t].kind]
    /\ thr[t].pc \in {"insert", "destroy"} => At(t, table) = 0
    /\ thr[t].pc = "erase" => thr[t].kind = "device" /\ At(t, table) = At(t, live)

\* No two threads are creating or destroying the same object.
TransitsDistinct ==
  \A t, u \in Threads :
    t # u /\ thr[t].pc # "outside" /\ thr[u].pc # "outside" /\ thr[t].kind = thr[u].kind
      => thr[t].key # thr[u].key

(***************************************************************************)
(* The maps of the layer and the objects of the driver agree, except for   *)
(* an object one thread is in the middle of creating or destroying.        *)
(***************************************************************************)
LifecycleInv == LookupExact /\ NoStaleEntry /\ InTransitKnown /\ TransitsDistinct

=============================================================================

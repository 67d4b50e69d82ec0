----------------------- MODULE DeviceLifecycleProofs -----------------------
(* Proofs about the two halves of layer_entry.cpp: DeviceLifecycle, for any threads, keys and *)
(* profiles, and CommandRouting (through RoutingComponent), for any threads and commands.     *)
EXTENDS DeviceLifecycle, RoutingComponent, FiniteSetTheorems, TLAPS

\* A thread outside every call has well-typed locals.
LEMMA OutsideType == Outside \in Calls
<1>1. (CHOOSE j \in Keys : TRUE) \in Keys
  BY KeysAssumption
<1> QED BY <1>1 DEF Outside, Calls, Kinds

\* The numbers handed out so far are among those handed out later.
LEMMA CreatedGrows ==
  ASSUME NEW n \in Nat
  PROVE  0 .. n \subseteq 0 .. n + 1
OBVIOUS

\* Every step keeps every variable in its type.
LEMMA TypeInductive == TypeOK /\ [Next]_vars => TypeOK'
<1> SUFFICES ASSUME TypeOK, [Next]_vars PROVE TypeOK'
  OBVIOUS
<1> USE DEF maps, history
<1>b. \A t \in Threads : thr[t] \in Calls
  BY DEF TypeOK
<1>c. \A t \in Threads : thr[t].key \in Keys /\ thr[t].kind \in Kinds
  BY <1>b DEF Calls
<1>d. "instance" \in Kinds /\ "device" \in Kinds
  BY DEF Kinds
<1>1. ASSUME NEW t \in Threads, NEW k \in Keys, NEW kind \in Kinds, NextCreates(t, kind, k)
      PROVE TypeOK'
  <2>1. created \in Nat /\ created' = created + 1 /\ created' \in 0 .. MaxCreated
    BY <1>1, MaxCreatedAssumption DEF NextCreates, TypeOK
  <2>2. live' \in [Kinds -> [Keys -> 0 .. created']]
    <3>1. live \in [Kinds -> [Keys -> 0 .. created + 1]] /\ created + 1 \in 0 .. created + 1
      BY <2>1, CreatedGrows DEF TypeOK
    <3> QED BY <1>1, <2>1, <3>1 DEF NextCreates
  <2>3. table' \in [Kinds -> [Keys -> 0 .. created']]
    BY <1>1, <2>1, CreatedGrows DEF NextCreates, TypeOK
  <2>4. thr' \in [Threads -> Calls]
    <3>1. [pc |-> "insert", kind |-> kind, key |-> k, open |-> FALSE] \in Calls
      BY DEF Calls
    <3> QED BY <1>1, <3>1 DEF NextCreates, Inside, TypeOK
  <2>5. parent' \in [Keys -> Keys]
    <3>1. owned["instance"] \subseteq Keys /\ parent \in [Keys -> Keys]
      BY DEF TypeOK, Kinds
    <3>2. parent' = parent \/ \E i \in owned["instance"] : parent' = [parent EXCEPT ![k] = i]
      BY <1>1 DEF NextCreates
    <3> QED BY <3>1, <3>2
  <2> QED BY <1>1, <2>1, <2>2, <2>3, <2>4, <2>5 DEF NextCreates, TypeOK
<1>2. ASSUME NEW t \in Threads, InsertInstance(t) PROVE TypeOK'
  <2>1. thr' \in [Threads -> Calls]
    BY <1>2, OutsideType DEF InsertInstance, Leave, TypeOK
  <2>2. owned' \in [Kinds -> SUBSET Keys]
    BY <1>2, <1>c, <1>d DEF InsertInstance, TypeOK
  <2>3. table' \in [Kinds -> [Keys -> 0 .. created]]
    BY <1>2, <1>c, <1>d DEF InsertInstance, At, TypeOK
  <2> QED BY <1>2, <2>1, <2>2, <2>3 DEF InsertInstance, TypeOK
<1>3. ASSUME NEW t \in Threads, InsertDevice(t) PROVE TypeOK'
  <2>1. thr' \in [Threads -> Calls]
    BY <1>3, OutsideType DEF InsertDevice, Leave, TypeOK
  <2>2. owned' \in [Kinds -> SUBSET Keys]
    BY <1>3, <1>c, <1>d DEF InsertDevice, TypeOK
  <2>3. table' \in [Kinds -> [Keys -> 0 .. created]]
    BY <1>3, <1>c, <1>d DEF InsertDevice, At, TypeOK
  <2>4. profile' \in [Keys -> Profiles]
    BY <1>3, <1>c, DefaultAssumption DEF InsertDevice, TypeOK, Files
  <2>5. overlapped' \in BOOLEAN
    BY <1>3, Zenon DEF InsertDevice, TypeOK
  <2> QED BY <1>3, <2>1, <2>2, <2>3, <2>4, <2>5 DEF InsertDevice, TypeOK
<1>4. ASSUME NEW k \in Keys, NEW p \in Profiles, ApplyPreset(k, p) PROVE TypeOK'
  BY <1>4 DEF ApplyPreset, TypeOK
<1>5. ASSUME NEW t \in Threads, NEW k \in Keys, EraseInstance(t, k) PROVE TypeOK'
  <2>1. thr' \in [Threads -> Calls]
    <3>1. [pc |-> "destroy", kind |-> "instance", key |-> k, open |-> FALSE] \in Calls
      BY <1>d DEF Calls
    <3> QED BY <1>5, <3>1 DEF EraseInstance, Inside, TypeOK
  <2>2. owned' \in [Kinds -> SUBSET Keys]
    BY <1>5, <1>d DEF EraseInstance, TypeOK
  <2>3. table' \in [Kinds -> [Keys -> 0 .. created]]
    BY <1>5, <1>d DEF EraseInstance, TypeOK
  <2> QED BY <1>5, <2>1, <2>2, <2>3 DEF EraseInstance, TypeOK
<1>6. ASSUME NEW t \in Threads, NEW k \in Keys, OpenProfile(t, k) PROVE TypeOK'
  <2>1. PICK open \in BOOLEAN : /\ Inside(t, "erase", "device", k, open)
                                /\ file' = IF open THEN DefaultProfile ELSE file
    BY <1>6 DEF OpenProfile
  <2>2. thr' \in [Threads -> Calls]
    <3>1. [pc |-> "erase", kind |-> "device", key |-> k, open |-> open] \in Calls
      BY <1>d DEF Calls
    <3> QED BY <2>1, <3>1 DEF Inside, TypeOK
  <2>3. owned' \in [Kinds -> SUBSET Keys]
    BY <1>6, <1>d DEF OpenProfile, TypeOK
  <2>4. file' \in Files
    BY <2>1, DefaultAssumption DEF TypeOK, Files
  <2> QED BY <1>6, <2>2, <2>3, <2>4 DEF OpenProfile, TypeOK
<1>7. ASSUME NEW t \in Threads, EraseDevice(t) PROVE TypeOK'
  <2>1. thr' \in [Threads -> Calls]
    <3>1. [pc |-> "destroy", kind |-> "device", key |-> thr[t].key, open |-> FALSE] \in Calls
      BY <1>c, <1>d DEF Calls
    <3> QED BY <1>7, <3>1 DEF EraseDevice, Inside, TypeOK
  <2>2. table' \in [Kinds -> [Keys -> 0 .. created]]
    BY <1>7, <1>c, <1>d DEF EraseDevice, TypeOK
  <2>3. file' \in Files /\ chosen' \in Profiles /\ kept' \in Profiles
    BY <1>7, <1>c DEF EraseDevice, SaveProfile, TypeOK, Files
  <2> QED BY <1>7, <2>1, <2>2, <2>3 DEF EraseDevice, TypeOK
<1>8. ASSUME NEW t \in Threads, NextDestroys(t) PROVE TypeOK'
  <2>1. thr' \in [Threads -> Calls]
    BY <1>8, OutsideType DEF NextDestroys, Leave, TypeOK
  <2>2. live' \in [Kinds -> [Keys -> 0 .. created]]
    BY <1>8, <1>c DEF NextDestroys, TypeOK
  <2> QED BY <1>8, <2>1, <2>2 DEF NextDestroys, TypeOK
<1>9. CASE Kill
  <2>1. live' \in [Kinds -> [Keys -> 0 .. created]] /\ table' \in [Kinds -> [Keys -> 0 .. created]]
    BY <1>9 DEF Kill, Nobody, TypeOK
  <2>2. thr' \in [Threads -> Calls]
    BY <1>9, OutsideType DEF Kill
  <2>3. torn' \in BOOLEAN
    BY <1>9, Zenon DEF Kill, TypeOK
  <2> QED BY <1>9, <2>1, <2>2, <2>3, DefaultAssumption DEF Kill, TypeOK
<1>10. CASE UNCHANGED vars
  BY <1>10 DEF vars, TypeOK
<1> QED BY <1>1, <1>2, <1>3, <1>4, <1>5, <1>6, <1>7, <1>8, <1>9, <1>10 DEF Next

\* The initial state is well typed.
LEMMA TypeInitial == Init => TypeOK
<1> SUFFICES ASSUME Init PROVE TypeOK
  OBVIOUS
<1>1. live \in [Kinds -> [Keys -> 0 .. created]] /\ table \in [Kinds -> [Keys -> 0 .. created]]
  BY DEF Init, Nobody
<1>2. thr \in [Threads -> Calls]
  BY OutsideType DEF Init
<1>3. overlapped \in BOOLEAN /\ torn \in BOOLEAN
  BY Zenon DEF Init
<1> QED BY <1>1, <1>2, <1>3, DefaultAssumption, MaxCreatedAssumption DEF Init, TypeOK, Files

\* Type correctness of the maps, the locals of the threads and the profile.
THEOREM LifecycleTypeCorrect == Spec => []TypeOK
BY TypeInitial, TypeInductive, PTL DEF Spec

---------------------------------------------------------------------------
\* Agreement of the maps with the driver's objects

\* Every step keeps the maps and the driver's objects in agreement.
LEMMA AgreementInductive == TypeOK /\ LifecycleInv /\ [Next]_vars => LifecycleInv'
<1> SUFFICES ASSUME TypeOK, LifecycleInv, [Next]_vars PROVE LifecycleInv'
  OBVIOUS
<1> USE DEF LifecycleInv, LookupExact, NoStaleEntry, InTransitKnown, TransitsDistinct, At, maps
<1>b. \A t \in Threads : thr[t] \in Calls
  BY DEF TypeOK
<1>c. \A t \in Threads : thr[t].key \in Keys /\ thr[t].kind \in Kinds
  BY <1>b DEF Calls
<1>d. Kinds = {"instance", "device"}
  BY DEF Kinds
<1>1. ASSUME NEW t \in Threads, NEW k \in Keys, NEW kind \in Kinds, NextCreates(t, kind, k)
      PROVE LifecycleInv'
  <2>1. created + 1 # 0
    BY DEF TypeOK
  <2>2. /\ thr' = [thr EXCEPT ![t] = [pc |-> "insert", kind |-> kind, key |-> k, open |-> FALSE]]
        /\ live' = [live EXCEPT ![kind][k] = created + 1] /\ live[kind][k] = 0
        /\ table' = table /\ owned' = owned /\ thr[t].pc = "outside"
    BY <1>1 DEF NextCreates, Inside
  <2>3. table[kind][k] = 0 /\ k \notin owned[kind]
    BY <2>2
  <2>4. \A u \in Threads : thr[u].pc # "outside" /\ thr[u].kind = kind => thr[u].key # k
    BY <2>2
  <2>5. LookupExact' /\ NoStaleEntry'
    BY <2>2, <2>3 DEF TypeOK
  <2>6. \A u \in Threads \ {t} : thr'[u] = thr[u]
    BY <2>2 DEF TypeOK
  <2>7. thr'[t] = [pc |-> "insert", kind |-> kind, key |-> k, open |-> FALSE]
    BY <2>2 DEF TypeOK
  <2>8. InTransitKnown'
    BY <1>c, <2>1, <2>2, <2>3, <2>4, <2>6, <2>7 DEF TypeOK
  <2>9. TransitsDistinct'
    BY <2>4, <2>6, <2>7
  <2> QED BY <2>5, <2>8, <2>9
<1>2. ASSUME NEW t \in Threads, InsertInstance(t) \/ InsertDevice(t) PROVE LifecycleInv'
  <2> DEFINE kind == thr[t].kind
             k == thr[t].key
  <2>1. /\ thr' = [thr EXCEPT ![t] = Outside] /\ thr[t].pc = "insert"
        /\ table' = [table EXCEPT ![kind][k] = live[kind][k]] /\ live' = live
        /\ owned' = [owned EXCEPT ![kind] = owned[kind] \cup {k}]
    BY <1>2 DEF InsertInstance, InsertDevice, Leave
  <2>2. live[kind][k] # 0 /\ k \in Keys /\ kind \in Kinds
    BY <1>c, <2>1
  <2>3. LookupExact' /\ NoStaleEntry'
    BY <2>1, <2>2 DEF TypeOK
  <2>4. \A u \in Threads \ {t} : thr'[u] = thr[u]
    BY <2>1 DEF TypeOK
  <2>5. thr'[t].pc = "outside"
    BY <2>1 DEF TypeOK, Outside
  <2>6. \A u \in Threads \ {t} : thr[u].pc # "outside" /\ thr[u].kind = kind => thr[u].key # k
    BY <2>1
  <2>7. InTransitKnown'
    BY <1>c, <2>1, <2>2, <2>4, <2>5, <2>6 DEF TypeOK
  <2>8. TransitsDistinct'
    BY <2>4, <2>5
  <2> QED BY <2>3, <2>7, <2>8
<1>3. ASSUME NEW k \in Keys, NEW p \in Profiles, ApplyPreset(k, p) PROVE LifecycleInv'
  BY <1>3 DEF ApplyPreset
<1>4. ASSUME NEW t \in Threads, NEW k \in Keys, EraseInstance(t, k) PROVE LifecycleInv'
  <2>1. /\ thr' = [thr EXCEPT ![t] = [pc |-> "destroy", kind |-> "instance", key |-> k, open |-> FALSE]]
        /\ table' = [table EXCEPT !["instance"][k] = 0] /\ live' = live
        /\ owned' = [owned EXCEPT !["instance"] = owned["instance"] \ {k}]
        /\ k \in owned["instance"]
    BY <1>4 DEF EraseInstance, Inside
  <2>2. live["instance"][k] # 0
    BY <1>d, <2>1
  <2>3. \A u \in Threads : thr[u].pc # "outside" /\ thr[u].kind = "instance" => thr[u].key # k
    BY <2>1
  <2>4. LookupExact' /\ NoStaleEntry'
    BY <1>d, <2>1 DEF TypeOK
  <2>5. \A u \in Threads \ {t} : thr'[u] = thr[u]
    BY <2>1 DEF TypeOK
  <2>6. thr'[t] = [pc |-> "destroy", kind |-> "instance", key |-> k, open |-> FALSE]
    BY <2>1 DEF TypeOK
  <2>7. InTransitKnown'
    BY <1>c, <1>d, <2>1, <2>2, <2>3, <2>5, <2>6 DEF TypeOK
  <2>8. TransitsDistinct'
    BY <2>3, <2>5, <2>6
  <2> QED BY <2>4, <2>7, <2>8
<1>5. ASSUME NEW t \in Threads, NEW k \in Keys, OpenProfile(t, k) PROVE LifecycleInv'
  <2>1. PICK open \in BOOLEAN : Inside(t, "erase", "device", k, open)
    BY <1>5 DEF OpenProfile
  <2>2. /\ thr' = [thr EXCEPT ![t] = [pc |-> "erase", kind |-> "device", key |-> k, open |-> open]]
        /\ table' = table /\ live' = live /\ k \in owned["device"]
        /\ owned' = [owned EXCEPT !["device"] = owned["device"] \ {k}]
    BY <1>5, <2>1 DEF OpenProfile, Inside
  <2>3. live["device"][k] # 0 /\ table["device"][k] = live["device"][k]
    BY <1>d, <2>2
  <2>4. \A u \in Threads : thr[u].pc # "outside" /\ thr[u].kind = "device" => thr[u].key # k
    BY <2>2
  <2>5. LookupExact' /\ NoStaleEntry'
    BY <1>d, <2>2 DEF TypeOK
  <2>6. \A u \in Threads \ {t} : thr'[u] = thr[u]
    BY <2>2 DEF TypeOK
  <2>7. thr'[t] = [pc |-> "erase", kind |-> "device", key |-> k, open |-> open]
    BY <2>2 DEF TypeOK
  <2>8. InTransitKnown'
    BY <1>c, <1>d, <2>2, <2>3, <2>4, <2>6, <2>7 DEF TypeOK
  <2>9. TransitsDistinct'
    BY <2>4, <2>6, <2>7
  <2> QED BY <2>5, <2>8, <2>9
<1>6. ASSUME NEW t \in Threads, EraseDevice(t) PROVE LifecycleInv'
  <2> DEFINE k == thr[t].key
  <2>1. /\ thr' = [thr EXCEPT ![t] = [pc |-> "destroy", kind |-> "device", key |-> k, open |-> FALSE]]
        /\ table' = [table EXCEPT !["device"][k] = 0] /\ live' = live /\ owned' = owned
        /\ thr[t].pc = "erase"
    BY <1>6 DEF EraseDevice, Inside
  <2>2. live["device"][k] # 0 /\ k \notin owned["device"] /\ thr[t].kind = "device" /\ k \in Keys
    BY <1>c, <2>1
  <2>3. LookupExact' /\ NoStaleEntry'
    BY <1>d, <2>1, <2>2 DEF TypeOK
  <2>4. \A u \in Threads \ {t} : thr'[u] = thr[u]
    BY <2>1 DEF TypeOK
  <2>5. thr'[t] = [pc |-> "destroy", kind |-> "device", key |-> k, open |-> FALSE]
    BY <2>1 DEF TypeOK
  <2>6. \A u \in Threads \ {t} : thr[u].pc # "outside" /\ thr[u].kind = "device" => thr[u].key # k
    BY <2>1, <2>2
  <2>7. InTransitKnown'
    BY <1>c, <1>d, <2>1, <2>2, <2>4, <2>5, <2>6 DEF TypeOK
  <2>8. TransitsDistinct'
    BY <2>4, <2>5, <2>6
  <2> QED BY <2>3, <2>7, <2>8
<1>7. ASSUME NEW t \in Threads, NextDestroys(t) PROVE LifecycleInv'
  <2> DEFINE kind == thr[t].kind
             k == thr[t].key
  <2>1. /\ thr' = [thr EXCEPT ![t] = Outside] /\ thr[t].pc = "destroy"
        /\ live' = [live EXCEPT ![kind][k] = 0] /\ table' = table /\ owned' = owned
    BY <1>7 DEF NextDestroys, Leave
  <2>2. table[kind][k] = 0 /\ k \notin owned[kind] /\ k \in Keys /\ kind \in Kinds
    BY <1>c, <2>1
  <2>3. LookupExact' /\ NoStaleEntry'
    BY <2>1, <2>2 DEF TypeOK
  <2>4. \A u \in Threads \ {t} : thr'[u] = thr[u]
    BY <2>1 DEF TypeOK
  <2>5. thr'[t].pc = "outside"
    BY <2>1 DEF TypeOK, Outside
  <2>6. \A u \in Threads \ {t} : thr[u].pc # "outside" /\ thr[u].kind = kind => thr[u].key # k
    BY <2>1
  <2>7. InTransitKnown'
    BY <1>c, <2>1, <2>2, <2>4, <2>5, <2>6 DEF TypeOK
  <2>8. TransitsDistinct'
    BY <2>4, <2>5
  <2> QED BY <2>3, <2>7, <2>8
<1>8. CASE Kill
  BY <1>8 DEF Kill, Nobody, Outside
<1>9. CASE UNCHANGED vars
  BY <1>9 DEF vars
<1> QED BY <1>1, <1>2, <1>3, <1>4, <1>5, <1>6, <1>7, <1>8, <1>9 DEF Next

\* The agreement holds from the start and in every later state.
THEOREM MapsAgree == Spec => []LifecycleInv
<1>1. Init => LifecycleInv
  BY DEF Init, Nobody, Outside, LifecycleInv, LookupExact, NoStaleEntry, InTransitKnown,
         TransitsDistinct
<1> QED BY <1>1, AgreementInductive, LifecycleTypeCorrect, PTL DEF Spec

(***************************************************************************)
(* For any number of threads and keys, an entry point finds the entry made *)
(* for the very object the application passes it.                          *)
(***************************************************************************)
THEOREM LookupCorrect == Spec => []LookupExact
<1>1. LifecycleInv => LookupExact
  BY DEF LifecycleInv
<1> QED BY <1>1, MapsAgree, PTL

(***************************************************************************)
(* For any number of threads and keys, no entry of the layer's maps        *)
(* outlives the object it was made for.                                    *)
(***************************************************************************)
THEOREM EntriesNeverStale == Spec => []NoStaleEntry
<1>1. LifecycleInv => NoStaleEntry
  BY DEF LifecycleInv
<1> QED BY <1>1, MapsAgree, PTL

---------------------------------------------------------------------------
\* The profile a device leaves for the next one

\* The profile a new core gets, and whether a save is between emptying the file and writing it.
Loaded == IF file = Absent THEN DefaultProfile ELSE file
SaveUnderWay == \E t \in Threads : thr[t].pc = "erase" /\ thr[t].open
EntryOf(k) == table["device"][k] # 0

(***************************************************************************)
(* As long as devices came one after the other and no kill hit a save: the *)
(* file holds what was kept last, the core that is up holds what was       *)
(* chosen last, and while none is up these are the same.                   *)
(***************************************************************************)
ProfileInv ==
  ~overlapped /\ ~torn =>
    /\ ~SaveUnderWay => Loaded = kept
    /\ \A k \in Keys : EntryOf(k) => profile[k] = chosen
    /\ (\A k \in Keys : ~EntryOf(k)) => chosen = kept
    /\ \A k, l \in Keys : EntryOf(k) /\ EntryOf(l) => k = l

\* A step that leaves the devices, the file and the choices alone and ends no save.
LEMMA ProfileKept ==
  ASSUME ProfileInv, UNCHANGED <<file, kept, chosen, profile, overlapped, torn>>,
         table'["device"] = table["device"], SaveUnderWay => SaveUnderWay'
  PROVE  ProfileInv'
<1>1. Loaded' = Loaded /\ \A k : EntryOf(k)' <=> EntryOf(k)
  BY DEF Loaded, EntryOf
<1> QED BY <1>1 DEF ProfileInv

\* A thread that begins or ends a call outside a save keeps the saves of the others under way.
LEMMA SaveKept ==
  ASSUME TypeOK, NEW t \in Threads, thr[t].pc # "erase", NEW c, thr' = [thr EXCEPT ![t] = c]
  PROVE  SaveUnderWay => SaveUnderWay'
<1> SUFFICES ASSUME NEW u \in Threads, thr[u].pc = "erase", thr[u].open
             PROVE  thr'[u].pc = "erase" /\ thr'[u].open
  BY DEF SaveUnderWay
<1>1. u # t
  OBVIOUS
<1>2. thr'[u] = thr[u]
  BY <1>1 DEF TypeOK
<1> QED BY <1>2

\* Every step keeps the profile the next device will load.
LEMMA ProfileInductive == TypeOK /\ LifecycleInv /\ ProfileInv /\ [Next]_vars => ProfileInv'
<1> SUFFICES ASSUME TypeOK, LifecycleInv, ProfileInv, [Next]_vars PROVE ProfileInv'
  OBVIOUS
<1> USE DEF maps, history
<1>a. \A t \in Threads : thr[t] \in Calls
  BY DEF TypeOK
<1>b. \A t \in Threads : thr[t].key \in Keys /\ thr[t].kind \in Kinds /\ thr[t].open \in BOOLEAN
  BY <1>a DEF Calls
<1>c. "instance" \in Kinds /\ "device" \in Kinds /\ "instance" # "device"
  BY DEF Kinds
<1>d. table \in [Kinds -> [Keys -> 0 .. created]] /\ table["device"] \in [Keys -> 0 .. created]
  BY <1>c DEF TypeOK
<1>e. \A t \in Threads : thr[t].pc = "erase" => thr[t].kind = "device" /\ EntryOf(thr[t].key)
  BY DEF LifecycleInv, InTransitKnown, At, EntryOf
<1>1. ASSUME NEW t \in Threads, NEW k \in Keys, NEW kind \in Kinds, NextCreates(t, kind, k)
      PROVE  ProfileInv'
  <2>1. SaveUnderWay => SaveUnderWay'
    BY <1>1, SaveKept DEF NextCreates, Inside
  <2> QED BY <1>1, <2>1, ProfileKept DEF NextCreates
<1>2. ASSUME NEW t \in Threads, InsertInstance(t) PROVE ProfileInv'
  <2>1. SaveUnderWay => SaveUnderWay'
    BY <1>2, SaveKept DEF InsertInstance, Leave
  <2>2. table'["device"] = table["device"]
    BY <1>2, <1>c, <1>d DEF InsertInstance
  <2> QED BY <1>2, <2>1, <2>2, ProfileKept DEF InsertInstance
<1>3. ASSUME NEW t \in Threads, InsertDevice(t) PROVE ProfileInv'
  <2>0. PICK q : q = thr[t].key
    OBVIOUS
  <2>1. /\ q \in Keys /\ thr[t].pc = "insert" /\ UNCHANGED <<file, lock, chosen, kept, torn>>
        /\ table' = [table EXCEPT !["device"][q] = At(t, live)]
        /\ profile' = [profile EXCEPT ![q] = Loaded]
    BY <1>3, <1>b, <2>0 DEF InsertDevice, Loaded
  <2>2. overlapped' <=> overlapped \/ \E k \in Keys : EntryOf(k)
    BY <1>3, Zenon DEF InsertDevice, EntryOf
  <2> SUFFICES ASSUME ~overlapped', ~torn' PROVE ProfileInv'
    BY DEF ProfileInv
  <2>3. ~overlapped /\ ~torn /\ \A k \in Keys : ~EntryOf(k)
    BY <2>1, <2>2
  <2>4. ~SaveUnderWay
    BY <1>b, <1>e, <2>3 DEF SaveUnderWay
  <2>5. Loaded = kept /\ chosen = kept /\ Loaded' = Loaded
    BY <2>1, <2>3, <2>4 DEF ProfileInv, Loaded
  <2>6. \A k \in Keys : EntryOf(k)' => k = q
    BY <1>c, <1>d, <2>1, <2>3 DEF EntryOf
  <2>7. profile'[q] = kept
    BY <2>1, <2>5 DEF TypeOK
  <2>8. EntryOf(q)'
    <3>1. At(t, live) # 0 /\ thr[t].kind = "device"
      BY <1>3 DEF LifecycleInv, InTransitKnown, InsertDevice
    <3> QED BY <1>c, <1>d, <2>1, <3>1 DEF EntryOf
  <2> QED BY <2>1, <2>5, <2>6, <2>7, <2>8 DEF ProfileInv
<1>4. ASSUME NEW k \in Keys, NEW p \in Profiles, ApplyPreset(k, p) PROVE ProfileInv'
  <2>1. /\ k \in owned["device"] /\ profile' = [profile EXCEPT ![k] = p] /\ chosen' = p
        /\ UNCHANGED <<table, file, thr, kept, overlapped, torn>>
    BY <1>4 DEF ApplyPreset
  <2>2. EntryOf(k)
    BY <1>c, <2>1 DEF LifecycleInv, LookupExact, EntryOf
  <2>3. Loaded' = Loaded /\ (SaveUnderWay' <=> SaveUnderWay) /\ \A l : EntryOf(l)' <=> EntryOf(l)
    BY <2>1 DEF Loaded, SaveUnderWay, EntryOf
  <2>4. profile'[k] = p
    BY <2>1 DEF TypeOK
  <2> QED BY <2>1, <2>2, <2>3, <2>4 DEF ProfileInv
<1>5. ASSUME NEW t \in Threads, NEW k \in Keys, EraseInstance(t, k) PROVE ProfileInv'
  <2>1. SaveUnderWay => SaveUnderWay'
    BY <1>5, SaveKept DEF EraseInstance, Inside
  <2>2. table'["device"] = table["device"]
    BY <1>5, <1>c, <1>d DEF EraseInstance
  <2> QED BY <1>5, <2>1, <2>2, ProfileKept DEF EraseInstance
<1>6. ASSUME NEW t \in Threads, NEW k \in Keys, OpenProfile(t, k) PROVE ProfileInv'
  <2>1. PICK open \in BOOLEAN : /\ Inside(t, "erase", "device", k, open)
                                /\ file' = IF open THEN DefaultProfile ELSE file
    BY <1>6 DEF OpenProfile
  <2>2. thr[t].pc = "outside" /\ UNCHANGED <<table, profile, chosen, kept, overlapped, torn>>
    BY <1>6 DEF OpenProfile
  <2>3. SaveUnderWay => SaveUnderWay'
    BY <2>1, <2>2, SaveKept DEF Inside
  <2>4. CASE open = TRUE
    <3>1. SaveUnderWay'
      BY <2>1, <2>4 DEF Inside, SaveUnderWay, TypeOK
    <3>2. \A l : EntryOf(l)' <=> EntryOf(l)
      BY <2>2 DEF EntryOf
    <3> QED BY <2>2, <3>1, <3>2 DEF ProfileInv
  <2>5. CASE open = FALSE
    BY <2>1, <2>2, <2>3, <2>5, ProfileKept
  <2> QED BY <2>4, <2>5
<1>7. ASSUME NEW t \in Threads, EraseDevice(t) PROVE ProfileInv'
  <2> DEFINE q == thr[t].key
  <2>1. /\ thr[t].pc = "erase" /\ q \in Keys /\ EntryOf(q) /\ UNCHANGED <<profile, overlapped, torn>>
        /\ table' = [table EXCEPT !["device"][q] = 0]
        /\ file' = IF thr[t].open THEN profile[q] ELSE file
        /\ chosen' = IF thr[t].open THEN chosen ELSE kept
        /\ kept' = IF thr[t].open THEN chosen ELSE kept
    BY <1>7, <1>b, <1>e DEF EraseDevice, SaveProfile
  <2> SUFFICES ASSUME ~overlapped, ~torn PROVE ProfileInv'
    BY <2>1 DEF ProfileInv
  <2>2. \A k \in Keys : ~EntryOf(k)'
    <3>1. \A k \in Keys : EntryOf(k) => k = q
      BY <2>1 DEF ProfileInv
    <3> HIDE DEF q
    <3> QED BY <1>c, <1>d, <2>1, <3>1 DEF EntryOf
  <2>3. chosen' = kept'
    BY <2>1
  <2>4. CASE thr[t].open
    <3>1. file' = chosen /\ kept' = chosen
      BY <2>1, <2>4 DEF ProfileInv
    <3>2. Loaded' = kept'
      BY <3>1, AbsentAssumption DEF Loaded, TypeOK
    <3> QED BY <2>2, <2>3, <3>2 DEF ProfileInv
  <2>5. CASE ~thr[t].open
    <3>1. file' = file /\ kept' = kept
      BY <2>1, <2>5
    <3>2. SaveUnderWay => SaveUnderWay'
      <4> SUFFICES ASSUME NEW u \in Threads, thr[u].pc = "erase", thr[u].open
                   PROVE  thr'[u].pc = "erase" /\ thr'[u].open
        BY DEF SaveUnderWay
      <4>1. u # t
        BY <2>5
      <4>2. thr'[u] = thr[u]
        BY <1>7, <4>1 DEF EraseDevice, Inside, TypeOK
      <4> QED BY <4>2
    <3>3. ~SaveUnderWay' => Loaded' = kept'
      BY <3>1, <3>2 DEF ProfileInv, Loaded
    <3> QED BY <2>2, <2>3, <3>3 DEF ProfileInv
  <2> QED BY <2>4, <2>5
<1>8. ASSUME NEW t \in Threads, NextDestroys(t) PROVE ProfileInv'
  <2>1. SaveUnderWay => SaveUnderWay'
    BY <1>8, SaveKept DEF NextDestroys, Leave
  <2> QED BY <1>8, <2>1, ProfileKept DEF NextDestroys
<1>9. CASE Kill
  <2>1. table' = Nobody /\ chosen' = kept /\ UNCHANGED <<file, kept, overlapped>>
    BY <1>9 DEF Kill
  <2>2. torn' <=> torn \/ SaveUnderWay
    BY <1>9, Zenon DEF Kill, SaveUnderWay
  <2>3. \A k \in Keys : ~EntryOf(k)'
    BY <1>c, <2>1 DEF EntryOf, Nobody
  <2>4. Loaded' = Loaded
    BY <2>1 DEF Loaded
  <2> QED BY <2>1, <2>2, <2>3, <2>4 DEF ProfileInv
<1>10. CASE UNCHANGED vars
  <2>1. SaveUnderWay => SaveUnderWay'
    BY <1>10 DEF vars, SaveUnderWay
  <2> QED BY <1>10, <2>1, ProfileKept DEF vars
<1> QED BY <1>1, <1>2, <1>3, <1>4, <1>5, <1>6, <1>7, <1>8, <1>9, <1>10 DEF Next

\* Only the creation of a device gives the application a device.
LEMMA NewDevice ==
  ASSUME TypeOK, [Next]_vars, NEW k \in Keys, k \in owned'["device"] \ owned["device"]
  PROVE  \E t \in Threads : InsertDevice(t) /\ thr[t].key = k
<1> USE DEF maps, history
<1>1. owned \in [Kinds -> SUBSET Keys] /\ "device" \in Kinds /\ "instance" \in Kinds
  BY DEF TypeOK, Kinds
<1>2. ASSUME owned'["device"] \subseteq owned["device"] PROVE FALSE
  BY <1>2
<1>3. ASSUME NEW t \in Threads, InsertDevice(t) PROVE thr[t].key = k
  BY <1>1, <1>3 DEF InsertDevice
<1>4. ASSUME NEW t \in Threads, InsertInstance(t) \/ EraseDevice(t) \/ NextDestroys(t) PROVE FALSE
  BY <1>1, <1>2, <1>4 DEF InsertInstance, EraseDevice, NextDestroys
<1>5. ASSUME NEW t \in Threads, NEW l \in Keys, EraseInstance(t, l) \/ OpenProfile(t, l) PROVE FALSE
  BY <1>1, <1>2, <1>5 DEF EraseInstance, OpenProfile
<1>6. ASSUME NEW t \in Threads, NEW l \in Keys, NEW kind \in Kinds, NextCreates(t, kind, l) PROVE FALSE
  BY <1>2, <1>6 DEF NextCreates
<1>7. ASSUME NEW l \in Keys, NEW p \in Profiles, ApplyPreset(l, p) PROVE FALSE
  BY <1>2, <1>7 DEF ApplyPreset
<1>8. CASE Kill
  BY <1>1, <1>8 DEF Kill
<1>9. CASE UNCHANGED vars
  BY <1>2, <1>9 DEF vars
<1> QED BY <1>3, <1>4, <1>5, <1>6, <1>7, <1>8, <1>9 DEF Next

(***************************************************************************)
(* A device starts with the preset the user chose last, unless two devices *)
(* were up together or a kill hit a save: for any number of threads, keys, *)
(* profiles, kills and saves that could not open the file.                 *)
(***************************************************************************)
THEOREM ProfileCorrect == Spec => ProfileCarriesOver
<1>1. Init => ProfileInv
  <2> SUFFICES ASSUME Init PROVE ProfileInv
    OBVIOUS
  <2>1. \A k \in Keys : ~EntryOf(k)
    BY DEF Init, EntryOf, Nobody, Kinds
  <2>2. Loaded = kept /\ chosen = kept
    BY DEF Init, Loaded
  <2> QED BY <2>1, <2>2 DEF ProfileInv
<1>2. TypeOK /\ LifecycleInv /\ ProfileInv /\ ProfileInv' /\ [Next]_vars =>
        [\A k \in Keys :
           k \in owned'["device"] \ owned["device"] /\ ~overlapped' /\ ~torn => profile'[k] = chosen]_vars
  <2> SUFFICES ASSUME TypeOK, LifecycleInv, ProfileInv, ProfileInv', [Next]_vars, NEW k \in Keys,
                      k \in owned'["device"] \ owned["device"], ~overlapped', ~torn
               PROVE  profile'[k] = chosen
    OBVIOUS
  <2>1. PICK t \in Threads : InsertDevice(t) /\ thr[t].key = k
    BY NewDevice
  <2>2. torn' = torn /\ chosen' = chosen
    BY <2>1 DEF InsertDevice
  <2>3. EntryOf(k)'
    <3>1. At(t, live) # 0 /\ table' = [table EXCEPT !["device"][k] = At(t, live)]
      BY <2>1 DEF LifecycleInv, InTransitKnown, InsertDevice
    <3>2. table \in [Kinds -> [Keys -> 0 .. created]] /\ "device" \in Kinds
      BY DEF TypeOK, Kinds
    <3> QED BY <3>1, <3>2 DEF EntryOf
  <2> QED BY <2>2, <2>3 DEF ProfileInv
<1> QED BY <1>1, <1>2, ProfileInductive, LifecycleTypeCorrect, MapsAgree, PTL DEF Spec, ProfileCarriesOver

---------------------------------------------------------------------------
\* CommandRouting, the other half of layer_entry.cpp

(***************************************************************************)
(* A thread inside a call works on the last entry of its trace, which is   *)
(* open, with nothing delivered yet, until one path closes it.             *)
(***************************************************************************)
OpenPcs == {"forward", "check", "count", "increment", "route", "jitDraw"}

LastOpen(t) ==
  /\ call[t].pc # "outside" => trace[t] # << >>
  /\ call[t].pc \in OpenPcs => Routing!Last(t).path = "open"
  /\ call[t].pc = "forward" => Routing!Last(t).kind \notin Routing!Routed
  /\ call[t].pc \notin {"outside", "forward"} => Routing!Last(t).kind \in Routing!Routed

OpenIsLast(t) ==
  \A i \in 1 .. Len(trace[t]) :
    trace[t][i].path = "open" => i = Len(trace[t]) /\ call[t].pc \in OpenPcs

EntryExact(e) ==
  /\ e.path = "open" => e.got = << >>
  /\ e.kind \in Routing!Routed =>
       /\ e.path \in {"direct", "oracle"} => e.got = <<[kind |-> e.kind, args |-> e.args]>>
       /\ Len(e.got) <= 1

RouteInv ==
  \A t \in Recorders :
    /\ LastOpen(t) /\ OpenIsLast(t)
    /\ \A i \in 1 .. Len(trace[t]) : EntryExact(trace[t][i])

\* The commands that were routed and counted: not those still before the increment.
Uncounted == {"check", "count", "increment"}

IsCounted(t, i) ==
  /\ trace[t][i].kind \in Routing!Routed
  /\ trace[t][i].path # "direct"
  /\ ~(trace[t][i].path = "open" /\ call[t].pc \in Uncounted)

Counted == {r \in Routing!Recorded : IsCounted(r[1], r[2])}

\* A thread between the read and the write of a counter holds its present value.
IncrementsExact ==
  \A t \in Recorders : call[t].pc = "increment" =>
    /\ call[t].read = counters[call[t].backend]
    /\ \A u \in Recorders \ {t} :
         call[u].pc = "increment" => call[u].backend # call[t].backend

RecordedFits == IsFiniteSet(Routing!Recorded) /\ \A t \in Recorders : Len(trace[t]) <= MaxCommands

CountersInv ==
  ~raced =>
    /\ IncrementsExact
    /\ counters["JIT"] + counters["HAI"] + counters["Oracle"] = Cardinality(Counted)

Pcs == {"outside", "forward", "check", "count", "increment", "route", "jitDraw", "jitRestore"}
RouteCalls ==
  [pc : Pcs, backend : Routing!Backends, cfg : SUBSET {"jit", "hai"}, read : Nat]

\* The steps inside a call that change only where the call is.
LEMMA CallTypes ==
  ASSUME RoutingTypeOK, NEW t \in Recorders
  PROVE  /\ call[t] \in RouteCalls
         /\ \A p \in Pcs : [call EXCEPT ![t].pc = p] \in [Recorders -> RouteCalls]
         /\ [call EXCEPT ![t] = Routing!Outside] \in [Recorders -> RouteCalls]
         /\ \A p \in Pcs, b \in Routing!Backends :
              [call EXCEPT ![t].pc = p, ![t].backend = b] \in [Recorders -> RouteCalls]
         /\ \A p \in Pcs, n \in Nat :
              [call EXCEPT ![t].pc = p, ![t].read = n] \in [Recorders -> RouteCalls]
<1>1. call \in [Recorders -> RouteCalls] /\ call[t] \in RouteCalls
  BY DEF RoutingTypeOK, Routing!TypeOK, RouteCalls, Pcs
<1>2. Routing!Outside \in RouteCalls
  BY DEF Routing!Outside, RouteCalls, Pcs, Routing!Backends
<1>3. ASSUME NEW p \in Pcs, NEW b \in Routing!Backends, NEW n \in Nat
      PROVE  /\ [call[t] EXCEPT !.pc = p] \in RouteCalls
             /\ [call[t] EXCEPT !.pc = p, !.backend = b] \in RouteCalls
             /\ [call[t] EXCEPT !.pc = p, !.read = n] \in RouteCalls
  BY <1>1 DEF RouteCalls
<1>4. \A p \in Pcs : [call EXCEPT ![t].pc = p] \in [Recorders -> RouteCalls]
  <2>1. "Oracle" \in Routing!Backends /\ 0 \in Nat
    BY DEF Routing!Backends
  <2> QED BY <1>1, <1>3, <2>1
<1>5. \A p \in Pcs, b \in Routing!Backends :
        [call EXCEPT ![t].pc = p, ![t].backend = b] \in [Recorders -> RouteCalls]
  BY <1>1, <1>3
<1>6. \A p \in Pcs, n \in Nat :
        [call EXCEPT ![t].pc = p, ![t].read = n] \in [Recorders -> RouteCalls]
  <2>1. "Oracle" \in Routing!Backends
    BY DEF Routing!Backends
  <2> QED BY <1>1, <1>3, <2>1
<1> QED BY <1>1, <1>2, <1>4, <1>5, <1>6

\* What is delivered goes to the last entry of the thread, and nowhere else.
LEMMA DeliverTrace ==
  ASSUME RoutingTypeOK, NEW t \in Recorders, trace[t] # << >>,
         NEW path \in {"direct", "oracle", "jit", "hai"}, NEW cmds \in Seq(Routing!Commands),
         Routing!Deliver(t, path, cmds)
  PROVE  /\ trace' \in [Recorders -> Seq(Routing!Entry)] /\ raced' = raced
         /\ \A u \in Recorders \ {t} : trace'[u] = trace[u]
         /\ Len(trace'[t]) = Len(trace[t]) /\ Len(trace[t]) \in 1 .. Len(trace[t])
         /\ \A i \in 1 .. Len(trace[t]) : i # Len(trace[t]) => trace'[t][i] = trace[t][i]
         /\ trace'[t][Len(trace[t])].kind = Routing!Last(t).kind
         /\ trace'[t][Len(trace[t])].args = Routing!Last(t).args
         /\ trace'[t][Len(trace[t])].path = path
         /\ trace'[t][Len(trace[t])].got = Routing!Last(t).got \o cmds
<1> DEFINE n == Len(trace[t])
           e == trace[t][n]
           d == [e EXCEPT !.path = path, !.got = e.got \o cmds]
<1>1. trace \in [Recorders -> Seq(Routing!Entry)] /\ trace[t] \in Seq(Routing!Entry)
  BY DEF RoutingTypeOK, Routing!TypeOK
<1>2. n \in 1 .. n /\ n \in Nat
  BY <1>1
<1>3. e \in Routing!Entry
  BY <1>1, <1>2
<1>4. e.got \o cmds \in Seq(Routing!Commands)
  BY <1>3 DEF Routing!Entry
<1>5. d \in Routing!Entry /\ d.kind = e.kind /\ d.args = e.args /\ d.path = path
      /\ d.got = e.got \o cmds
  BY <1>3, <1>4 DEF Routing!Entry
<1>6. trace' = [trace EXCEPT ![t] = [trace[t] EXCEPT ![n] = d]] /\ raced' = raced
  BY <1>1 DEF Routing!Deliver, Routing!Last
<1> HIDE DEF d
<1>7. [trace[t] EXCEPT ![n] = d] \in Seq(Routing!Entry)
  BY <1>1, <1>2, <1>5
<1>8. trace' \in [Recorders -> Seq(Routing!Entry)] /\ trace'[t] = [trace[t] EXCEPT ![n] = d]
      /\ \A u \in Recorders \ {t} : trace'[u] = trace[u]
  BY <1>1, <1>6, <1>7
<1>9. Len(trace'[t]) = n /\ trace'[t][n] = d
      /\ \A i \in 1 .. n : i # n => trace'[t][i] = trace[t][i]
  BY <1>1, <1>2, <1>8
<1> QED BY <1>2, <1>5, <1>6, <1>8, <1>9 DEF Routing!Last

\* A command enters at the end of the thread's trace, open and with nothing delivered.
LEMMA EnterTrace ==
  ASSUME RoutingTypeOK, NEW t \in Recorders, NEW cmd \in AppCommands, Routing!Enter(t, cmd)
  PROVE  /\ trace' \in [Recorders -> Seq(Routing!Entry)] /\ raced' = raced
         /\ \A u \in Recorders \ {t} : trace'[u] = trace[u]
         /\ Len(trace[t]) \in Nat /\ Len(trace'[t]) = Len(trace[t]) + 1
         /\ \A i \in 1 .. Len(trace[t]) : trace'[t][i] = trace[t][i]
         /\ trace'[t][Len(trace[t]) + 1] =
              [kind |-> cmd.kind, args |-> cmd.args, path |-> "open", got |-> << >>]
<1> DEFINE d == [kind |-> cmd.kind, args |-> cmd.args, path |-> "open", got |-> << >>]
<1>1. trace \in [Recorders -> Seq(Routing!Entry)] /\ trace[t] \in Seq(Routing!Entry)
  BY DEF RoutingTypeOK, Routing!TypeOK
<1>2. d \in Routing!Entry
  <2>1. << >> \in Seq(Routing!Commands)
    OBVIOUS
  <2> QED BY <2>1, AppCommandsAssumption DEF Routing!Entry
<1>3. trace' = [trace EXCEPT ![t] = Append(trace[t], d)] /\ raced' = raced
  BY <1>1 DEF Routing!Enter
<1> HIDE DEF d
<1>4. Append(trace[t], d) \in Seq(Routing!Entry) /\ Len(trace[t]) \in Nat
      /\ Len(Append(trace[t], d)) = Len(trace[t]) + 1
      /\ Append(trace[t], d)[Len(trace[t]) + 1] = d
      /\ \A i \in 1 .. Len(trace[t]) : Append(trace[t], d)[i] = trace[t][i]
  BY <1>1, <1>2
<1>5. trace'[t] = Append(trace[t], d) /\ \A u \in Recorders \ {t} : trace'[u] = trace[u]
  BY <1>1, <1>3
<1> QED BY <1>1, <1>3, <1>4, <1>5 DEF d

\* What reaches the driver, on any path, is a command.
LEMMA DeliveredCommands ==
  ASSUME RoutingTypeOK, NEW t \in Recorders, trace[t] # << >>
  PROVE  /\ Routing!Last(t) \in Routing!Entry
         /\ Routing!Command(t) \in Routing!Commands
         /\ Routing!OracleCommand(t) \in Routing!Commands
         /\ (Routing!Last(t).kind \in Routing!Routed => Routing!JitCommand(t) \in Routing!Commands)
<1>1. trace[t] \in Seq(Routing!Entry) /\ Len(trace[t]) \in 1 .. Len(trace[t])
  BY DEF RoutingTypeOK, Routing!TypeOK
<1>2. Routing!Last(t) \in Routing!Entry
  BY <1>1 DEF Routing!Last
<1>3. Routing!Command(t) \in Routing!Commands
  BY <1>2 DEF Routing!Command, Routing!Entry, Routing!Commands
<1>4. Routing!JitCommand(t) \in Routing!Commands
  BY DEF Routing!JitCommand, Routing!Commands, Routing!Kinds
<1> QED BY <1>2, <1>3, <1>4 DEF Routing!OracleCommand

\* Every step keeps the switches, maps, counters and calls in their types.
LEMMA RoutingTypeInductive ==
  RoutingTypeOK /\ RouteInv /\ [Routing!Next]_(Routing!vars) => RoutingTypeOK'
<1> SUFFICES ASSUME RoutingTypeOK, RouteInv, [Routing!Next]_(Routing!vars) PROVE RoutingTypeOK'
  OBVIOUS
<1> DEFINE BufferTypes ==
             /\ DOMAIN cmdState \subseteq Recorders
             /\ \A t \in DOMAIN cmdState : cmdState[t] \in Routing!Pipelines \cup {NoPipeline}
             /\ liveBuffers \subseteq Recorders
             /\ bound \in [Recorders -> Routing!Pipelines \cup {NoPipeline}]
             /\ orphans \subseteq Recorders
           SwitchTypes ==
             /\ allowed \in BOOLEAN
             /\ config \subseteq {"jit", "hai"} /\ features \subseteq {"jit", "hai"}
             /\ counters \in [Routing!Backends -> Nat]
           CallTypesOK == call \in [Recorders -> RouteCalls]
           TraceTypes == trace \in [Recorders -> Seq(Routing!Entry)] /\ raced \in BOOLEAN
<1>0. BufferTypes /\ SwitchTypes /\ CallTypesOK /\ TraceTypes
  BY DEF RoutingTypeOK, Routing!TypeOK, RouteCalls, Pcs
<1>01. BufferTypes' /\ SwitchTypes' /\ CallTypesOK' /\ TraceTypes' => RoutingTypeOK'
  BY DEF RoutingTypeOK, Routing!TypeOK, RouteCalls, Pcs
<1> USE DEF Routing!shared, Routing!buffers, Routing!history
<1>1. ASSUME NEW t \in Recorders, Routing!Allocate(t) PROVE RoutingTypeOK'
  BY <1>0, <1>01, <1>1 DEF Routing!Allocate
<1>2. ASSUME NEW t \in Recorders, Routing!FreeCommandBuffer(t) PROVE RoutingTypeOK'
  BY <1>0, <1>01, <1>2 DEF Routing!FreeCommandBuffer
<1>3. ASSUME NEW t \in Recorders, Routing!DestroyPool(t) PROVE RoutingTypeOK'
  BY <1>0, <1>01, <1>3 DEF Routing!DestroyPool
<1>4. ASSUME NEW t \in Recorders, NEW p \in Routing!Pipelines, Routing!BindPipeline(t, p)
      PROVE  RoutingTypeOK'
  BY <1>0, <1>01, <1>4 DEF Routing!BindPipeline, Routing!Recording
<1>5. ASSUME NEW t \in Recorders, NEW cmd \in AppCommands, Routing!Enter(t, cmd)
      PROVE  RoutingTypeOK'
  <2>1. trace' \in [Recorders -> Seq(Routing!Entry)] /\ raced' = raced
    BY <1>5, EnterTrace
  <2>2. CallTypesOK'
    <3> DEFINE l == [Routing!Outside EXCEPT
                       !.pc = IF cmd.kind \in Routing!Routed THEN "check" ELSE "forward",
                       !.cfg = IF cmd.kind = "dispatch" THEN config ELSE {}]
    <3>1. l \in RouteCalls
      BY <1>0 DEF Routing!Outside, RouteCalls, Pcs, Routing!Backends
    <3>2. call' = [call EXCEPT ![t] = l]
      BY <1>5 DEF Routing!Enter
    <3> HIDE DEF l
    <3> QED BY <1>0, <3>1, <3>2
  <2> QED BY <1>0, <1>01, <1>5, <2>1, <2>2 DEF Routing!Enter
<1>6. ASSUME NEW t \in Recorders, call[t].pc # "outside", NEW path \in {"direct", "oracle", "jit", "hai"},
             NEW cmds \in Seq(Routing!Commands), Routing!Deliver(t, path, cmds)
      PROVE  TraceTypes'
  <2>1. trace[t] # << >>
    BY <1>6 DEF RouteInv, LastOpen
  <2> QED BY <1>0, <1>6, <2>1, DeliverTrace
<1>61. \A t \in Recorders : call[t].pc # "outside" =>
         /\ Routing!Command(t) \in Routing!Commands
         /\ Routing!OracleCommand(t) \in Routing!Commands
         /\ (Routing!Last(t).kind \in Routing!Routed => Routing!JitCommand(t) \in Routing!Commands)
  BY DeliveredCommands DEF RouteInv, LastOpen
<1>7. ASSUME NEW t \in Recorders, Routing!Forward(t) PROVE RoutingTypeOK'
  <2>1. <<Routing!Command(t), Routing!Command(t)>> \in Seq(Routing!Commands)
    BY <1>61, <1>7 DEF Routing!Forward
  <2>2. TraceTypes'
    BY <1>6, <1>7, <2>1 DEF Routing!Forward
  <2>3. CallTypesOK'
    BY <1>7, CallTypes DEF Routing!Forward, Routing!Return
  <2>4. BufferTypes'
    BY <1>0, <1>7 DEF Routing!Forward, Routing!Recording
  <2> QED BY <1>0, <1>01, <1>7, <2>2, <2>3, <2>4 DEF Routing!Forward
<1>8. ASSUME NEW t \in Recorders, Routing!CheckDirect(t) \/ Routing!RouteOracle(t) \/ Routing!RouteHai(t)
      PROVE  RoutingTypeOK'
  <2>1. PICK path \in {"direct", "oracle", "hai"}, cmds \in Seq(Routing!Commands) :
          Routing!Deliver(t, path, cmds)
    <3>1. /\ <<Routing!Command(t)>> \in Seq(Routing!Commands) \/ call[t].pc = "outside"
          /\ <<Routing!OracleCommand(t)>> \in Seq(Routing!Commands) \/ call[t].pc = "outside"
          /\ << >> \in Seq(Routing!Commands)
      BY <1>61
    <3> QED BY <1>8, <3>1 DEF Routing!CheckDirect, Routing!RouteOracle, Routing!RouteHai
  <2>2. call[t].pc # "outside"
    BY <1>8 DEF Routing!CheckDirect, Routing!RouteOracle, Routing!RouteHai
  <2>3. TraceTypes'
    BY <1>6, <2>1, <2>2
  <2>4. CallTypesOK'
    BY <1>8, CallTypes DEF Routing!CheckDirect, Routing!RouteOracle, Routing!RouteHai, Routing!Return
  <2>5. BufferTypes' /\ SwitchTypes'
    BY <1>0, <1>8 DEF Routing!CheckDirect, Routing!RouteOracle, Routing!RouteHai
  <2> QED BY <1>01, <2>3, <2>4, <2>5
<1>9. ASSUME NEW t \in Recorders, Routing!CheckRouted(t) PROVE RoutingTypeOK'
  <2>1. PICK b \in Routing!Backends : call' = [call EXCEPT ![t].pc = "count", ![t].backend = b]
    BY <1>9 DEF Routing!CheckRouted
  <2>2. CallTypesOK'
    BY <2>1, CallTypes DEF Pcs
  <2> QED BY <1>0, <1>01, <1>9, <2>2 DEF Routing!CheckRouted
<1>10. ASSUME NEW t \in Recorders, Routing!CountRead(t) PROVE RoutingTypeOK'
  <2>1. counters[call[t].backend] \in Nat
    BY <1>0 DEF RouteCalls
  <2>2. CallTypesOK'
    BY <1>10, <2>1, CallTypes DEF Routing!CountRead, Pcs
  <2>3. raced' \in BOOLEAN
    BY <1>10, Zenon DEF Routing!CountRead
  <2> QED BY <1>0, <1>01, <1>10, <2>2, <2>3 DEF Routing!CountRead
<1>11. ASSUME NEW t \in Recorders, Routing!CountWrite(t) PROVE RoutingTypeOK'
  <2>1. call[t].read + 1 \in Nat
    BY <1>0 DEF RouteCalls
  <2>2. CallTypesOK'
    BY <1>11, CallTypes DEF Routing!CountWrite, Routing!Goto, Pcs
  <2> QED BY <1>0, <1>01, <1>11, <2>1, <2>2 DEF Routing!CountWrite
<1>12. ASSUME NEW t \in Recorders, Routing!RouteJit(t) PROVE RoutingTypeOK'
  <2>2. CallTypesOK'
    BY <1>12, CallTypes DEF Routing!RouteJit, Routing!Goto, Pcs
  <2> QED BY <1>0, <1>01, <1>12, <2>2 DEF Routing!RouteJit
<1>13. ASSUME NEW t \in Recorders, Routing!JitDraw(t) PROVE RoutingTypeOK'
  <2>1. <<Routing!JitCommand(t)>> \in Seq(Routing!Commands)
    BY <1>61, <1>13 DEF Routing!JitDraw, RouteInv, LastOpen
  <2>2. TraceTypes'
    BY <1>6, <1>13, <2>1 DEF Routing!JitDraw
  <2>3. CallTypesOK'
    BY <1>13, CallTypes DEF Routing!JitDraw, Routing!Goto, Pcs
  <2> QED BY <1>0, <1>01, <1>13, <2>2, <2>3 DEF Routing!JitDraw
<1>14. ASSUME NEW t \in Recorders, Routing!JitRestore(t) PROVE RoutingTypeOK'
  <2>1. CallTypesOK'
    BY <1>14, CallTypes DEF Routing!JitRestore, Routing!Return
  <2> QED BY <1>0, <1>01, <1>14, <2>1 DEF Routing!JitRestore
<1>15. ASSUME NEW on \in SUBSET {"jit", "hai"}, Routing!WatcherStores(on) PROVE RoutingTypeOK'
  BY <1>0, <1>01, <1>15 DEF Routing!WatcherStores
<1>16. ASSUME NEW f \in {"jit", "hai"}, Routing!WatcherSwitches(f) PROVE RoutingTypeOK'
  BY <1>0, <1>01, <1>16 DEF Routing!WatcherSwitches
<1>17. CASE UNCHANGED Routing!vars
  BY <1>0, <1>01, <1>17 DEF Routing!vars
<1> QED
  BY <1>1, <1>2, <1>3, <1>4, <1>5, <1>7, <1>8, <1>9, <1>10, <1>11, <1>12, <1>13, <1>14, <1>15,
     <1>16, <1>17 DEF Routing!Next, Routing!Inside

\* A step that leaves the traces alone, and moves at most one call on within its command.
LEMMA MoveKeepsRoute ==
  ASSUME RouteInv, trace' = trace, NEW t \in Recorders,
         \A u \in Recorders \ {t} : call'[u].pc = call[u].pc,
         \/ call'[t].pc = call[t].pc
         \/ call[t].pc = "jitRestore" /\ call'[t].pc = "outside"
         \/ call[t].pc \in OpenPcs \ {"forward"} /\ call'[t].pc \in OpenPcs \ {"forward"}
  PROVE  RouteInv'
<1>1. \A u \in Recorders : Routing!Last(u)' = Routing!Last(u)
  BY DEF Routing!Last
<1>2. ASSUME NEW u \in Recorders PROVE LastOpen(u)'
  <2>1. LastOpen(u)
    BY DEF RouteInv
  <2>2. CASE u # t
    BY <1>1, <2>1, <2>2 DEF LastOpen
  <2>3. CASE u = t
    BY <1>1, <2>1, <2>3 DEF LastOpen, OpenPcs
  <2> QED BY <2>2, <2>3
<1>3. ASSUME NEW u \in Recorders PROVE OpenIsLast(u)'
  <2>1. OpenIsLast(u)
    BY DEF RouteInv
  <2>2. CASE u # t
    BY <2>1, <2>2 DEF OpenIsLast
  <2>3. CASE u = t
    BY <2>1, <2>3 DEF OpenIsLast, OpenPcs
  <2> QED BY <2>2, <2>3
<1> QED BY <1>2, <1>3 DEF RouteInv, EntryExact

\* A delivery closes the open entry of its thread.
LEMMA DeliverKeepsRoute ==
  ASSUME RoutingTypeOK, RouteInv, NEW t \in Recorders, call[t].pc \in OpenPcs,
         NEW path \in {"direct", "oracle", "jit", "hai"}, NEW cmds \in Seq(Routing!Commands),
         Routing!Deliver(t, path, cmds),
         \A u \in Recorders \ {t} : call'[u].pc = call[u].pc,
         \/ call'[t].pc = "outside"
         \/ call[t].pc # "forward" /\ call'[t].pc = "jitRestore",
         Routing!Last(t).kind \in Routing!Routed =>
           /\ path \in {"direct", "oracle"} =>
                cmds = <<[kind |-> Routing!Last(t).kind, args |-> Routing!Last(t).args]>>
           /\ Len(cmds) <= 1
  PROVE  RouteInv'
<1>1. LastOpen(t) /\ trace[t] # << >>
  BY DEF RouteInv, LastOpen, OpenPcs
<1> DEFINE n == Len(trace[t])
<1>2. /\ \A u \in Recorders \ {t} : trace'[u] = trace[u]
      /\ Len(trace'[t]) = n /\ n \in 1 .. n
      /\ \A i \in 1 .. n : i # n => trace'[t][i] = trace[t][i]
      /\ trace'[t][n].kind = Routing!Last(t).kind
      /\ trace'[t][n].args = Routing!Last(t).args
      /\ trace'[t][n].path = path
      /\ trace'[t][n].got = Routing!Last(t).got \o cmds
  BY <1>1, DeliverTrace
<1>3. Routing!Last(t).got = << >>
  BY <1>1, <1>2 DEF RouteInv, EntryExact, LastOpen, Routing!Last
<1>4. trace'[t][n].got = cmds
  BY <1>2, <1>3
<1>5. EntryExact(trace'[t][n])
  BY <1>2, <1>4 DEF EntryExact
<1>6. ASSUME NEW u \in Recorders
      PROVE  /\ LastOpen(u)' /\ OpenIsLast(u)'
             /\ \A i \in 1 .. Len(trace'[u]) : EntryExact(trace'[u][i])
  <2>1. CASE u # t
    <3>1. trace'[u] = trace[u] /\ Routing!Last(u)' = Routing!Last(u) /\ call'[u].pc = call[u].pc
      BY <1>2, <2>1 DEF Routing!Last
    <3>2. LastOpen(u)' /\ OpenIsLast(u)'
      BY <3>1 DEF RouteInv, LastOpen, OpenIsLast
    <3> QED BY <3>1, <3>2 DEF RouteInv
  <2>2. CASE u = t
    <3>1. \A i \in 1 .. n : EntryExact(trace'[t][i])
      <4>1. ASSUME NEW i \in 1 .. n, i # n PROVE EntryExact(trace'[t][i])
        BY <1>2, <4>1 DEF RouteInv
      <4> QED BY <1>5, <4>1
    <3>2. Routing!Last(t)'.kind = Routing!Last(t).kind
      BY <1>2 DEF Routing!Last
    <3>3. trace'[t] # << >>
      BY <1>2
    <3>4. LastOpen(t)'
      BY <1>1, <3>2, <3>3 DEF LastOpen, OpenPcs
    <3>5. \A i \in 1 .. n : trace'[t][i].path # "open"
      BY <1>2 DEF RouteInv, OpenIsLast
    <3>6. OpenIsLast(t)'
      BY <1>2, <3>5 DEF OpenIsLast
    <3> QED BY <1>2, <2>2, <3>1, <3>4, <3>6
  <2> QED BY <2>1, <2>2
<1> QED BY <1>6 DEF RouteInv

\* Every step keeps the traces exact.
LEMMA RouteInductive ==
  RoutingTypeOK /\ RouteInv /\ [Routing!Next]_(Routing!vars) => RouteInv'
<1> SUFFICES ASSUME RoutingTypeOK, RouteInv, [Routing!Next]_(Routing!vars) PROVE RouteInv'
  OBVIOUS
<1> USE DEF Routing!shared, Routing!buffers, Routing!history
<1>0. \A t \in Recorders : call[t] \in RouteCalls
  BY CallTypes
<1>1. ASSUME UNCHANGED <<call, trace>> PROVE RouteInv'
  BY <1>1 DEF RouteInv, LastOpen, OpenIsLast, Routing!Last, EntryExact
<1>2. ASSUME NEW t \in Recorders, Routing!Allocate(t) \/ Routing!FreeCommandBuffer(t)
                                  \/ Routing!DestroyPool(t)
      PROVE  RouteInv'
  BY <1>1, <1>2 DEF Routing!Allocate, Routing!FreeCommandBuffer, Routing!DestroyPool
<1>3. ASSUME NEW t \in Recorders, NEW p \in Routing!Pipelines, Routing!BindPipeline(t, p)
      PROVE  RouteInv'
  BY <1>1, <1>3 DEF Routing!BindPipeline
<1>4. ASSUME NEW t \in Recorders, NEW cmd \in AppCommands, Routing!Enter(t, cmd)
      PROVE  RouteInv'
  <2> DEFINE n == Len(trace[t])
             d == [kind |-> cmd.kind, args |-> cmd.args, path |-> "open", got |-> << >>]
  <2>1. /\ \A u \in Recorders \ {t} : trace'[u] = trace[u]
        /\ n \in Nat /\ Len(trace'[t]) = n + 1
        /\ \A i \in 1 .. n : trace'[t][i] = trace[t][i]
        /\ trace'[t][n + 1] = d
    BY <1>4, EnterTrace
  <2>2. /\ \A u \in Recorders \ {t} : call'[u] = call[u]
        /\ call'[t].pc = IF cmd.kind \in Routing!Routed THEN "check" ELSE "forward"
    BY <1>4 DEF Routing!Enter, RoutingTypeOK, Routing!TypeOK, Routing!Outside
  <2>3. EntryExact(d)
    BY DEF EntryExact
  <2>4. Routing!Last(t)' = d /\ trace'[t] # << >>
    BY <2>1 DEF Routing!Last
  <2>5. LastOpen(t)'
    BY <2>2, <2>4 DEF LastOpen, OpenPcs
  <2>6. \A i \in 1 .. n + 1 : EntryExact(trace'[t][i])
    <3>1. ASSUME NEW i \in 1 .. n + 1, i # n + 1 PROVE EntryExact(trace'[t][i])
      <4>1. i \in 1 .. n
        BY <2>1, <3>1
      <4> QED BY <2>1, <4>1 DEF RouteInv
    <3> QED BY <2>1, <2>3, <3>1
  <2>7. ASSUME NEW u \in Recorders \ {t}
        PROVE  /\ LastOpen(u)' /\ OpenIsLast(u)'
               /\ \A i \in 1 .. Len(trace'[u]) : EntryExact(trace'[u][i])
    BY <2>1, <2>2 DEF RouteInv, LastOpen, OpenIsLast, Routing!Last
  <2>8. OpenIsLast(t)'
    <3>1. \A i \in 1 .. n : trace[t][i].path # "open"
      BY <1>4 DEF RouteInv, OpenIsLast, OpenPcs, Routing!Enter
    <3>2. \A i \in 1 .. n + 1 : i \in 1 .. n \/ i = n + 1
      BY <2>1
    <3>3. call'[t].pc \in OpenPcs
      BY <2>2 DEF OpenPcs
    <3> QED BY <2>1, <3>1, <3>2, <3>3 DEF OpenIsLast
  <2> QED BY <2>1, <2>5, <2>6, <2>7, <2>8 DEF RouteInv
<1>5. ASSUME NEW t \in Recorders, NEW pc, call' = [call EXCEPT ![t].pc = pc]
      PROVE  call'[t].pc = pc /\ \A u \in Recorders \ {t} : call'[u] = call[u]
  BY <1>0, <1>5 DEF RoutingTypeOK, Routing!TypeOK, RouteCalls
<1>6. ASSUME NEW t \in Recorders, call' = [call EXCEPT ![t] = Routing!Outside]
      PROVE  call'[t].pc = "outside" /\ \A u \in Recorders \ {t} : call'[u] = call[u]
  BY <1>6 DEF RoutingTypeOK, Routing!TypeOK, Routing!Outside
<1>61. \A t \in Recorders : call[t].pc # "outside" =>
         /\ Routing!Command(t) \in Routing!Commands
         /\ Routing!OracleCommand(t) \in Routing!Commands
         /\ (Routing!Last(t).kind \in Routing!Routed => Routing!JitCommand(t) \in Routing!Commands)
  BY DeliveredCommands DEF RouteInv, LastOpen
<1>7. ASSUME NEW t \in Recorders, Routing!Forward(t) PROVE RouteInv'
  <2>1. call[t].pc = "forward" /\ Routing!Deliver(t, "direct", <<Routing!Command(t), Routing!Command(t)>>)
        /\ call' = [call EXCEPT ![t] = Routing!Outside]
    BY <1>7 DEF Routing!Forward, Routing!Return
  <2>2. <<Routing!Command(t), Routing!Command(t)>> \in Seq(Routing!Commands)
    BY <1>61, <2>1
  <2>3. Routing!Last(t).kind \notin Routing!Routed
    BY <2>1 DEF RouteInv, LastOpen
  <2> QED BY <1>6, <2>1, <2>2, <2>3, DeliverKeepsRoute DEF OpenPcs
<1>8. ASSUME NEW t \in Recorders, Routing!CheckDirect(t) PROVE RouteInv'
  <2>1. call[t].pc = "check" /\ Routing!Deliver(t, "direct", <<Routing!Command(t)>>)
        /\ call' = [call EXCEPT ![t] = Routing!Outside]
    BY <1>8 DEF Routing!CheckDirect, Routing!Return
  <2>2. <<Routing!Command(t)>> \in Seq(Routing!Commands) /\ Len(<<Routing!Command(t)>>) <= 1
    BY <1>61, <2>1
  <2> QED BY <1>6, <2>1, <2>2, DeliverKeepsRoute DEF OpenPcs, Routing!Command
<1>9. ASSUME NEW t \in Recorders, Routing!RouteOracle(t) PROVE RouteInv'
  <2>1. call[t].pc = "route" /\ Routing!Deliver(t, "oracle", <<Routing!OracleCommand(t)>>)
        /\ call' = [call EXCEPT ![t] = Routing!Outside]
    BY <1>9 DEF Routing!RouteOracle, Routing!Return
  <2>2. <<Routing!OracleCommand(t)>> \in Seq(Routing!Commands) /\ Len(<<Routing!OracleCommand(t)>>) <= 1
    BY <1>61, <2>1
  <2> QED BY <1>6, <2>1, <2>2, DeliverKeepsRoute DEF OpenPcs, Routing!Command, Routing!OracleCommand
<1>10. ASSUME NEW t \in Recorders, Routing!RouteHai(t) PROVE RouteInv'
  <2>1. call[t].pc = "route" /\ Routing!Deliver(t, "hai", << >>)
        /\ call' = [call EXCEPT ![t] = Routing!Outside]
    BY <1>10 DEF Routing!RouteHai, Routing!Return
  <2>2. << >> \in Seq(Routing!Commands) /\ Len(<< >>) <= 1
    OBVIOUS
  <2> QED BY <1>6, <2>1, <2>2, DeliverKeepsRoute DEF OpenPcs
<1>11. ASSUME NEW t \in Recorders, Routing!JitDraw(t) PROVE RouteInv'
  <2>1. call[t].pc = "jitDraw" /\ Routing!Deliver(t, "jit", <<Routing!JitCommand(t)>>)
        /\ call' = [call EXCEPT ![t].pc = "jitRestore"]
    BY <1>11 DEF Routing!JitDraw, Routing!Goto
  <2>2. Routing!Last(t).kind \in Routing!Routed
    BY <2>1 DEF RouteInv, LastOpen
  <2>3. <<Routing!JitCommand(t)>> \in Seq(Routing!Commands) /\ Len(<<Routing!JitCommand(t)>>) <= 1
    BY <1>61, <2>1, <2>2
  <2> QED BY <1>5, <2>1, <2>3, DeliverKeepsRoute DEF OpenPcs
<1>12. ASSUME NEW t \in Recorders, Routing!CheckRouted(t) PROVE RouteInv'
  <2>1. PICK b \in Routing!Backends : call' = [call EXCEPT ![t].pc = "count", ![t].backend = b]
    BY <1>12 DEF Routing!CheckRouted
  <2>2. call'[t].pc = "count" /\ \A u \in Recorders \ {t} : call'[u] = call[u]
    BY <1>0, <2>1 DEF RoutingTypeOK, Routing!TypeOK, RouteCalls
  <2> QED BY <1>12, <2>2, MoveKeepsRoute DEF Routing!CheckRouted, OpenPcs
<1>13. ASSUME NEW t \in Recorders, Routing!CountRead(t) PROVE RouteInv'
  <2>1. call'[t].pc = "increment" /\ \A u \in Recorders \ {t} : call'[u] = call[u]
    BY <1>0, <1>13 DEF Routing!CountRead, RoutingTypeOK, Routing!TypeOK, RouteCalls
  <2> QED BY <1>13, <2>1, MoveKeepsRoute DEF Routing!CountRead, OpenPcs
<1>14. ASSUME NEW t \in Recorders, Routing!CountWrite(t) \/ Routing!RouteJit(t) PROVE RouteInv'
  <2>1. PICK pc \in {"route", "jitDraw"} : call' = [call EXCEPT ![t].pc = pc]
    BY <1>14 DEF Routing!CountWrite, Routing!RouteJit, Routing!Goto
  <2>2. trace' = trace /\ call[t].pc \in {"increment", "route"}
    BY <1>14 DEF Routing!CountWrite, Routing!RouteJit
  <2> QED BY <1>5, <2>1, <2>2, MoveKeepsRoute DEF OpenPcs
<1>15. ASSUME NEW t \in Recorders, Routing!JitRestore(t) PROVE RouteInv'
  BY <1>6, <1>15, MoveKeepsRoute DEF Routing!JitRestore, Routing!Return
<1>16. ASSUME NEW on, Routing!WatcherStores(on) PROVE RouteInv'
  BY <1>1, <1>16 DEF Routing!WatcherStores
<1>17. ASSUME NEW f, Routing!WatcherSwitches(f) PROVE RouteInv'
  BY <1>1, <1>17 DEF Routing!WatcherSwitches
<1>18. CASE UNCHANGED Routing!vars
  BY <1>1, <1>18 DEF Routing!vars
<1> QED
  BY <1>2, <1>3, <1>4, <1>7, <1>8, <1>9, <1>10, <1>11, <1>12, <1>13, <1>14, <1>15, <1>16, <1>17,
     <1>18 DEF Routing!Next, Routing!Inside

\* Types and traces hold from the start.
LEMMA RoutingHolds == RoutingSpec => [](RoutingTypeOK /\ RouteInv)
<1>1. ASSUME Routing!Init PROVE RoutingTypeOK /\ RouteInv
  <2>1. Routing!Outside \in RouteCalls
    BY DEF Routing!Outside, RouteCalls, Pcs, Routing!Backends
  <2>2. call \in [Recorders -> RouteCalls] /\ trace \in [Recorders -> Seq(Routing!Entry)]
    BY <1>1, <2>1 DEF Routing!Init
  <2>3. allowed \in BOOLEAN /\ raced \in BOOLEAN
    BY <1>1, Zenon DEF Routing!Init
  <2>4. RoutingTypeOK
    BY <1>1, <2>2, <2>3 DEF Routing!Init, RoutingTypeOK, Routing!TypeOK, RouteCalls, Pcs
  <2>5. \A t \in Recorders : call[t].pc = "outside" /\ trace[t] = << >>
    BY <1>1 DEF Routing!Init, Routing!Outside
  <2>6. RouteInv
    BY <2>5 DEF RouteInv, LastOpen, OpenIsLast, OpenPcs
  <2> QED BY <2>4, <2>6
<1> QED BY <1>1, RoutingTypeInductive, RouteInductive, PTL DEF RoutingSpec, Routing!Spec

\* Type correctness of routing, for any threads, pipelines and commands.
THEOREM RoutingTypeCorrect == RoutingSpec => []RoutingTypeOK
BY RoutingHolds, PTL

(***************************************************************************)
(* However the features are switched while commands are routed, whatever   *)
(* falls back to the driver reaches it once and unchanged, and nothing is  *)
(* drawn twice, for any number of threads.                                 *)
(***************************************************************************)
THEOREM FallbackCorrect == RoutingSpec => []FallbackExact
<1>1. ASSUME RoutingTypeOK, RouteInv PROVE FallbackExact
  <2>1. ASSUME NEW e \in Routing!Entries PROVE EntryExact(e)
    <3>1. PICK t \in Recorders : e \in {trace[t][i] : i \in DOMAIN trace[t]}
      BY <2>1 DEF Routing!Entries
    <3>2. PICK i \in DOMAIN trace[t] : e = trace[t][i]
      BY <3>1
    <3>3. i \in 1 .. Len(trace[t])
      BY <1>1, <3>2 DEF RoutingTypeOK, Routing!TypeOK
    <3> QED BY <1>1, <3>2, <3>3 DEF RouteInv
  <2> QED BY <2>1 DEF FallbackExact, Routing!FallbackExact, EntryExact
<1> QED BY <1>1, RoutingHolds, PTL

---------------------------------------------------------------------------
\* Buffers and counters of CommandRouting

\* A thread inside a call has a live buffer.
RecordingLive == \A t \in Recorders : call[t].pc # "outside" => t \in liveBuffers

\* Every step keeps state only for buffers that exist or went away with their pool.
LEMMA BuffersInductive ==
  RoutingTypeOK /\ StateOnlyForLive /\ RecordingLive /\ [Routing!Next]_(Routing!vars)
    => (StateOnlyForLive /\ RecordingLive)'
<1> SUFFICES ASSUME RoutingTypeOK, StateOnlyForLive, RecordingLive, [Routing!Next]_(Routing!vars)
             PROVE  (StateOnlyForLive /\ RecordingLive)'
  OBVIOUS
<1> USE DEF Routing!shared, Routing!buffers, Routing!history, StateOnlyForLive,
            Routing!StateOnlyForLive, RecordingLive
<1>0. \A t \in Recorders : call[t] \in RouteCalls
  BY CallTypes
<1>1. ASSUME NEW t \in Recorders, Routing!Allocate(t) \/ Routing!DestroyPool(t)
      PROVE  (StateOnlyForLive /\ RecordingLive)'
  BY <1>1 DEF Routing!Allocate, Routing!DestroyPool
<1>2. ASSUME NEW t \in Recorders, Routing!FreeCommandBuffer(t)
      PROVE  (StateOnlyForLive /\ RecordingLive)'
  BY <1>2 DEF Routing!FreeCommandBuffer
<1>3. ASSUME NEW t \in Recorders, NEW p, Routing!BindPipeline(t, p)
      PROVE  (StateOnlyForLive /\ RecordingLive)'
  BY <1>3 DEF Routing!BindPipeline, Routing!Recording
<1>4. ASSUME NEW t \in Recorders, NEW cmd, Routing!Enter(t, cmd)
      PROVE  (StateOnlyForLive /\ RecordingLive)'
  BY <1>4 DEF Routing!Enter, RoutingTypeOK, Routing!TypeOK
<1>5. ASSUME NEW t \in Recorders, Routing!Forward(t)
      PROVE  (StateOnlyForLive /\ RecordingLive)'
  <2>1. t \in liveBuffers
    BY <1>5 DEF Routing!Forward
  <2>2. RecordingLive'
    BY <1>5 DEF Routing!Forward, Routing!Return, RoutingTypeOK, Routing!TypeOK, Routing!Outside
  <2> QED BY <1>5, <2>1, <2>2 DEF Routing!Forward, Routing!Recording
<1>6. ASSUME NEW t \in Recorders, UNCHANGED <<cmdState, liveBuffers, orphans>>,
             call[t].pc # "outside", \A u \in Recorders \ {t} : call'[u] = call[u]
      PROVE  (StateOnlyForLive /\ RecordingLive)'
  BY <1>6
<1>7. ASSUME NEW t \in Recorders, Routing!Inside(t), ~Routing!Forward(t)
      PROVE  /\ UNCHANGED <<cmdState, liveBuffers, orphans>> /\ call[t].pc # "outside"
             /\ \A u \in Recorders \ {t} : call'[u] = call[u]
  <2> USE DEF RoutingTypeOK, Routing!TypeOK
  <2>1. CASE Routing!CheckDirect(t) \/ Routing!RouteOracle(t) \/ Routing!RouteHai(t)
    BY <2>1 DEF Routing!CheckDirect, Routing!RouteOracle, Routing!RouteHai, Routing!Return
  <2>2. CASE Routing!CheckRouted(t) \/ Routing!CountRead(t)
    BY <2>2 DEF Routing!CheckRouted, Routing!CountRead
  <2>3. CASE Routing!CountWrite(t) \/ Routing!RouteJit(t) \/ Routing!JitDraw(t)
    BY <2>3 DEF Routing!CountWrite, Routing!RouteJit, Routing!JitDraw, Routing!Goto
  <2>4. CASE Routing!JitRestore(t)
    BY <2>4 DEF Routing!JitRestore, Routing!Return
  <2> QED BY <1>7, <2>1, <2>2, <2>3, <2>4 DEF Routing!Inside
<1>8. ASSUME UNCHANGED <<cmdState, liveBuffers, orphans, call>>
      PROVE  (StateOnlyForLive /\ RecordingLive)'
  BY <1>8
<1>9. ASSUME NEW x, Routing!WatcherStores(x) \/ Routing!WatcherSwitches(x)
      PROVE  (StateOnlyForLive /\ RecordingLive)'
  BY <1>8, <1>9 DEF Routing!WatcherStores, Routing!WatcherSwitches
<1>10. CASE UNCHANGED Routing!vars
  BY <1>8, <1>10 DEF Routing!vars
<1> QED BY <1>1, <1>2, <1>3, <1>4, <1>5, <1>6, <1>7, <1>9, <1>10 DEF Routing!Next

(***************************************************************************)
(* cmd_state_ never holds a buffer the application freed, for any number   *)
(* of buffers: only those whose pool went away unseen stay behind.         *)
(***************************************************************************)
THEOREM BuffersPurged == RoutingSpec => []StateOnlyForLive
<1>1. Routing!Init => StateOnlyForLive /\ RecordingLive
  BY DEF Routing!Init, StateOnlyForLive, Routing!StateOnlyForLive, RecordingLive, Routing!Outside
<1> QED BY <1>1, BuffersInductive, RoutingHolds, PTL DEF RoutingSpec, Routing!Spec

\* The instance has a copy of FiniteSets of its own.
LEMMA SameCardinality == ASSUME NEW S PROVE Routing!Cardinality(S) = Cardinality(S)
BY Zenon DEF Routing!Cardinality, Cardinality

\* A command entered below the bound has a place among the recorded ones.
LEMMA EntersWithinBound ==
  ASSUME RoutingTypeOK, RecordedFits, NEW t \in Recorders, NEW cmd, Routing!Enter(t, cmd)
  PROVE  Len(trace[t]) + 1 <= MaxCommands
<1> DEFINE n == Len(trace[t])
           f == [i \in 1 .. n |-> <<t, i>>]
<1>1. trace[t] \in Seq(Routing!Entry) /\ n \in Nat /\ n <= MaxCommands
  BY DEF RoutingTypeOK, Routing!TypeOK, RecordedFits
<1>2. \A i \in 1 .. n : <<t, i>> \in Routing!Recorded
  BY <1>1, MaxCommandsAssumption DEF Routing!Recorded
<1>3. f \in Injection(1 .. n, Routing!Recorded)
  BY <1>2 DEF Injection, IsInjective
<1>4. Cardinality(1 .. n) = n
  BY <1>1, FS_Interval
<1>5. n <= Cardinality(Routing!Recorded)
  BY <1>3, <1>4, FS_Injection DEF RecordedFits
<1>6. Cardinality(Routing!Recorded) < MaxCommands
  BY SameCardinality DEF Routing!Enter
<1>7. Cardinality(Routing!Recorded) \in Nat
  BY FS_CardinalityType DEF RecordedFits
<1> QED BY <1>1, <1>5, <1>6, <1>7, MaxCommandsAssumption

\* Every step keeps the recorded commands finite and within the bound.
LEMMA FitsInductive ==
  RoutingTypeOK /\ RouteInv /\ RecordedFits /\ [Routing!Next]_(Routing!vars) => RecordedFits'
<1> SUFFICES ASSUME RoutingTypeOK, RouteInv, RecordedFits, [Routing!Next]_(Routing!vars)
             PROVE  RecordedFits'
  OBVIOUS
<1> USE DEF Routing!shared, Routing!buffers, Routing!history
<1>1. ASSUME \A t \in Recorders : Len(trace'[t]) = Len(trace[t]),
             trace' \in [Recorders -> Seq(Routing!Entry)]
      PROVE  RecordedFits'
  <2>1. \A t \in Recorders : DOMAIN trace'[t] = DOMAIN trace[t]
    BY <1>1 DEF RoutingTypeOK, Routing!TypeOK
  <2>2. Routing!Recorded' = Routing!Recorded
    BY <2>1 DEF Routing!Recorded
  <2> QED BY <1>1, <2>2 DEF RecordedFits
<1>2. ASSUME NEW t \in Recorders, NEW cmd \in AppCommands, Routing!Enter(t, cmd)
      PROVE  RecordedFits'
  <2> DEFINE n == Len(trace[t])
  <2>1. /\ \A u \in Recorders \ {t} : trace'[u] = trace[u]
        /\ n \in Nat /\ Len(trace'[t]) = n + 1 /\ trace' \in [Recorders -> Seq(Routing!Entry)]
    BY <1>2, EnterTrace
  <2>2. n + 1 <= MaxCommands
    BY <1>2, EntersWithinBound
  <2>3. DOMAIN trace[t] = 1 .. n /\ DOMAIN trace'[t] = 1 .. n + 1
    BY <2>1 DEF RoutingTypeOK, Routing!TypeOK
  <2>4. Routing!Recorded' \subseteq Routing!Recorded \cup {<<t, n + 1>>}
    BY <2>1, <2>3 DEF Routing!Recorded
  <2>5. IsFiniteSet(Routing!Recorded')
    <3>1. IsFiniteSet(Routing!Recorded \cup {<<t, n + 1>>})
      BY FS_AddElement DEF RecordedFits
    <3> QED BY <2>4, <3>1, FS_Subset
  <2> QED BY <2>1, <2>2, <2>5 DEF RecordedFits
<1>3. ASSUME NEW t \in Recorders, call[t].pc # "outside",
             NEW path \in {"direct", "oracle", "jit", "hai"}, NEW cmds \in Seq(Routing!Commands),
             Routing!Deliver(t, path, cmds)
      PROVE  RecordedFits'
  <2>1. trace[t] # << >>
    BY <1>3 DEF RouteInv, LastOpen
  <2> QED BY <1>1, <1>3, <2>1, DeliverTrace
<1>4. ASSUME trace' = trace PROVE RecordedFits'
  BY <1>1, <1>4 DEF RoutingTypeOK, Routing!TypeOK
<1>5. ASSUME NEW t \in Recorders, Routing!Inside(t)
      PROVE  \/ trace' = trace
             \/ /\ call[t].pc # "outside"
                /\ \E path \in {"direct", "oracle", "jit", "hai"}, cmds \in Seq(Routing!Commands) :
                     Routing!Deliver(t, path, cmds)
  <2>1. call[t].pc # "outside" =>
          /\ <<Routing!Command(t)>> \in Seq(Routing!Commands)
          /\ <<Routing!Command(t), Routing!Command(t)>> \in Seq(Routing!Commands)
          /\ <<Routing!OracleCommand(t)>> \in Seq(Routing!Commands)
          /\ << >> \in Seq(Routing!Commands)
          /\ (call[t].pc = "jitDraw" => <<Routing!JitCommand(t)>> \in Seq(Routing!Commands))
    BY DeliveredCommands DEF RouteInv, LastOpen
  <2>2. CASE Routing!Forward(t)
    BY <2>1, <2>2 DEF Routing!Forward
  <2>3. CASE Routing!CheckDirect(t)
    BY <2>1, <2>3 DEF Routing!CheckDirect
  <2>4. CASE Routing!RouteOracle(t) \/ Routing!RouteHai(t)
    BY <2>1, <2>4 DEF Routing!RouteOracle, Routing!RouteHai
  <2>5. CASE Routing!JitDraw(t)
    BY <2>1, <2>5 DEF Routing!JitDraw
  <2>6. CASE Routing!CheckRouted(t) \/ Routing!CountRead(t) \/ Routing!CountWrite(t)
              \/ Routing!RouteJit(t) \/ Routing!JitRestore(t)
    BY <2>6 DEF Routing!CheckRouted, Routing!CountRead, Routing!CountWrite, Routing!RouteJit,
                Routing!JitRestore
  <2> QED BY <1>5, <2>2, <2>3, <2>4, <2>5, <2>6 DEF Routing!Inside
<1>6. ASSUME NEW t \in Recorders,
             \/ Routing!Allocate(t) \/ Routing!FreeCommandBuffer(t) \/ Routing!DestroyPool(t)
             \/ \E p \in Routing!Pipelines : Routing!BindPipeline(t, p)
      PROVE  trace' = trace
  BY <1>6 DEF Routing!Allocate, Routing!FreeCommandBuffer, Routing!DestroyPool, Routing!BindPipeline
<1>7. ASSUME NEW x, Routing!WatcherStores(x) \/ Routing!WatcherSwitches(x) PROVE trace' = trace
  BY <1>7 DEF Routing!WatcherStores, Routing!WatcherSwitches
<1>8. CASE UNCHANGED Routing!vars
  BY <1>4, <1>8 DEF Routing!vars
<1> QED BY <1>2, <1>3, <1>4, <1>5, <1>6, <1>7, <1>8 DEF Routing!Next

\* A step that records and delivers nothing, and moves no call past the increment.
LEMMA MoveKeepsCounted ==
  ASSUME trace' = trace,
         \A u \in Recorders : call'[u].pc \in Uncounted <=> call[u].pc \in Uncounted
  PROVE  Counted' = Counted
<1>1. Routing!Recorded' = Routing!Recorded
  BY DEF Routing!Recorded
<1>2. ASSUME NEW r \in Routing!Recorded
      PROVE  IsCounted(r[1], r[2])' <=> IsCounted(r[1], r[2])
  <2>1. r[1] \in Recorders
    BY DEF Routing!Recorded
  <2> QED BY <2>1 DEF IsCounted, Uncounted
<1> QED BY <1>1, <1>2 DEF Counted

\* Delivering a command before the increment makes it direct, after it leaves it counted.
LEMMA DeliverKeepsCounted ==
  ASSUME RoutingTypeOK, RouteInv, NEW t \in Recorders, call[t].pc \in OpenPcs,
         NEW path \in {"direct", "oracle", "jit", "hai"}, NEW cmds \in Seq(Routing!Commands),
         Routing!Deliver(t, path, cmds),
         \A u \in Recorders \ {t} : call'[u].pc = call[u].pc, call'[t].pc \notin Uncounted,
         call[t].pc # "forward" => (call[t].pc \in Uncounted <=> path = "direct")
  PROVE  Counted' = Counted
<1>n. PICK n : n = Len(trace[t])
  OBVIOUS
<1>1. LastOpen(t) /\ OpenIsLast(t) /\ trace[t] # << >>
  BY DEF RouteInv, LastOpen, OpenPcs
<1>2. /\ trace' \in [Recorders -> Seq(Routing!Entry)]
      /\ \A u \in Recorders \ {t} : trace'[u] = trace[u]
      /\ Len(trace'[t]) = n /\ n \in 1 .. n
      /\ \A i \in 1 .. n : i # n => trace'[t][i] = trace[t][i]
      /\ trace'[t][n].kind = trace[t][n].kind
      /\ trace'[t][n].path = path
  BY <1>n, <1>1, DeliverTrace DEF Routing!Last
<1>3. \A u \in Recorders : DOMAIN trace'[u] = DOMAIN trace[u] /\ DOMAIN trace[u] = 1 .. Len(trace[u])
  <2>1. trace \in [Recorders -> Seq(Routing!Entry)]
    BY DEF RoutingTypeOK, Routing!TypeOK
  <2>2. \A u \in Recorders : DOMAIN trace[u] = 1 .. Len(trace[u]) /\ DOMAIN trace'[u] = 1 .. Len(trace'[u])
    BY <1>2, <2>1
  <2>3. \A u \in Recorders : Len(trace'[u]) = Len(trace[u])
    BY <1>n, <1>2
  <2> QED BY <2>2, <2>3
<1>4. Routing!Recorded' = Routing!Recorded
  BY <1>3 DEF Routing!Recorded
<1>5. IsCounted(t, n)' <=> IsCounted(t, n)
  <2>1. trace[t][n].path = "open"
    BY <1>n, <1>1 DEF LastOpen, Routing!Last
  <2>2. trace[t][n].kind \in Routing!Routed => call[t].pc # "forward"
    BY <1>n, <1>1 DEF LastOpen, Routing!Last
  <2> QED BY <1>2, <2>1, <2>2 DEF IsCounted, Uncounted
<1>6. ASSUME NEW i \in 1 .. n, i # n PROVE IsCounted(t, i)' <=> IsCounted(t, i)
  <2>1. trace[t][i].path # "open" /\ trace'[t][i] = trace[t][i]
    BY <1>n, <1>1, <1>2, <1>6 DEF OpenIsLast
  <2> QED BY <2>1 DEF IsCounted
<1>7. ASSUME NEW u \in Recorders \ {t}, NEW i PROVE IsCounted(u, i)' <=> IsCounted(u, i)
  BY <1>2 DEF IsCounted
<1>8. ASSUME NEW r \in Routing!Recorded
      PROVE  IsCounted(r[1], r[2])' <=> IsCounted(r[1], r[2])
  <2>1. r[1] \in Recorders /\ r[2] \in 1 .. Len(trace[r[1]])
    BY <1>3 DEF Routing!Recorded
  <2>2. CASE r[1] = t
    <3>1. r[2] \in 1 .. n
      BY <1>n, <2>1, <2>2
    <3>2. IsCounted(t, r[2])' <=> IsCounted(t, r[2])
      BY <1>5, <1>6, <3>1
    <3> QED BY <2>2, <3>2
  <2>3. CASE r[1] # t
    BY <1>7, <2>1, <2>3
  <2> QED BY <2>2, <2>3
<1> QED BY <1>4, <1>8 DEF Counted

\* A command that enters is not counted yet.
LEMMA EnterKeepsCounted ==
  ASSUME RoutingTypeOK, RouteInv, NEW t \in Recorders, NEW cmd \in AppCommands, Routing!Enter(t, cmd)
  PROVE  Counted' = Counted
<1>n. PICK n : n = Len(trace[t])
  OBVIOUS
<1>1. /\ trace' \in [Recorders -> Seq(Routing!Entry)]
      /\ \A u \in Recorders \ {t} : trace'[u] = trace[u]
      /\ n \in Nat /\ Len(trace'[t]) = n + 1
      /\ \A i \in 1 .. n : trace'[t][i] = trace[t][i]
      /\ trace'[t][n + 1].kind = cmd.kind /\ trace'[t][n + 1].path = "open"
  <2>1. trace'[t][n + 1] = [kind |-> cmd.kind, args |-> cmd.args, path |-> "open", got |-> << >>]
    BY <1>n, EnterTrace
  <2>2. trace'[t][n + 1].kind = cmd.kind /\ trace'[t][n + 1].path = "open"
    BY <2>1
  <2> QED BY <1>n, <2>2, EnterTrace
<1>2. /\ call[t].pc = "outside" /\ \A u \in Recorders \ {t} : call'[u] = call[u]
      /\ call'[t].pc = IF cmd.kind \in Routing!Routed THEN "check" ELSE "forward"
  BY DEF Routing!Enter, RoutingTypeOK, Routing!TypeOK, Routing!Outside
<1>3. /\ \A u \in Recorders \ {t} : DOMAIN trace'[u] = DOMAIN trace[u]
      /\ DOMAIN trace[t] = 1 .. n /\ DOMAIN trace'[t] = 1 .. n + 1
  BY <1>n, <1>1 DEF RoutingTypeOK, Routing!TypeOK
<1>4. ~IsCounted(t, n + 1)'
  BY <1>1, <1>2 DEF IsCounted, Uncounted
<1>5. ASSUME NEW i \in 1 .. n PROVE IsCounted(t, i)' <=> IsCounted(t, i)
  <2>1. trace[t][i].path # "open" /\ trace'[t][i] = trace[t][i]
    BY <1>n, <1>1, <1>2 DEF RouteInv, OpenIsLast, OpenPcs
  <2> QED BY <2>1 DEF IsCounted
<1>6. ASSUME NEW u \in Recorders \ {t}, NEW i PROVE IsCounted(u, i)' <=> IsCounted(u, i)
  BY <1>1, <1>2 DEF IsCounted
<1>7. ASSUME NEW r \in Recorders \X (1 .. MaxCommands)
      PROVE  r \in Counted' <=> r \in Counted
  <2>1. r[1] \in Recorders /\ r[2] \in Nat
    BY MaxCommandsAssumption
  <2>2. /\ r \in Counted <=> r[2] \in DOMAIN trace[r[1]] /\ IsCounted(r[1], r[2])
        /\ r \in Counted' <=> r[2] \in DOMAIN trace'[r[1]] /\ IsCounted(r[1], r[2])'
    BY DEF Counted, Routing!Recorded
  <2>3. CASE r[1] # t
    BY <1>3, <1>6, <2>1, <2>2, <2>3
  <2>4. CASE r[1] = t
    <3>1. r[2] \in 1 .. n + 1 <=> r[2] \in 1 .. n \/ r[2] = n + 1
      BY <1>1, <2>1
    <3>2. r[2] = n + 1 => ~IsCounted(r[1], r[2])' /\ r[2] \notin 1 .. n
      BY <1>1, <1>4, <2>4
    <3>3. r[2] \in 1 .. n => (IsCounted(r[1], r[2])' <=> IsCounted(r[1], r[2]))
      BY <1>5, <2>4
    <3> QED BY <1>3, <2>2, <2>4, <3>1, <3>2, <3>3
  <2> QED BY <2>3, <2>4
<1>8. Counted \subseteq Recorders \X (1 .. MaxCommands) /\ Counted' \subseteq Recorders \X (1 .. MaxCommands)
  BY DEF Counted, Routing!Recorded
<1> QED BY <1>7, <1>8

\* The increment counts the open command of its thread, which was not counted before.
LEMMA WriteCountsOne ==
  ASSUME RoutingTypeOK, RouteInv, RecordedFits, NEW t \in Recorders, Routing!CountWrite(t)
  PROVE  Cardinality(Counted') = Cardinality(Counted) + 1 /\ Cardinality(Counted) \in Nat
<1>n. PICK n : n = Len(trace[t])
  OBVIOUS
<1>1. /\ trace' = trace /\ call[t].pc = "increment" /\ call'[t].pc = "route"
      /\ \A u \in Recorders \ {t} : call'[u] = call[u]
  <2>1. call \in [Recorders -> RouteCalls] /\ call[t] \in RouteCalls
    BY CallTypes DEF RoutingTypeOK, Routing!TypeOK, RouteCalls, Pcs
  <2>2. trace' = trace /\ call[t].pc = "increment" /\ call' = [call EXCEPT ![t].pc = "route"]
    BY DEF Routing!CountWrite, Routing!Goto, Routing!history
  <2> QED BY <2>1, <2>2 DEF RouteCalls
<1>2. /\ n \in 1 .. MaxCommands /\ n \in DOMAIN trace[t]
      /\ DOMAIN trace[t] = 1 .. n
  <2>1. trace[t] \in Seq(Routing!Entry) /\ trace[t] # << >> /\ n <= MaxCommands
    BY <1>n, <1>1 DEF RoutingTypeOK, Routing!TypeOK, RouteInv, LastOpen, RecordedFits
  <2> QED BY <1>n, <2>1, MaxCommandsAssumption
<1>3. trace[t][n].path = "open" /\ trace[t][n].kind \in Routing!Routed
  BY <1>n, <1>1 DEF RouteInv, LastOpen, OpenPcs, Routing!Last
<1>4. <<t, n>> \in Routing!Recorded /\ Routing!Recorded' = Routing!Recorded
  BY <1>1, <1>2 DEF Routing!Recorded
<1>5. IsCounted(t, n)' /\ ~IsCounted(t, n)
  BY <1>1, <1>3 DEF IsCounted, Uncounted
<1>6. ASSUME NEW i \in DOMAIN trace[t], i # n PROVE IsCounted(t, i)' <=> IsCounted(t, i)
  <2>1. trace[t][i].path # "open"
    BY <1>n, <1>2, <1>6 DEF RouteInv, OpenIsLast
  <2> QED BY <1>1, <2>1 DEF IsCounted
<1>7. ASSUME NEW u \in Recorders \ {t}, NEW i PROVE IsCounted(u, i)' <=> IsCounted(u, i)
  BY <1>1 DEF IsCounted
<1>8. ASSUME NEW r \in Routing!Recorded, r # <<t, n>>
      PROVE  IsCounted(r[1], r[2])' <=> IsCounted(r[1], r[2])
  <2>1. r[1] \in Recorders /\ r[2] \in DOMAIN trace[r[1]] /\ r = <<r[1], r[2]>>
    BY DEF Routing!Recorded
  <2>2. CASE r[1] = t
    BY <1>6, <1>8, <2>1, <2>2
  <2>3. CASE r[1] # t
    BY <1>7, <2>1, <2>3
  <2> QED BY <2>2, <2>3
<1>9. <<t, n>> \notin Counted
  BY <1>5 DEF Counted
<1>10. Counted' = Counted \cup {<<t, n>>}
  BY <1>4, <1>5, <1>8 DEF Counted
<1>11. IsFiniteSet(Counted)
  BY FS_Subset DEF Counted, RecordedFits
<1> QED BY <1>9, <1>10, <1>11, FS_AddElement, FS_CardinalityType

\* A step that leaves the counters and the counted commands alone, and starts no increment.
LEMMA MoveKeepsCounters ==
  ASSUME CountersInv, raced' = raced, counters' = counters, Counted' = Counted,
         \A u \in Recorders : call'[u] = call[u] \/ call'[u].pc # "increment"
  PROVE  CountersInv'
<1>1. IncrementsExact => IncrementsExact'
  BY DEF IncrementsExact
<1> QED BY <1>1 DEF CountersInv

\* Every step keeps the counters equal to the commands counted, until there is a race.
LEMMA CountersInductive ==
  RoutingTypeOK /\ RouteInv /\ RecordedFits /\ CountersInv /\ [Routing!Next]_(Routing!vars)
    => CountersInv'
<1> SUFFICES ASSUME RoutingTypeOK, RouteInv, RecordedFits, CountersInv, [Routing!Next]_(Routing!vars)
             PROVE  CountersInv'
  OBVIOUS
<1> USE DEF Routing!shared, Routing!buffers, Routing!history
<1>0. call \in [Recorders -> RouteCalls] /\ \A t \in Recorders : call[t] \in RouteCalls
  BY CallTypes DEF RoutingTypeOK, Routing!TypeOK, RouteCalls, Pcs
<1>1. ASSUME UNCHANGED <<call, trace, counters, raced>> PROVE CountersInv'
  <2>1. Counted' = Counted
    BY <1>1, MoveKeepsCounted
  <2> QED BY <1>1, <2>1, MoveKeepsCounters
<1>2. ASSUME NEW t \in Recorders, Routing!Allocate(t) \/ Routing!FreeCommandBuffer(t)
                                  \/ Routing!DestroyPool(t)
                                  \/ \E p \in Routing!Pipelines : Routing!BindPipeline(t, p)
      PROVE  CountersInv'
  BY <1>1, <1>2 DEF Routing!Allocate, Routing!FreeCommandBuffer, Routing!DestroyPool,
                    Routing!BindPipeline
<1>3. ASSUME NEW t \in Recorders, NEW cmd \in AppCommands, Routing!Enter(t, cmd)
      PROVE  CountersInv'
  <2>1. Counted' = Counted
    BY <1>3, EnterKeepsCounted
  <2>2. /\ \A u \in Recorders \ {t} : call'[u] = call[u]
        /\ call'[t].pc # "increment" /\ raced' = raced /\ counters' = counters
    BY <1>0, <1>3 DEF Routing!Enter, Routing!Outside
  <2> QED BY <2>1, <2>2, MoveKeepsCounters
<1>4. ASSUME NEW t \in Recorders, call' = [call EXCEPT ![t] = Routing!Outside]
      PROVE  call'[t].pc = "outside" /\ \A u \in Recorders \ {t} : call'[u] = call[u]
  BY <1>0, <1>4 DEF Routing!Outside
<1>5. ASSUME NEW t \in Recorders, NEW pc, call' = [call EXCEPT ![t].pc = pc]
      PROVE  call'[t].pc = pc /\ \A u \in Recorders \ {t} : call'[u] = call[u]
  BY <1>0, <1>5 DEF RouteCalls
<1>6. \A t \in Recorders : call[t].pc # "outside" =>
        /\ <<Routing!Command(t)>> \in Seq(Routing!Commands)
        /\ <<Routing!Command(t), Routing!Command(t)>> \in Seq(Routing!Commands)
        /\ <<Routing!OracleCommand(t)>> \in Seq(Routing!Commands)
        /\ << >> \in Seq(Routing!Commands)
        /\ (call[t].pc = "jitDraw" => <<Routing!JitCommand(t)>> \in Seq(Routing!Commands))
  BY DeliveredCommands DEF RouteInv, LastOpen
<1>7. ASSUME NEW t \in Recorders, Routing!Forward(t) \/ Routing!CheckDirect(t) PROVE CountersInv'
  <2>1. PICK cmds \in Seq(Routing!Commands) : Routing!Deliver(t, "direct", cmds)
    BY <1>6, <1>7 DEF Routing!Forward, Routing!CheckDirect
  <2>2. call[t].pc \in {"forward", "check"} /\ counters' = counters
        /\ call' = [call EXCEPT ![t] = Routing!Outside]
    BY <1>7 DEF Routing!Forward, Routing!CheckDirect, Routing!Return
  <2>3. raced' = raced
    BY <2>1 DEF Routing!Deliver
  <2>4. Counted' = Counted
    BY <1>4, <2>1, <2>2, DeliverKeepsCounted DEF OpenPcs, Uncounted
  <2> QED BY <1>4, <2>2, <2>3, <2>4, MoveKeepsCounters
<1>8. ASSUME NEW t \in Recorders, Routing!RouteOracle(t) \/ Routing!RouteHai(t) PROVE CountersInv'
  <2>1. PICK path \in {"oracle", "hai"}, cmds \in Seq(Routing!Commands) :
          Routing!Deliver(t, path, cmds)
    BY <1>6, <1>8 DEF Routing!RouteOracle, Routing!RouteHai
  <2>2. call[t].pc = "route" /\ counters' = counters
        /\ call' = [call EXCEPT ![t] = Routing!Outside]
    BY <1>8 DEF Routing!RouteOracle, Routing!RouteHai, Routing!Return
  <2>3. raced' = raced
    BY <2>1 DEF Routing!Deliver
  <2>4. Counted' = Counted
    BY <1>4, <2>1, <2>2, DeliverKeepsCounted DEF OpenPcs, Uncounted
  <2> QED BY <1>4, <2>2, <2>3, <2>4, MoveKeepsCounters
<1>9. ASSUME NEW t \in Recorders, Routing!JitDraw(t) PROVE CountersInv'
  <2>1. call[t].pc = "jitDraw" /\ counters' = counters
        /\ Routing!Deliver(t, "jit", <<Routing!JitCommand(t)>>)
        /\ call' = [call EXCEPT ![t].pc = "jitRestore"]
    BY <1>9 DEF Routing!JitDraw, Routing!Goto
  <2>2. raced' = raced
    BY <2>1 DEF Routing!Deliver
  <2>3. Counted' = Counted
    BY <1>5, <1>6, <2>1, DeliverKeepsCounted DEF OpenPcs, Uncounted
  <2> QED BY <1>5, <2>1, <2>2, <2>3, MoveKeepsCounters
<1>10. ASSUME NEW t \in Recorders, Routing!CheckRouted(t) PROVE CountersInv'
  <2>1. PICK b \in Routing!Backends : call' = [call EXCEPT ![t].pc = "count", ![t].backend = b]
    BY <1>10 DEF Routing!CheckRouted
  <2>2. call'[t].pc = "count" /\ \A u \in Recorders \ {t} : call'[u] = call[u]
    BY <1>0, <2>1 DEF RouteCalls
  <2>3. call[t].pc = "check" /\ UNCHANGED <<trace, counters, raced>>
    BY <1>10 DEF Routing!CheckRouted
  <2>4. Counted' = Counted
    BY <2>2, <2>3, MoveKeepsCounted DEF Uncounted
  <2> QED BY <2>2, <2>3, <2>4, MoveKeepsCounters
<1>11. ASSUME NEW t \in Recorders, Routing!RouteJit(t) PROVE CountersInv'
  <2>1. call[t].pc = "route" /\ call' = [call EXCEPT ![t].pc = "jitDraw"]
        /\ UNCHANGED <<trace, counters, raced>>
    BY <1>11 DEF Routing!RouteJit, Routing!Goto
  <2>2. Counted' = Counted
    BY <1>5, <2>1, MoveKeepsCounted DEF Uncounted
  <2> QED BY <1>5, <2>1, <2>2, MoveKeepsCounters
<1>12. ASSUME NEW t \in Recorders, Routing!JitRestore(t) PROVE CountersInv'
  <2>1. call[t].pc = "jitRestore" /\ call' = [call EXCEPT ![t] = Routing!Outside]
        /\ UNCHANGED <<trace, counters, raced>>
    BY <1>12 DEF Routing!JitRestore, Routing!Return
  <2>2. Counted' = Counted
    BY <1>4, <2>1, MoveKeepsCounted DEF Uncounted
  <2> QED BY <1>4, <2>1, <2>2, MoveKeepsCounters
<1>13. ASSUME NEW t \in Recorders, Routing!CountRead(t) PROVE CountersInv'
  <2>1. /\ call'[t].pc = "increment" /\ call'[t].backend = call[t].backend
        /\ call'[t].read = counters[call[t].backend]
        /\ \A u \in Recorders \ {t} : call'[u] = call[u]
    BY <1>0, <1>13 DEF Routing!CountRead, RouteCalls
  <2>2. call[t].pc = "count" /\ counters' = counters /\ trace' = trace
    BY <1>13 DEF Routing!CountRead
  <2>3. ASSUME ~raced'
        PROVE  /\ ~raced
               /\ \A u \in Recorders \ {t} :
                    call[u].pc = "increment" => call[u].backend # call[t].backend
    BY <1>13, <2>3, Zenon DEF Routing!CountRead
  <2>4. Counted' = Counted
    BY <2>1, <2>2, MoveKeepsCounted DEF Uncounted
  <2>5. ASSUME ~raced' PROVE IncrementsExact'
    <3>1. IncrementsExact
      BY <2>3, <2>5 DEF CountersInv
    <3> QED BY <2>1, <2>2, <2>3, <2>5, <3>1 DEF IncrementsExact
  <2> QED BY <2>2, <2>3, <2>4, <2>5 DEF CountersInv
<1>14. ASSUME NEW t \in Recorders, Routing!CountWrite(t) PROVE CountersInv'
  <2>1. /\ call[t].pc = "increment" /\ call' = [call EXCEPT ![t].pc = "route"]
        /\ counters' = [counters EXCEPT ![call[t].backend] = call[t].read + 1]
        /\ raced' = raced
    BY <1>14 DEF Routing!CountWrite, Routing!Goto
  <2>2. call'[t].pc = "route" /\ \A u \in Recorders \ {t} : call'[u] = call[u]
    BY <1>5, <2>1
  <2>3. counters \in [Routing!Backends -> Nat] /\ call[t].backend \in Routing!Backends
        /\ \A u \in Recorders : call[u].backend \in Routing!Backends
    BY <1>0 DEF RoutingTypeOK, Routing!TypeOK, RouteCalls
  <2>4. ASSUME IncrementsExact PROVE IncrementsExact'
    <3>1. \A u \in Recorders \ {t} : call[u].pc = "increment" =>
            counters'[call[u].backend] = counters[call[u].backend]
      BY <2>1, <2>3, <2>4 DEF IncrementsExact
    <3> QED BY <2>2, <2>4, <3>1 DEF IncrementsExact
  <2>5. ASSUME IncrementsExact
        PROVE  counters'["JIT"] + counters'["HAI"] + counters'["Oracle"]
                 = counters["JIT"] + counters["HAI"] + counters["Oracle"] + 1
    <3>1. counters' = [counters EXCEPT ![call[t].backend] = counters[call[t].backend] + 1]
      BY <2>1, <2>5 DEF IncrementsExact
    <3> QED BY <2>3, <3>1 DEF Routing!Backends
  <2>6. Cardinality(Counted') = Cardinality(Counted) + 1 /\ Cardinality(Counted) \in Nat
    BY <1>14, WriteCountsOne
  <2>7. CASE raced
    BY <2>1, <2>7, Zenon DEF CountersInv
  <2>8. CASE ~raced
    <3>1. IncrementsExact /\ counters["JIT"] + counters["HAI"] + counters["Oracle"] = Cardinality(Counted)
      BY <2>8 DEF CountersInv
    <3> QED BY <2>4, <2>5, <2>6, <3>1 DEF CountersInv
  <2> QED BY <2>7, <2>8
<1>15. ASSUME NEW x, Routing!WatcherStores(x) \/ Routing!WatcherSwitches(x) PROVE CountersInv'
  BY <1>1, <1>15 DEF Routing!WatcherStores, Routing!WatcherSwitches
<1>16. CASE UNCHANGED Routing!vars
  BY <1>1, <1>16 DEF Routing!vars
<1> QED
  BY <1>2, <1>3, <1>7, <1>8, <1>9, <1>10, <1>11, <1>12, <1>13, <1>14, <1>15, <1>16
  DEF Routing!Next, Routing!Inside

(***************************************************************************)
(* The backend counters of the session report add up to the commands that  *)
(* were routed, for any number of threads, unless two threads incremented  *)
(* one counter at the same time.                                           *)
(***************************************************************************)
THEOREM CountersCorrect == RoutingSpec => []CountersComplete
<1>1. ASSUME Routing!Init PROVE RecordedFits /\ CountersInv
  <2>1. \A t \in Recorders : trace[t] = << >> /\ call[t].pc = "outside"
    BY <1>1 DEF Routing!Init, Routing!Outside
  <2>2. Routing!Recorded = {}
    BY <2>1 DEF Routing!Recorded
  <2>3. Counted = {}
    BY <2>2 DEF Counted
  <2>4. \A t \in Recorders : Len(trace[t]) <= MaxCommands
    BY <2>1, MaxCommandsAssumption
  <2>5. IncrementsExact
    BY <2>1 DEF IncrementsExact
  <2>6. counters["JIT"] + counters["HAI"] + counters["Oracle"] = 0
    BY <1>1 DEF Routing!Init, Routing!Backends
  <2> QED BY <2>2, <2>3, <2>4, <2>5, <2>6, FS_EmptySet DEF RecordedFits, CountersInv
<1>2. ASSUME CountersInv PROVE CountersComplete
  <2> SUFFICES ASSUME \A t \in Recorders : call[t].pc = "outside", ~raced
               PROVE  counters["JIT"] + counters["HAI"] + counters["Oracle"]
                        = Cardinality({r \in Routing!Recorded :
                                         /\ trace[r[1]][r[2]].kind \in Routing!Routed
                                         /\ trace[r[1]][r[2]].path # "direct"})
    BY SameCardinality DEF CountersComplete, Routing!CountersComplete
  <2>1. Counted = {r \in Routing!Recorded : /\ trace[r[1]][r[2]].kind \in Routing!Routed
                                            /\ trace[r[1]][r[2]].path # "direct"}
    <3>1. \A r \in Routing!Recorded : r[1] \in Recorders
      BY DEF Routing!Recorded
    <3> QED BY <3>1 DEF Counted, IsCounted, Uncounted
  <2> QED BY <1>2, <2>1 DEF CountersInv
<1> QED
  BY <1>1, <1>2, FitsInductive, CountersInductive, RoutingHolds, PTL DEF RoutingSpec, Routing!Spec

=============================================================================

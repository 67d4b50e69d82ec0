------------------------- MODULE HelperHooksProofs -------------------------
(* Proofs about HelperHooks, for any targets, functions, cores and table size. *)
EXTENDS HelperHooks, FiniteSetTheorems, TLAPS

\* What a table looks like after a record has gone from it.
LEMMA WithoutType ==
  ASSUME TypeOK, NEW i \in 1 .. Len(hooks)
  PROVE  /\ Without(i) \in Seq(Records)
         /\ Len(Without(i)) = Len(hooks) - 1
         /\ \A j \in 1 .. Len(hooks) - 1 :
              Without(i)[j] = IF j < i THEN hooks[j] ELSE hooks[j + 1]
<1>1. hooks \in Seq(Records) /\ Len(hooks) \in Nat
  BY DEF TypeOK
<1>2. \A j \in 1 .. Len(hooks) - 1 : j \in 1 .. Len(hooks) /\ j + 1 \in 1 .. Len(hooks)
  BY <1>1
<1>3. Without(i) \in [1 .. Len(hooks) - 1 -> Records]
  BY <1>1, <1>2 DEF Without
<1> QED BY <1>1, <1>3 DEF Without

\* What a table looks like after a record has joined it.
LEMMA WithRecordType ==
  ASSUME TypeOK, NEW r \in Records
  PROVE  /\ Append(hooks, r) \in Seq(Records)
         /\ Len(Append(hooks, r)) = Len(hooks) + 1
         /\ \A j \in 1 .. Len(hooks) : Append(hooks, r)[j] = hooks[j]
         /\ Append(hooks, r)[Len(hooks) + 1] = r
BY DEF TypeOK

\* A record of the table, and where the table holds one for a target.
LEMMA RecordType ==
  ASSUME TypeOK, NEW i \in 1 .. Len(hooks)
  PROVE  /\ hooks[i] \in Records
         /\ hooks[i].target \in Targets
         /\ hooks[i].original \in Functions
         /\ hooks[i].replacement \in Functions
<1>1. hooks[i] \in Records
  BY DEF TypeOK
<1> QED BY <1>1 DEF Records

LEMMA HookedAt ==
  ASSUME NEW t, Hooked(t)
  PROVE  LET k == CHOOSE i \in 1 .. Len(hooks) : hooks[i].target = t
         IN  k \in 1 .. Len(hooks) /\ hooks[k].target = t
BY DEF Hooked

\* Restoring gives every target a function.
LEMMA RestoredType ==
  ASSUME TypeOK, NEW failed \in SUBSET Targets
  PROVE  Restored(failed) \in [Targets -> Functions]
<1>1. ASSUME NEW t \in Targets, Hooked(t)
      PROVE  (hooks[CHOOSE i \in 1 .. Len(hooks) : hooks[i].target = t]).original \in Functions
  BY <1>1, HookedAt, RecordType
<1>2. slot \in [Targets -> Functions]
  BY DEF TypeOK
<1>3. ASSUME NEW t \in Targets
      PROVE  (IF Hooked(t) /\ t \notin failed
              THEN (hooks[CHOOSE i \in 1 .. Len(hooks) : hooks[i].target = t]).original
              ELSE slot[t]) \in Functions
  BY <1>1, <1>2
<1> QED BY <1>3, Zenon DEF Restored

\* The initial state.
LEMMA Initially == Init => HookInv
<1> SUFFICES ASSUME Init PROVE HookInv
  OBVIOUS
<1>1. hooks = << >> /\ Len(hooks) = 0
  BY DEF Init
<1>2. Holders = {}
  BY DEF Init, Holders
<1>3. RefsCover
  BY <1>2, FS_EmptySet DEF RefsCover, Init
<1>4. TypeOK
  <2>1. ready \in BOOLEAN /\ FALSE \in BOOLEAN
    BY Zenon DEF Init
  <2>2. core \in [Cores -> [pc : {"none", "constructed", "up", "detached", "gone"}, module : BOOLEAN]]
    BY <2>1, SMT DEF Init
  <2>3. slot \in [Targets -> Functions] /\ refs \in Nat /\ stranded \subseteq Targets
    BY GenuineAssumption DEF Init
  <2>4. hooks \in Seq(Records) /\ Len(hooks) <= Places
    BY <1>1, PlacesAssumption
  <2> QED BY <2>1, <2>2, <2>3, <2>4, Zenon DEF TypeOK
<1>5. TableMatchesMemory /\ GenuineRestored /\ ReadyWhileHooked
  BY <1>1 DEF Init, TableMatchesMemory, GenuineRestored, ReadyWhileHooked
<1> QED BY <1>3, <1>4, <1>5 DEF HookInv

\* The cores that hold a module are finitely many.
LEMMA HoldersFinite == IsFiniteSet(Holders) /\ Cardinality(Holders) \in Nat
<1>1. Holders \subseteq Cores
  BY DEF Holders
<1> QED BY <1>1, CoresAssumption, FS_Subset, FS_CardinalityType

\* Giving back a reference leaves at least none.
LEMMA HolderHasRef ==
  ASSUME HookInv, NEW c \in Cores, core[c].module
  PROVE  refs \in Nat /\ refs > 0 /\ Cardinality(Holders \ {c}) <= refs - 1
<1>1. c \in Holders
  BY DEF Holders
<1>2. Cardinality(Holders \ {c}) = Cardinality(Holders) - 1 /\ Cardinality(Holders \ {c}) \in Nat
  BY <1>1, HoldersFinite, FS_RemoveElement, FS_CardinalityType
<1> QED BY <1>2, HoldersFinite DEF HookInv, TypeOK, RefsCover

\* Every step keeps every variable in its type.
LEMMA TypeInductive == HookInv /\ [Next]_vars => TypeOK'
<1> SUFFICES ASSUME HookInv, [Next]_vars PROVE TypeOK'
  OBVIOUS
<1> USE DEF table
<1>0. TypeOK
  BY DEF HookInv
<1>1. ASSUME NEW t \in Targets, NEW r \in Functions, InstallHook(t, r) PROVE TypeOK'
  <2>1. [target |-> t, original |-> slot[t], replacement |-> r] \in Records
    BY <1>0 DEF TypeOK, Records
  <2>2. hooks' \in Seq(Records) /\ Len(hooks') <= Places
    BY <1>0, <1>1, <2>1, WithRecordType, PlacesAssumption DEF InstallHook, TypeOK
  <2>3. ready' \in BOOLEAN
    BY <1>1, Zenon DEF InstallHook
  <2> QED BY <1>0, <1>1, <2>2, <2>3 DEF InstallHook, TypeOK
<1>2. ASSUME NEW i \in 1 .. Places, RemoveHook(i) PROVE TypeOK'
  <2>1. i \in 1 .. Len(hooks) /\ Len(hooks) \in Nat
    BY <1>0, <1>2, PlacesAssumption DEF RemoveHook, TypeOK
  <2>2. hooks' \in Seq(Records) /\ Len(hooks') <= Places
    <3>1. hooks' = Without(i) /\ Len(hooks) <= Places
      BY <1>0, <1>2 DEF RemoveHook, TypeOK
    <3>2. Without(i) \in Seq(Records) /\ Len(Without(i)) = Len(hooks) - 1
      BY <1>0, <2>1, WithoutType
    <3> QED BY <2>1, <3>1, <3>2, PlacesAssumption
  <2>3. slot' \in [Targets -> Functions]
    <3>1. hooks[i].original \in Functions
      BY <1>0, <2>1, RecordType
    <3> QED BY <1>0, <1>2, <3>1 DEF RemoveHook, TypeOK
  <2>4. ready' \in BOOLEAN
    <3>1. (Len(hooks) > 1) \in BOOLEAN
      OBVIOUS
    <3> QED BY <1>2, <3>1, Zenon DEF RemoveHook
  <2> QED BY <1>0, <1>2, <2>2, <2>3, <2>4 DEF RemoveHook, TypeOK
<1>3. ASSUME Shutdown
      PROVE  /\ slot' \in [Targets -> Functions]
             /\ hooks' \in Seq(Records) /\ Len(hooks') <= Places
             /\ stranded' \subseteq Targets /\ ready' \in BOOLEAN
  <2>1. slot' \in [Targets -> Functions] /\ stranded' \subseteq Targets
    BY <1>0, <1>3, RestoredType DEF Shutdown, TypeOK
  <2>2. hooks' = << >> /\ hooks' \in Seq(Records) /\ Len(hooks') <= Places
    BY <1>3, PlacesAssumption DEF Shutdown
  <2>3. ready' \in BOOLEAN
    BY <1>3, Zenon DEF Shutdown
  <2> QED BY <2>1, <2>2, <2>3
<1>4. CASE DetachProcessHooks
  BY <1>0, <1>3, <1>4 DEF DetachProcessHooks, TypeOK
<1>5. ASSUME NEW c \in Cores, AttachHelper(c) PROVE TypeOK'
  <2>1. ready' \in BOOLEAN
    BY <1>5, Zenon DEF AttachHelper
  <2> QED BY <1>0, <1>5, <2>1 DEF AttachHelper, Attached, TypeOK
<1>6. ASSUME NEW c \in Cores, AttachFails(c) PROVE TypeOK'
  BY <1>0, <1>6 DEF AttachFails, Attached, TypeOK
<1>7. ASSUME NEW c \in Cores, DetachCore(c) PROVE TypeOK'
  <2>1. Shutdown /\ refs' = refs
    BY <1>7 DEF DetachCore
  <2>2. core' \in [Cores -> [pc : {"none", "constructed", "up", "detached", "gone"}, module : BOOLEAN]]
    BY <1>0, <1>7 DEF DetachCore, TypeOK
  <2> QED BY <1>0, <1>3, <2>1, <2>2 DEF TypeOK
<1>10. ASSUME NEW c \in Cores, FreeHelper(c) PROVE TypeOK'
  <2>1. refs' \in Nat
    <3>1. core[c].module /\ refs' = refs - 1
      BY <1>10 DEF FreeHelper, HookInv, RefsCover
    <3>2. refs \in Nat /\ refs > 0
      BY <3>1, HolderHasRef
    <3> QED BY <3>1, <3>2
  <2>2. core' \in [Cores -> [pc : {"none", "constructed", "up", "detached", "gone"}, module : BOOLEAN]]
    BY <1>0, <1>10 DEF FreeHelper, TypeOK
  <2>3. hooks' \in Seq(Records) /\ Len(hooks') <= Places /\ stranded' \subseteq Targets
    <3>1. CASE UNCHANGED <<hooks, ready, stranded>>
      BY <1>0, <3>1 DEF TypeOK
    <3>2. CASE Unload
      <4>1. hooks' = << >> /\ stranded' \subseteq Targets
        BY <1>0, <3>2 DEF Unload, TypeOK
      <4> QED BY <4>1, PlacesAssumption
    <3> QED BY <1>10, <3>1, <3>2 DEF FreeHelper
  <2>4. ready' \in BOOLEAN
    <3>1. ready' = ready \/ ready' = FALSE
      BY <1>10 DEF FreeHelper, Unload
    <3> QED BY <1>0, <3>1, Zenon DEF TypeOK
  <2>5. slot' \in [Targets -> Functions]
    BY <1>0, <1>10 DEF FreeHelper, TypeOK
  <2> QED BY <2>1, <2>2, <2>3, <2>4, <2>5 DEF TypeOK
<1>8. ASSUME NEW c \in Cores, DestroyCoreWithout(c) PROVE TypeOK'
  BY <1>0, <1>8 DEF DestroyCoreWithout, TypeOK
<1>9. CASE UNCHANGED vars
  BY <1>0, <1>9 DEF vars, TypeOK
<1> QED BY <1>1, <1>2, <1>4, <1>5, <1>6, <1>7, <1>8, <1>9, <1>10 DEF Next

\* The references still cover the cores that hold the module.
LEMMA RefsInductive == HookInv /\ [Next]_vars => RefsCover'
<1> SUFFICES ASSUME HookInv, [Next]_vars PROVE RefsCover'
  OBVIOUS
<1>0. TypeOK /\ RefsCover /\ refs \in Nat
  BY DEF HookInv, TypeOK
<1>a. \A c \in Cores : core[c].pc = "detached" => core[c].module
  BY <1>0 DEF RefsCover
<1>1. ASSUME UNCHANGED <<refs, core>> PROVE RefsCover'
  <2>1. Holders' = Holders
    BY <1>1 DEF Holders
  <2> QED BY <1>0, <1>1, <2>1 DEF RefsCover
<1>2. ASSUME NEW c \in Cores, AttachHelper(c) PROVE RefsCover'
  <2>1. Holders' = Holders \cup {c}
    BY <1>0, <1>2 DEF Holders, AttachHelper, TypeOK
  <2>2. Cardinality(Holders \cup {c}) <= Cardinality(Holders) + 1
    <3>1. Cardinality(Holders \cup {c}) = IF c \in Holders THEN Cardinality(Holders)
                                                            ELSE Cardinality(Holders) + 1
      BY HoldersFinite, FS_AddElement
    <3> QED BY <3>1, HoldersFinite
  <2>3. Cardinality(Holders') \in Nat
    BY <2>1, HoldersFinite, FS_AddElement, FS_CardinalityType
  <2>4. Cardinality(Holders') <= refs'
    BY <1>0, <1>2, <2>1, <2>2, <2>3, HoldersFinite DEF RefsCover, AttachHelper
  <2>5. \A d \in Cores : core'[d].pc = "detached" => core'[d].module
    BY <1>0, <1>a, <1>2 DEF AttachHelper, Attached, TypeOK
  <2> QED BY <2>4, <2>5 DEF RefsCover
<1>4. ASSUME NEW c \in Cores, AttachFails(c) PROVE RefsCover'
  <2>1. Holders' = Holders \ {c}
    BY <1>0, <1>4 DEF Holders, AttachFails, TypeOK
  <2>2. Cardinality(Holders \ {c}) <= Cardinality(Holders) /\ Cardinality(Holders \ {c}) \in Nat
    <3>1. Cardinality(Holders \ {c}) = IF c \in Holders THEN Cardinality(Holders) - 1
                                                         ELSE Cardinality(Holders)
      BY HoldersFinite, FS_RemoveElement
    <3>2. Cardinality(Holders \ {c}) \in Nat
      BY HoldersFinite, FS_RemoveElement, FS_CardinalityType
    <3> QED BY <3>1, <3>2, HoldersFinite
  <2>3. Cardinality(Holders') <= refs'
    BY <1>0, <1>4, <2>1, <2>2, HoldersFinite DEF RefsCover, AttachFails
  <2>4. \A d \in Cores : core'[d].pc = "detached" => core'[d].module
    BY <1>0, <1>a, <1>4 DEF AttachFails, Attached, TypeOK
  <2> QED BY <2>3, <2>4 DEF RefsCover
<1>5. ASSUME NEW c \in Cores, DetachCore(c) PROVE RefsCover'
  <2>1. Holders' = Holders
    BY <1>0, <1>5 DEF Holders, DetachCore, TypeOK
  <2>2. \A d \in Cores : core'[d].pc = "detached" => core'[d].module
    BY <1>0, <1>a, <1>5 DEF DetachCore, TypeOK
  <2>3. refs' = refs
    BY <1>5 DEF DetachCore
  <2> QED BY <1>0, <2>1, <2>2, <2>3 DEF RefsCover
<1>7. ASSUME NEW c \in Cores, FreeHelper(c) PROVE RefsCover'
  <2>1. Holders' = Holders \ {c}
    BY <1>0, <1>7 DEF Holders, FreeHelper, TypeOK
  <2>2. core[c].module /\ refs' = refs - 1
    BY <1>a, <1>7 DEF FreeHelper
  <2>3. \A d \in Cores : core'[d].pc = "detached" => core'[d].module
    BY <1>0, <1>a, <1>7 DEF FreeHelper, TypeOK
  <2> QED BY <2>1, <2>2, <2>3, HolderHasRef DEF RefsCover
<1>6. ASSUME NEW c \in Cores, DestroyCoreWithout(c) PROVE RefsCover'
  <2>1. Holders' = Holders
    BY <1>0, <1>6 DEF Holders, DestroyCoreWithout, TypeOK
  <2>2. refs' = refs
    BY <1>6 DEF DestroyCoreWithout
  <2>3. \A d \in Cores : core'[d].pc = "detached" => core'[d].module
    BY <1>0, <1>a, <1>6 DEF DestroyCoreWithout, TypeOK
  <2> QED BY <1>0, <2>1, <2>2, <2>3 DEF RefsCover
<1> QED
  BY <1>1, <1>2, <1>4, <1>5, <1>6, <1>7 DEF Next, vars, InstallHook, RemoveHook, DetachProcessHooks

\* The properties of the table, together.
Memory == TableMatchesMemory /\ GenuineRestored /\ ReadyWhileHooked

\* A step that leaves the table and the memory alone.
LEMMA MemoryUnchanged ==
  ASSUME Memory, UNCHANGED table, ready' = ready \/ ready' = TRUE
  PROVE  Memory'
<1>1. hooks' = hooks /\ slot' = slot /\ stranded' = stranded
  BY DEF table
<1>2. ASSUME NEW t PROVE Hooked(t)' = Hooked(t)
  BY <1>1 DEF Hooked
<1>3. TableMatchesMemory'
  BY <1>1 DEF Memory, TableMatchesMemory
<1>4. GenuineRestored'
  BY <1>1, <1>2 DEF Memory, GenuineRestored
<1>5. ReadyWhileHooked'
  BY <1>1 DEF Memory, ReadyWhileHooked
<1> QED BY <1>3, <1>4, <1>5 DEF Memory

\* A new hook goes to a target that had none, and records what it found there.
LEMMA InstallKeepsMemory ==
  ASSUME TypeOK, Memory, NEW t \in Targets, NEW r \in Functions, InstallHook(t, r)
  PROVE  Memory'
<1> DEFINE n == Len(hooks)
           rec == [target |-> t, original |-> slot[t], replacement |-> r]
<1>0. rec \in Records /\ n \in Nat /\ slot \in [Targets -> Functions]
  BY DEF TypeOK, Records
<1>1. /\ hooks' \in Seq(Records) /\ Len(hooks') = n + 1
      /\ \A j \in 1 .. n : hooks'[j] = hooks[j]
      /\ hooks'[n + 1] = rec
  BY <1>0, WithRecordType DEF InstallHook
<1>2. \A j \in 1 .. n : hooks[j].target # t /\ hooks[j].target \in Targets
  BY RecordType DEF InstallHook, Hooked
<1>3. slot' = [slot EXCEPT ![t] = r] /\ stranded' = stranded
  BY DEF InstallHook
<1>4. rec.target = t /\ rec.original = slot[t] /\ rec.replacement = r
  OBVIOUS
<1> HIDE DEF n, rec
<1>5. \A j \in 1 .. n + 1 : j \in 1 .. n \/ j = n + 1
  BY <1>0
<1>6. TableMatchesMemory'
  <2>1. \A i, j \in 1 .. n + 1 : hooks'[i].target = hooks'[j].target => i = j
    BY <1>1, <1>2, <1>4, <1>5 DEF Memory, TableMatchesMemory, n
  <2>2. ASSUME NEW i \in 1 .. n + 1 PROVE slot'[hooks'[i].target] = hooks'[i].replacement
    <3>1. CASE i = n + 1
      BY <1>0, <1>1, <1>3, <1>4, <3>1
    <3>2. CASE i \in 1 .. n
      <4>1. slot[hooks[i].target] = hooks[i].replacement
        BY <3>2 DEF Memory, TableMatchesMemory, n
      <4>2. slot'[hooks[i].target] = slot[hooks[i].target]
        BY <1>0, <1>2, <1>3, <3>2
      <4> QED BY <1>1, <3>2, <4>1, <4>2
    <3> QED BY <1>5, <3>1, <3>2
  <2> QED BY <1>1, <2>1, <2>2 DEF TableMatchesMemory
<1>7. GenuineRestored'
  <2>1. ASSUME NEW u \in Targets, ~Hooked(u)', u \notin stranded' PROVE slot'[u] = Genuine[u]
    <3>1. \A j \in 1 .. n + 1 : hooks'[j].target # u
      BY <1>1, <2>1 DEF Hooked
    <3>2. u # t /\ ~Hooked(u)
      BY <1>0, <1>1, <1>4, <3>1 DEF Hooked, n
    <3> QED BY <1>0, <1>3, <2>1, <3>2 DEF Memory, GenuineRestored
  <2>2. ASSUME NEW i \in 1 .. n + 1, hooks'[i].target \notin stranded'
        PROVE  hooks'[i].original = Genuine[hooks'[i].target]
    <3>1. CASE i = n + 1
      BY <1>1, <1>3, <1>4, <2>2, <3>1 DEF Memory, GenuineRestored, InstallHook
    <3>2. CASE i \in 1 .. n
      BY <1>1, <1>3, <2>2, <3>2 DEF Memory, GenuineRestored, n
    <3> QED BY <1>5, <3>1, <3>2
  <2> QED BY <1>1, <2>1, <2>2 DEF GenuineRestored
<1>8. ReadyWhileHooked'
  BY DEF ReadyWhileHooked, InstallHook
<1> QED BY <1>6, <1>7, <1>8 DEF Memory

\* Removing a hook restores its target; the records that move keep their targets.
LEMMA RemoveKeepsMemory ==
  ASSUME TypeOK, Memory, NEW i \in 1 .. Places, RemoveHook(i)
  PROVE  Memory'
<1> DEFINE n == Len(hooks)
           old(j) == IF j < i THEN j ELSE j + 1
           u == hooks[i].target
<1>0. i \in 1 .. n /\ n \in Nat /\ slot \in [Targets -> Functions]
  BY PlacesAssumption DEF RemoveHook, TypeOK
<1>1. /\ Len(hooks') = n - 1
      /\ \A j \in 1 .. n - 1 : hooks'[j] = hooks[old(j)]
  <2>1. hooks' = Without(i)
    BY DEF RemoveHook
  <2>2. \A j \in 1 .. n - 1 : Without(i)[j] = IF j < i THEN hooks[j] ELSE hooks[j + 1]
    BY <1>0, WithoutType
  <2> QED BY <1>0, <2>1, <2>2, WithoutType
<1>2. \A j \in 1 .. n - 1 : old(j) \in 1 .. n /\ old(j) # i
  BY <1>0
<1>3. \A j, k \in 1 .. n - 1 : old(j) = old(k) => j = k
  BY <1>0
<1>4. \A k \in 1 .. n : k # i => \E j \in 1 .. n - 1 : k = old(j)
  <2> SUFFICES ASSUME NEW k \in 1 .. n, k # i PROVE \E j \in 1 .. n - 1 : k = old(j)
    OBVIOUS
  <2>1. CASE k < i
    <3>1. k \in 1 .. n - 1 /\ k = old(k)
      BY <1>0, <2>1
    <3> QED BY <3>1
  <2>2. CASE k > i
    <3>1. k - 1 \in 1 .. n - 1 /\ k = old(k - 1)
      BY <1>0, <2>2
    <3> QED BY <3>1
  <2> QED BY <1>0, <2>1, <2>2
<1>5. slot' = [slot EXCEPT ![u] = hooks[i].original] /\ stranded' = stranded
  BY DEF RemoveHook
<1>6. u \in Targets /\ \A k \in 1 .. n : hooks[k].target \in Targets
  BY <1>0, RecordType
<1>7. \A k \in 1 .. n : k # i => hooks[k].target # u
  BY <1>0 DEF Memory, TableMatchesMemory
<1> HIDE DEF n, old
<1>8. TableMatchesMemory'
  <2>1. \A j, k \in 1 .. n - 1 : hooks'[j].target = hooks'[k].target => j = k
    BY <1>1, <1>2, <1>3 DEF Memory, TableMatchesMemory, n
  <2>2. ASSUME NEW j \in 1 .. n - 1 PROVE slot'[hooks'[j].target] = hooks'[j].replacement
    <3>1. slot[hooks[old(j)].target] = hooks[old(j)].replacement
      BY <1>2 DEF Memory, TableMatchesMemory, n
    <3>2. slot'[hooks[old(j)].target] = slot[hooks[old(j)].target]
      BY <1>0, <1>2, <1>5, <1>6, <1>7
    <3> QED BY <1>1, <3>1, <3>2
  <2> QED BY <1>1, <2>1, <2>2 DEF TableMatchesMemory
<1>9. GenuineRestored'
  <2>1. ASSUME NEW w \in Targets, ~Hooked(w)', w \notin stranded' PROVE slot'[w] = Genuine[w]
    <3>1. \A j \in 1 .. n - 1 : hooks'[j].target # w
      BY <1>1, <2>1 DEF Hooked
    <3>2. CASE w = u
      BY <1>0, <1>5, <2>1, <3>2 DEF Memory, GenuineRestored, n
    <3>3. CASE w # u
      <4>1. \A k \in 1 .. n : hooks[k].target # w
        BY <1>1, <1>4, <3>1, <3>3
      <4>2. ~Hooked(w)
        BY <4>1 DEF Hooked, n
      <4> QED BY <1>0, <1>5, <2>1, <3>3, <4>2 DEF Memory, GenuineRestored
    <3> QED BY <3>2, <3>3
  <2>2. ASSUME NEW j \in 1 .. n - 1, hooks'[j].target \notin stranded'
        PROVE  hooks'[j].original = Genuine[hooks'[j].target]
    BY <1>1, <1>2, <1>5, <2>2 DEF Memory, GenuineRestored, n
  <2> QED BY <1>1, <2>1, <2>2 DEF GenuineRestored
<1>10. ReadyWhileHooked'
  <2>1. CASE n > 1
    BY <2>1 DEF ReadyWhileHooked, RemoveHook, n
  <2>2. CASE ~(n > 1)
    <3>1. Len(hooks') = 0 /\ hooks' \in Seq(Records)
      <4>1. hooks' \in Seq(Records)
        BY <1>0, WithoutType DEF RemoveHook, n
      <4> QED BY <1>0, <1>1, <2>2, <4>1
    <3>2. hooks' = << >>
      BY <3>1
    <3> QED BY <3>2 DEF ReadyWhileHooked
  <2> QED BY <2>1, <2>2
<1> QED BY <1>8, <1>9, <1>10 DEF Memory

\* A shutdown restores what it can write to and remembers the rest as stranded.
LEMMA ShutdownKeepsMemory ==
  ASSUME TypeOK, Memory, Shutdown
  PROVE  Memory'
<1>1. PICK failed \in SUBSET {t \in Targets : Hooked(t)} :
        slot' = Restored(failed) /\ stranded' = stranded \cup failed
  BY DEF Shutdown
<1>2. hooks' = << >> /\ Len(hooks') = 0
  BY DEF Shutdown
<1>3. ASSUME NEW t \in Targets, t \notin stranded' PROVE slot'[t] = Genuine[t]
  <2>1. t \notin stranded /\ t \notin failed
    BY <1>1, <1>3
  <2>2. CASE Hooked(t)
    <3> DEFINE k == CHOOSE i \in 1 .. Len(hooks) : hooks[i].target = t
    <3>1. k \in 1 .. Len(hooks) /\ hooks[k].target = t
      BY <2>2, HookedAt
    <3>2. slot'[t] = hooks[k].original
      BY <1>1, <2>1, <2>2 DEF Restored
    <3> QED BY <2>1, <3>1, <3>2 DEF Memory, GenuineRestored
  <2>3. CASE ~Hooked(t)
    <3>1. slot'[t] = slot[t]
      BY <1>1, <2>3 DEF Restored
    <3> QED BY <2>1, <2>3, <3>1 DEF Memory, GenuineRestored
  <2> QED BY <2>2, <2>3
<1> QED BY <1>2, <1>3 DEF Memory, TableMatchesMemory, GenuineRestored, ReadyWhileHooked

\* Freeing the library leaves the table alone or takes it away, hooks and all.
LEMMA FreeKeepsMemory ==
  ASSUME TypeOK, Memory, NEW c \in Cores, FreeHelper(c)
  PROVE  Memory'
<1>1. CASE UNCHANGED <<hooks, ready, stranded>>
  <2>1. UNCHANGED table /\ ready' = ready
    BY <1>1 DEF FreeHelper, table
  <2> QED BY <2>1, MemoryUnchanged
<1>2. CASE Unload
  <2>1. hooks' = << >> /\ Len(hooks') = 0 /\ slot' = slot
    BY <1>2 DEF Unload, FreeHelper
  <2>2. ASSUME NEW t \in Targets, t \notin stranded' PROVE slot'[t] = Genuine[t]
    <3>1. t \notin stranded /\ ~Hooked(t)
      BY <1>2, <2>2 DEF Unload
    <3> QED BY <2>1, <3>1 DEF Memory, GenuineRestored
  <2> QED BY <2>1, <2>2 DEF Memory, TableMatchesMemory, GenuineRestored, ReadyWhileHooked
<1> QED BY <1>1, <1>2 DEF FreeHelper

\* Every step keeps the invariant.
LEMMA Inductive == HookInv /\ [Next]_vars => HookInv'
<1> SUFFICES ASSUME HookInv, [Next]_vars PROVE HookInv'
  OBVIOUS
<1>1. TypeOK /\ Memory
  BY DEF HookInv, Memory
<1>2. Memory'
  <2>1. ASSUME NEW t \in Targets, NEW r \in Functions, InstallHook(t, r) PROVE Memory'
    BY <1>1, <2>1, InstallKeepsMemory
  <2>2. ASSUME NEW i \in 1 .. Places, RemoveHook(i) PROVE Memory'
    BY <1>1, <2>2, RemoveKeepsMemory
  <2>3. CASE DetachProcessHooks
    BY <1>1, <2>3, ShutdownKeepsMemory DEF DetachProcessHooks
  <2>4. ASSUME NEW c \in Cores, AttachHelper(c) PROVE Memory'
    BY <1>1, <2>4, MemoryUnchanged DEF AttachHelper
  <2>5. ASSUME NEW c \in Cores, AttachFails(c) PROVE Memory'
    BY <1>1, <2>5, MemoryUnchanged DEF AttachFails
  <2>6. ASSUME NEW c \in Cores, DetachCore(c) PROVE Memory'
    BY <1>1, <2>6, ShutdownKeepsMemory DEF DetachCore
  <2>9. ASSUME NEW c \in Cores, FreeHelper(c) PROVE Memory'
    BY <1>1, <2>9, FreeKeepsMemory
  <2>7. ASSUME NEW c \in Cores, DestroyCoreWithout(c) PROVE Memory'
    BY <1>1, <2>7, MemoryUnchanged DEF DestroyCoreWithout
  <2>8. CASE UNCHANGED vars
    BY <1>1, <2>8, MemoryUnchanged DEF vars, table
  <2> QED BY <2>1, <2>2, <2>3, <2>4, <2>5, <2>6, <2>7, <2>8, <2>9 DEF Next
<1> QED BY <1>2, TypeInductive, RefsInductive DEF HookInv, Memory

(* The inductive invariant of the helper's table, for every set of targets, functions and cores. *)
THEOREM HelperCorrect == Spec => []HookInv
BY Initially, Inductive, PTL DEF Spec

(* No variable leaves its type: in particular the reference count never falls below zero. *)
THEOREM HelperTypeCorrect == Spec => []TypeOK
<1>1. HookInv => TypeOK
  BY DEF HookInv
<1> QED BY <1>1, HelperCorrect, PTL

(* install_hook and remove_hook keep the table in step with the memory it describes. *)
THEOREM TableFaithful == Spec => []TableMatchesMemory
<1>1. HookInv => TableMatchesMemory
  BY DEF HookInv
<1> QED BY <1>1, HelperCorrect, PTL

(* remove_hook and shutdown give every target they can write to its genuine function back. *)
THEOREM RestoresGenuine == Spec => []GenuineRestored
<1>1. HookInv => GenuineRestored
  BY DEF HookInv
<1> QED BY <1>1, HelperCorrect, PTL

(* A core that has the helper's module still has it loaded: ~SynapseCore frees one reference of its own. *)
THEOREM StaysLoaded == Spec => []LoadedWhileNeeded
<1>1. HookInv => LoadedWhileNeeded
  BY HolderHasRef DEF LoadedWhileNeeded
<1> QED BY <1>1, HelperCorrect, PTL

=============================================================================

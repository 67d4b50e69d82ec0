----------------------- MODULE TextureStreamingProofs -----------------------
(***************************************************************************)
(* Proofs about TextureStreaming: that its state is well formed, that the  *)
(* registry follows the images, that nothing is loaded before a first      *)
(* mark_dma_complete, and that queries and faults add up.                  *)
(***************************************************************************)
EXTENDS TextureStreaming, FiniteSetTheorems, TLAPS

---------------------------------------------------------------------------
\* Type correctness

LEMMA IdleType == Idle \in Locals
<1>1. (CHOOSE h \in Handles : TRUE) \in Handles
  BY SetsAssumption
<1> QED
  BY <1>1, NumbersAssumption DEF Idle, Locals, Places

LEMMA InitType == Init => TypeOK
<1> SUFFICES ASSUME Init PROVE TypeOK
  OBVIOUS
<1>1. thr \in [Threads -> Locals] /\ \A t \in Threads : thr[t].pc = "idle"
  BY IdleType DEF Init, Idle
<1>2. resident \in [Handles -> [Mips -> BOOLEAN]]
  BY DEF Init, Absent
<1> QED
  BY <1>1, <1>2 DEF Init, TypeOK, Counters

\* What a step does to the thread that takes it.
LEMMA ThreadType ==
  ASSUME TypeOK, NEW t \in Threads, NEW s \in Locals, thr' = [thr EXCEPT ![t] = s],
         s.pc \in {"load", "evict"} => s.mip \in Mips
  PROVE  /\ thr' \in [Threads -> Locals]
         /\ \A u \in Threads : thr'[u].pc \in {"load", "evict"} => thr'[u].mip \in Mips
BY DEF TypeOK

LEMMA ReturnType ==
  ASSUME TypeOK, NEW t \in Threads, Return(t)
  PROVE  /\ thr' \in [Threads -> Locals]
         /\ \A u \in Threads : thr'[u].pc \in {"load", "evict"} => thr'[u].mip \in Mips
<1>1. Idle.pc = "idle"
  BY DEF Idle
<1> QED
  BY <1>1, IdleType, ThreadType DEF Return

LEMMA GotoType ==
  ASSUME TypeOK, NEW t \in Threads, NEW pc \in Places, Goto(t, pc),
         pc \in {"load", "evict"} => thr[t].mip \in Mips
  PROVE  /\ thr' \in [Threads -> Locals]
         /\ \A u \in Threads : thr'[u].pc \in {"load", "evict"} => thr'[u].mip \in Mips
BY DEF Goto, TypeOK, Locals

\* A thread that begins a call.
LEMMA BeginType ==
  ASSUME TypeOK, NEW t \in Threads, NEW pc \in Places \ {"load", "evict"}, NEW h \in Handles,
         thr' = [thr EXCEPT ![t] = [Idle EXCEPT !.pc = pc, !.handle = h]]
  PROVE  /\ thr' \in [Threads -> Locals]
         /\ \A u \in Threads : thr'[u].pc \in {"load", "evict"} => thr'[u].mip \in Mips
<1>1. [Idle EXCEPT !.pc = pc, !.handle = h] \in Locals /\ [Idle EXCEPT !.pc = pc, !.handle = h].pc = pc
  BY IdleType DEF Locals
<1> QED
  BY <1>1, ThreadType

\* What a query does to the threads.
LEMMA QueryThread ==
  ASSUME TypeOK, NEW t \in Threads, NEW h \in Handles, Query(t, h)
  PROVE  /\ thr'[t].pc \in {"look", "fault"} /\ thr'[t].hits = 0
         /\ \A u \in Threads \ {t} : thr'[u] = thr[u]
<1>1. \A pc \in {"look", "fault"} :
        /\ [Idle EXCEPT !.pc = pc, !.handle = h].pc = pc /\ [Idle EXCEPT !.pc = pc, !.handle = h].hits = 0
        /\ [Idle EXCEPT !.pc = pc].pc = pc /\ [Idle EXCEPT !.pc = pc].hits = 0
  BY DEF Idle
<1>2. CASE textures[h] # 0
  BY <1>1, <1>2 DEF Query, TypeOK
<1>3. CASE textures[h] = 0
  BY <1>1, <1>3 DEF Query, TypeOK
<1> QED
  BY <1>2, <1>3

\* Every step keeps the state well formed.
LEMMA NextType == TypeOK /\ [Next]_vars => TypeOK'
<1> SUFFICES ASSUME TypeOK, [Next]_vars PROVE TypeOK'
  OBVIOUS
<1> USE NumbersAssumption
<1>0. \A t \in Threads : /\ thr[t].handle \in Handles /\ thr[t].mip \in 0 .. MipCount
                         /\ thr[t].hits \in Nat /\ thr[t].misses \in Nat
  BY DEF TypeOK, Locals
<1>1. ASSUME NEW t \in Threads, NEW h \in Handles, CreateImage(t, h) PROVE TypeOK'
  <2>1. /\ thr' \in [Threads -> Locals]
        /\ \A u \in Threads : thr'[u].pc \in {"load", "evict"} => thr'[u].mip \in Mips
    BY <1>1, BeginType DEF CreateImage, Places
  <2> QED
    BY <1>1, <2>1 DEF CreateImage, TypeOK
<1>2. ASSUME NEW t \in Threads, NEW h \in Handles, UnregisterTexture(t, h) PROVE TypeOK'
  <2>1. /\ thr' \in [Threads -> Locals]
        /\ \A u \in Threads : thr'[u].pc \in {"load", "evict"} => thr'[u].mip \in Mips
    BY <1>2, BeginType DEF UnregisterTexture, Places
  <2> QED
    BY <1>2, <2>1 DEF UnregisterTexture, TypeOK, Absent
<1>3. ASSUME NEW t \in Threads, NEW h \in Handles, ReadCounters(t, h) PROVE TypeOK'
  <2>1. [pc |-> "storeHits", handle |-> h, mip |-> 0, hits |-> counts.hits, misses |-> counts.misses] \in Locals
    BY DEF Locals, Places, TypeOK
  <2>2. /\ thr' \in [Threads -> Locals]
        /\ \A u \in Threads : thr'[u].pc \in {"load", "evict"} => thr'[u].mip \in Mips
    BY <1>3, <2>1, ThreadType DEF ReadCounters
  <2> QED
    BY <1>3, <2>2 DEF ReadCounters, TypeOK, registry
<1>4. ASSUME NEW t \in Threads, NEW h \in Handles, Query(t, h) PROVE TypeOK'
  <2>1. CASE textures[h] # 0
    <3>1. /\ thr' \in [Threads -> Locals]
          /\ \A u \in Threads : thr'[u].pc \in {"load", "evict"} => thr'[u].mip \in Mips
      BY <1>4, <2>1, BeginType DEF Query, Places
    <3> QED
      BY <1>4, <2>1, <3>1 DEF Query, TypeOK, registry
  <2>2. CASE textures[h] = 0
    <3>1. [Idle EXCEPT !.pc = "fault"] \in Locals /\ [Idle EXCEPT !.pc = "fault"].pc = "fault"
      BY IdleType DEF Locals, Places
    <3>2. /\ thr' \in [Threads -> Locals]
          /\ \A u \in Threads : thr'[u].pc \in {"load", "evict"} => thr'[u].mip \in Mips
      BY <1>4, <2>2, <3>1, ThreadType DEF Query
    <3> QED
      BY <1>4, <2>2, <3>2 DEF Query, TypeOK, registry
  <2> QED
    BY <2>1, <2>2
<1>5. ASSUME NEW t \in Threads, RegisterTexture(t) PROVE TypeOK'
  BY <1>0, <1>5, ReturnType DEF RegisterTexture, TypeOK, Absent
<1>6. ASSUME NEW t \in Threads, DestroyImage(t) PROVE TypeOK'
  BY <1>6, ReturnType DEF DestroyImage, TypeOK
<1>7. ASSUME NEW t \in Threads, StoreHits(t) PROVE TypeOK'
  BY <1>0, <1>7, GotoType DEF StoreHits, Places, TypeOK, Counters, registry
<1>8. ASSUME NEW t \in Threads, StoreMisses(t) PROVE TypeOK'
  BY <1>0, <1>8, GotoType DEF StoreMisses, Places, TypeOK, Counters, registry
<1>9. ASSUME NEW t \in Threads, Find(t) PROVE TypeOK'
  BY <1>9, GotoType, ReturnType DEF Find, Places, TypeOK, registry
<1>10. ASSUME NEW t \in Threads, LoadHits(t) PROVE TypeOK'
  <2>1. [thr[t] EXCEPT !.pc = "loadMisses", !.hits = analyzer.hits] \in Locals
    BY DEF TypeOK, Counters, Locals, Places
  <2>2. [thr[t] EXCEPT !.pc = "loadMisses", !.hits = analyzer.hits].pc = "loadMisses"
    BY DEF TypeOK, Locals
  <2>3. thr' = [thr EXCEPT ![t] = [thr[t] EXCEPT !.pc = "loadMisses", !.hits = analyzer.hits]]
    BY <1>10 DEF LoadHits
  <2>4. /\ thr' \in [Threads -> Locals]
        /\ \A u \in Threads : thr'[u].pc \in {"load", "evict"} => thr'[u].mip \in Mips
    BY <2>1, <2>2, <2>3, ThreadType
  <2> QED
    BY <1>10, <2>4 DEF LoadHits, TypeOK, registry
<1>11. ASSUME NEW t \in Threads, LoadMisses(t) PROVE TypeOK'
  <2>1. [thr[t] EXCEPT !.pc = "mip", !.misses = analyzer.misses] \in Locals
    BY DEF TypeOK, Counters, Locals, Places
  <2>2. [thr[t] EXCEPT !.pc = "mip", !.misses = analyzer.misses].pc = "mip"
    BY DEF TypeOK, Locals
  <2>3. thr' = [thr EXCEPT ![t] = [thr[t] EXCEPT !.pc = "mip", !.misses = analyzer.misses]]
    BY <1>11 DEF LoadMisses
  <2>4. /\ thr' \in [Threads -> Locals]
        /\ \A u \in Threads : thr'[u].pc \in {"load", "evict"} => thr'[u].mip \in Mips
    BY <2>1, <2>2, <2>3, ThreadType
  <2> QED
    BY <1>11, <2>4 DEF LoadMisses, TypeOK, registry
<1>12. ASSUME NEW t \in Threads, Decide(t) PROVE TypeOK'
  <2>1. CASE Return(t)
    BY <1>12, <2>1, ReturnType DEF Decide, TypeOK, registry
  <2>2. CASE thr[t].mip < MipCount /\ (Goto(t, "load") \/ Goto(t, "evict"))
    <3>1. thr[t].mip \in Mips
      BY <1>0, <2>2 DEF Mips
    <3> QED
      BY <1>12, <2>2, <3>1, GotoType DEF Decide, Places, TypeOK, registry
  <2>3. CASE thr[t].mip < MipCount /\ thr' = [thr EXCEPT ![t].mip = thr[t].mip + 1]
    <3>1. thr[t].mip + 1 \in 0 .. MipCount /\ thr[t].pc = "mip"
      BY <1>0, <1>12, <2>3 DEF Decide
    <3>2. /\ thr' \in [Threads -> Locals]
          /\ \A u \in Threads : thr'[u].pc \in {"load", "evict"} => thr'[u].mip \in Mips
      BY <2>3, <3>1 DEF TypeOK, Locals
    <3> QED
      BY <1>12, <3>2 DEF Decide, TypeOK, registry
  <2> QED
    BY <1>12, <2>1, <2>2, <2>3 DEF Decide
<1>13. ASSUME NEW t \in Threads, SetResidency(t) PROVE TypeOK'
  <2>0. thr[t].mip \in Mips
    BY <1>13 DEF SetResidency, TypeOK
  <2>1. thr[t].mip \in Mips /\ thr[t].mip + 1 \in 0 .. MipCount
    BY <2>0 DEF Mips
  <2>2. /\ thr' \in [Threads -> Locals]
        /\ \A u \in Threads : thr'[u].pc \in {"load", "evict"} => thr'[u].mip \in Mips
    BY <1>13, <2>1 DEF SetResidency, TypeOK, Locals, Places
  <2>3. resident' \in [Handles -> [Mips -> BOOLEAN]]
    BY <1>0, <1>13, <2>1 DEF SetResidency, TypeOK
  <2> QED
    BY <1>13, <2>2, <2>3 DEF SetResidency, TypeOK, registry
<1>14. ASSUME NEW t \in Threads, Look(t) PROVE TypeOK'
  <2>1. CASE Return(t) /\ counts' = [counts EXCEPT !.hits = counts.hits + 1]
    BY <1>14, <2>1, ReturnType DEF Look, TypeOK, registry
  <2>2. CASE thr[t].mip < MipCount /\ thr' = [thr EXCEPT ![t].mip = thr[t].mip + 1] /\ UNCHANGED counts
    <3>1. thr[t].mip + 1 \in 0 .. MipCount /\ thr[t].pc = "look"
      BY <1>0, <1>14, <2>2 DEF Look
    <3>2. /\ thr' \in [Threads -> Locals]
          /\ \A u \in Threads : thr'[u].pc \in {"load", "evict"} => thr'[u].mip \in Mips
      BY <2>2, <3>1 DEF TypeOK, Locals
    <3> QED
      BY <1>14, <2>2, <3>2 DEF Look, TypeOK, registry
  <2>3. CASE Goto(t, "fault") /\ counts' = [counts EXCEPT !.misses = counts.misses + 1]
    BY <1>14, <2>3, GotoType DEF Look, Places, TypeOK, registry
  <2> QED
    BY <1>14, <2>1, <2>2, <2>3 DEF Look
<1>15. ASSUME NEW t \in Threads, CountFault(t) PROVE TypeOK'
  BY <1>15, ReturnType DEF CountFault, TypeOK, registry
<1>16. CASE ReportFaults
  <2>1. counts.reported + counts.faults \in Nat
    BY DEF TypeOK
  <2>2. counts' \in [hits : Nat, misses : Nat, faults : Nat, reported : Nat]
    BY <1>16, <2>1 DEF ReportFaults, TypeOK
  <2> QED
    BY <1>16, <2>2 DEF ReportFaults, TypeOK, registry
<1>17. ASSUME NEW h \in Handles, NEW m \in Mips, MarkDmaComplete(h, m) PROVE TypeOK'
  BY <1>17 DEF MarkDmaComplete, TypeOK, registry
<1>18. CASE UNCHANGED vars
  BY <1>18 DEF vars, registry, TypeOK
<1> QED
  BY <1>1, <1>2, <1>3, <1>4, <1>5, <1>6, <1>7, <1>8, <1>9, <1>10, <1>11, <1>12, <1>13, <1>14, <1>15, <1>16,
     <1>17, <1>18 DEF Next

(***************************************************************************)
(* The registry, the counters and every thread's locals keep their types,  *)
(* and a mip that is loaded or evicted exists: its_engine_hardened.h never *)
(* indexes past the mips of a texture.                                     *)
(***************************************************************************)
THEOREM StreamingTypeCorrect == Spec => []TypeOK
<1>1. Init => TypeOK
  BY InitType
<1>2. TypeOK /\ [Next]_vars => TypeOK'
  BY NextType
<1> QED
  BY <1>1, <1>2, PTL DEF Spec

---------------------------------------------------------------------------
\* The registry

RegistryInv == RegistryExact /\ Owned

\* A step outside vkCreateImage and vkDestroyImage: one thread moves, and neither before nor
\* after does it have an image to itself.
Quiet(t) ==
  /\ UNCHANGED registry
  /\ ~Busy(t)'
  /\ \A u \in Threads \ {t} : thr'[u] = thr[u]

LEMMA QuietKeeps ==
  ASSUME RegistryInv, NEW t \in Threads, Quiet(t)
  PROVE  RegistryInv'
BY DEF RegistryInv, RegistryExact, Owned, Busy, Quiet, registry

LEMMA InitRegistry == Init => RegistryInv
BY DEF Init, RegistryInv, RegistryExact, Owned, Busy, Idle

LEMMA NextRegistry == TypeOK /\ RegistryInv /\ [Next]_vars => RegistryInv'
<1> SUFFICES ASSUME TypeOK, RegistryInv, [Next]_vars PROVE RegistryInv'
  OBVIOUS
<1>0. Idle.pc = "idle" /\ \A t \in Threads : thr[t].handle \in Handles
  BY DEF Idle, TypeOK, Locals
<1>00. \A pc \in Places, h \in Handles :
         [Idle EXCEPT !.pc = pc, !.handle = h].pc = pc /\ [Idle EXCEPT !.pc = pc, !.handle = h].handle = h
  BY IdleType DEF Locals
<1>1. ASSUME NEW t \in Threads, NEW h \in Handles, CreateImage(t, h) PROVE RegistryInv'
  <2>1. /\ driver[h] = 0 /\ driver'[h] # 0 /\ \A g \in Handles \ {h} : driver'[g] = driver[g]
        /\ held' = held /\ textures' = textures
    BY <1>1 DEF CreateImage, TypeOK
  <2>2. thr'[t].handle = h /\ thr'[t].pc = "register" /\ \A u \in Threads \ {t} : thr'[u] = thr[u]
    BY <1>00, <1>1 DEF CreateImage, TypeOK, Places
  <2>3. h \notin held /\ \A u \in Threads : Busy(u) => thr[u].handle # h
    BY <2>1 DEF RegistryInv, RegistryExact, Owned
  <2>4. RegistryExact'
    BY <2>1, <2>3 DEF RegistryInv, RegistryExact, TypeOK
  <2>5. Owned'
    BY <1>0, <2>1, <2>2, <2>3 DEF RegistryInv, Owned, Busy
  <2> QED
    BY <2>4, <2>5 DEF RegistryInv
<1>2. ASSUME NEW t \in Threads, RegisterTexture(t) PROVE RegistryInv'
  <2> DEFINE h == thr[t].handle
  <2>1. /\ driver' = driver /\ textures'[h] = driver[h] /\ \A g \in Handles \ {h} : textures'[g] = textures[g]
        /\ held' = held \union {h}
    BY <1>0, <1>2 DEF RegisterTexture, TypeOK
  <2>2. ~Busy(t)' /\ \A u \in Threads \ {t} : thr'[u] = thr[u]
    BY <1>0, <1>2 DEF RegisterTexture, Return, Busy, TypeOK
  <2>3. Busy(t)
    BY <1>2 DEF RegisterTexture, Busy
  <2>4. driver[h] # 0 /\ \A u \in Threads \ {t} : Busy(u) => thr[u].handle # h
    BY <2>3 DEF RegistryInv, Owned
  <2>5. RegistryExact'
    BY <1>0, <2>1, <2>4 DEF RegistryInv, RegistryExact, TypeOK
  <2>6. Owned'
    BY <2>1, <2>2, <2>4 DEF RegistryInv, Owned, Busy
  <2> QED
    BY <2>5, <2>6 DEF RegistryInv
<1>3. ASSUME NEW t \in Threads, NEW h \in Handles, UnregisterTexture(t, h) PROVE RegistryInv'
  <2>1. /\ driver' = driver /\ textures'[h] = 0 /\ \A g \in Handles \ {h} : textures'[g] = textures[g]
        /\ h \in held /\ held' = held \ {h}
    BY <1>3 DEF UnregisterTexture, TypeOK
  <2>2. thr'[t].handle = h /\ thr'[t].pc = "destroy" /\ \A u \in Threads \ {t} : thr'[u] = thr[u]
    BY <1>00, <1>3 DEF UnregisterTexture, TypeOK, Places
  <2>3. driver[h] # 0 /\ \A u \in Threads : Busy(u) => thr[u].handle # h
    BY <2>1 DEF RegistryInv, RegistryExact, Owned
  <2>4. RegistryExact'
    BY <2>1 DEF RegistryInv, RegistryExact, TypeOK
  <2>5. Owned'
    BY <2>1, <2>2, <2>3 DEF RegistryInv, Owned, Busy
  <2> QED
    BY <2>4, <2>5 DEF RegistryInv
<1>4. ASSUME NEW t \in Threads, DestroyImage(t) PROVE RegistryInv'
  <2> DEFINE h == thr[t].handle
  <2>1. /\ driver'[h] = 0 /\ \A g \in Handles \ {h} : driver'[g] = driver[g]
        /\ held' = held /\ textures' = textures
    BY <1>0, <1>4 DEF DestroyImage, TypeOK
  <2>2. ~Busy(t)' /\ \A u \in Threads \ {t} : thr'[u] = thr[u]
    BY <1>0, <1>4 DEF DestroyImage, Return, Busy, TypeOK
  <2>3. Busy(t)
    BY <1>4 DEF DestroyImage, Busy
  <2>4. h \notin held /\ \A u \in Threads \ {t} : Busy(u) => thr[u].handle # h
    BY <2>3 DEF RegistryInv, Owned
  <2>5. RegistryExact'
    BY <2>1, <2>4 DEF RegistryInv, RegistryExact, TypeOK
  <2>6. Owned'
    BY <1>0, <2>1, <2>2, <2>4 DEF RegistryInv, Owned, Busy
  <2> QED
    BY <2>5, <2>6 DEF RegistryInv
<1>5. ASSUME NEW t \in Threads, NEW h \in Handles, ReadCounters(t, h) \/ Query(t, h) PROVE RegistryInv'
  <2>1. CASE ReadCounters(t, h)
    <3>1. thr'[t].pc = "storeHits" /\ \A u \in Threads \ {t} : thr'[u] = thr[u]
      BY <2>1 DEF ReadCounters, TypeOK
    <3> QED
      BY <2>1, <3>1, QuietKeeps DEF ReadCounters, Quiet, Busy
  <2>2. CASE Query(t, h)
    <3>1. thr'[t].pc \in {"look", "fault"} /\ \A u \in Threads \ {t} : thr'[u] = thr[u]
      BY <2>2, QueryThread
    <3> QED
      BY <2>2, <3>1, QuietKeeps DEF Query, Quiet, Busy
  <2> QED
    BY <1>5, <2>1, <2>2
<1>6. ASSUME NEW t \in Threads,
             StoreHits(t) \/ StoreMisses(t) \/ Find(t) \/ LoadHits(t) \/ LoadMisses(t)
      PROVE  RegistryInv'
  <2>1. Quiet(t)
    BY <1>0, <1>6 DEF StoreHits, StoreMisses, Find, LoadHits, LoadMisses, Goto, Return, Quiet, Busy, TypeOK, Locals
  <2> QED
    BY <2>1, QuietKeeps
<1>7. ASSUME NEW t \in Threads, Decide(t) \/ SetResidency(t) PROVE RegistryInv'
  <2>1. Quiet(t)
    BY <1>0, <1>7 DEF Decide, SetResidency, Goto, Return, Quiet, Busy, TypeOK, Locals
  <2> QED
    BY <2>1, QuietKeeps
<1>8. ASSUME NEW t \in Threads, Look(t) \/ CountFault(t) PROVE RegistryInv'
  <2>1. Quiet(t)
    BY <1>0, <1>8 DEF Look, CountFault, Goto, Return, Quiet, Busy, TypeOK, Locals
  <2> QED
    BY <2>1, QuietKeeps
<1>9. ASSUME NEW h \in Handles, NEW m \in Mips, ReportFaults \/ MarkDmaComplete(h, m) PROVE RegistryInv'
  BY <1>9 DEF ReportFaults, MarkDmaComplete, registry, RegistryInv, RegistryExact, Owned, Busy
<1>10. CASE ReportFaults \/ UNCHANGED vars
  BY <1>10 DEF ReportFaults, vars, registry, RegistryInv, RegistryExact, Owned, Busy
<1> QED
  BY <1>1, <1>2, <1>3, <1>4, <1>5, <1>6, <1>7, <1>8, <1>9, <1>10 DEF Next

(***************************************************************************)
(* The registry that vkCreateImage and vkDestroyImage keep follows the     *)
(* images for any number of threads and however the driver reuses handles. *)
(***************************************************************************)
THEOREM RegistryCorrect == Spec => []RegistryExact
<1>1. Init => RegistryInv
  BY InitRegistry
<1>2. TypeOK /\ RegistryInv /\ [Next]_vars => RegistryInv'
  BY NextRegistry
<1>3. RegistryInv => RegistryExact
  BY DEF RegistryInv
<1> QED
  BY <1>1, <1>2, <1>3, StreamingTypeCorrect, PTL DEF Spec

---------------------------------------------------------------------------
\* The cold start

ColdInv == OnlySeededLoads /\ NoHits

\* Without a hit the demand is at most one half.
LEMMA ColdDemand ==
  ASSUME NEW m \in Nat
  PROVE  ~DemandAbove(0, m, LoadPct)
<1>1. LoadPct * (0 + m + 2) = LoadPct * m + LoadPct * 2 /\ LoadPct * m \in Nat
  BY NumbersAssumption
<1> QED
  BY <1>1, NumbersAssumption, ThresholdAssumption DEF DemandAbove

LEMMA InitCold == Init => ColdInv
BY DEF Init, ColdInv, OnlySeededLoads, NoHits, Absent, Idle

LEMMA NextCold == TypeOK /\ ColdInv /\ [Next]_vars => ColdInv'
<1> SUFFICES ASSUME TypeOK, ColdInv, [Next]_vars PROVE ColdInv'
  OBVIOUS
<1>1. ASSUME NEW h \in Handles, NEW m \in Mips, MarkDmaComplete(h, m) PROVE ColdInv'
  BY <1>1 DEF MarkDmaComplete, ColdInv, OnlySeededLoads, NoHits
<1>2. CASE seeded /\ seeded' = seeded
  BY <1>2 DEF ColdInv, OnlySeededLoads, NoHits
<1>3. CASE ~seeded /\ seeded' = seeded
  <2>0. /\ \A h \in Handles, m \in Mips : ~resident[h][m]
        /\ counts.hits = 0 /\ analyzer.hits = 0
        /\ \A t \in Threads : thr[t].hits = 0 /\ thr[t].pc # "load"
    BY <1>3 DEF ColdInv, OnlySeededLoads, NoHits
  <2>1. Idle.hits = 0 /\ Idle.pc = "idle"
    BY DEF Idle
  <2>2. \A t \in Threads : /\ thr[t].handle \in Handles /\ thr[t].misses \in Nat /\ thr[t].mip \in 0 .. MipCount
                          /\ (thr[t].pc \in {"load", "evict"} => thr[t].mip \in Mips)
    BY DEF TypeOK, Locals
  <2>3. \A pc \in Places, h \in Handles :
          [Idle EXCEPT !.pc = pc, !.handle = h].pc = pc /\ [Idle EXCEPT !.pc = pc, !.handle = h].hits = 0
    BY <2>1, IdleType DEF Locals
  <2> DEFINE Cold == /\ \A h \in Handles, m \in Mips : ~resident'[h][m]
                     /\ counts'.hits = 0 /\ analyzer'.hits = 0
                     /\ \A t \in Threads : thr'[t].hits = 0 /\ thr'[t].pc # "load"
  <2> SUFFICES Cold
    BY DEF ColdInv, OnlySeededLoads, NoHits
  <2>4. ASSUME NEW t \in Threads, NEW h \in Handles,
               CreateImage(t, h) \/ UnregisterTexture(t, h) \/ ReadCounters(t, h)
        PROVE  Cold
    <3>1. CASE CreateImage(t, h)
      BY <2>0, <2>3, <3>1 DEF CreateImage, TypeOK, Places
    <3>2. CASE UnregisterTexture(t, h)
      <4>1. \A g \in Handles, m \in Mips : ~resident'[g][m]
        BY <2>0, <3>2 DEF UnregisterTexture, Absent, TypeOK
      <4>2. \A u \in Threads : thr'[u].hits = 0 /\ thr'[u].pc # "load"
        BY <2>0, <2>3, <3>2 DEF UnregisterTexture, TypeOK, Places
      <4> QED
        BY <2>0, <3>2, <4>1, <4>2 DEF UnregisterTexture
    <3>3. CASE ReadCounters(t, h)
      BY <2>0, <3>3 DEF ReadCounters, TypeOK
    <3> QED
      BY <2>4, <3>1, <3>2, <3>3
  <2>5. ASSUME NEW t \in Threads, NEW h \in Handles, Query(t, h) PROVE Cold
    <3>2. \A u \in Threads : thr'[u].hits = 0 /\ thr'[u].pc # "load"
      BY <2>0, <2>5, QueryThread
    <3>3. counts'.hits = 0
      BY <2>0, <2>5 DEF Query, TypeOK
    <3> QED
      BY <2>0, <2>5, <3>2, <3>3 DEF Query
  <2>6. ASSUME NEW t \in Threads, RegisterTexture(t) \/ DestroyImage(t) PROVE Cold
    BY <2>0, <2>1, <2>2, <2>6 DEF RegisterTexture, DestroyImage, Return, Absent, TypeOK
  <2>7. ASSUME NEW t \in Threads, StoreHits(t) \/ StoreMisses(t) \/ Find(t) PROVE Cold
    <3>1. CASE StoreHits(t)
      BY <2>0, <3>1 DEF StoreHits, Goto, TypeOK, Counters, Locals
    <3>2. CASE StoreMisses(t)
      BY <2>0, <3>2 DEF StoreMisses, Goto, TypeOK, Counters, Locals
    <3>3. CASE Find(t)
      BY <2>0, <2>1, <3>3 DEF Find, Goto, Return, TypeOK, Locals
    <3> QED
      BY <2>7, <3>1, <3>2, <3>3
  <2>8. ASSUME NEW t \in Threads, LoadHits(t) \/ LoadMisses(t) PROVE Cold
    <3>1. CASE LoadHits(t)
      <4>1. /\ thr'[t].hits = analyzer.hits /\ thr'[t].pc = "loadMisses"
            /\ \A u \in Threads \ {t} : thr'[u] = thr[u]
        BY <3>1 DEF LoadHits, TypeOK, Locals
      <4> QED
        BY <2>0, <3>1, <4>1 DEF LoadHits
    <3>2. CASE LoadMisses(t)
      <4>1. /\ thr'[t].hits = thr[t].hits /\ thr'[t].pc = "mip"
            /\ \A u \in Threads \ {t} : thr'[u] = thr[u]
        BY <3>2 DEF LoadMisses, TypeOK, Locals
      <4> QED
        BY <2>0, <3>2, <4>1 DEF LoadMisses
    <3> QED
      BY <2>8, <3>1, <3>2
  <2>9. ASSUME NEW t \in Threads, Decide(t) PROVE Cold
    <3>1. ~DemandAbove(thr[t].hits, thr[t].misses, LoadPct)
      BY <2>0, <2>2, ColdDemand
    <3>2. Return(t) \/ Goto(t, "evict") \/ thr' = [thr EXCEPT ![t].mip = thr[t].mip + 1]
      BY <2>9, <3>1 DEF Decide
    <3>3. \A u \in Threads : thr'[u].hits = 0 /\ thr'[u].pc # "load"
      <4>0. thr \in [Threads -> Locals]
        BY DEF TypeOK
      <4>1. CASE Return(t)
        BY <2>0, <2>1, <4>0, <4>1 DEF Return
      <4>2. CASE Goto(t, "evict")
        BY <2>0, <4>0, <4>2 DEF Goto, Locals
      <4>3. CASE thr' = [thr EXCEPT ![t].mip = thr[t].mip + 1]
        BY <2>0, <4>0, <4>3 DEF Locals
      <4> QED BY <3>2, <4>1, <4>2, <4>3
    <3>4. counts' = counts /\ analyzer' = analyzer /\ resident' = resident
      BY <2>9 DEF Decide
    <3> QED
      BY <2>0, <3>3, <3>4
  <2>10. ASSUME NEW t \in Threads, SetResidency(t) PROVE Cold
    <3>1. thr[t].pc = "evict"
      BY <2>0, <2>10 DEF SetResidency
    <3>2. resident' = [resident EXCEPT ![thr[t].handle][thr[t].mip] = FALSE]
      BY <2>10, <3>1 DEF SetResidency
    <3>3. \A h \in Handles, m \in Mips : ~resident'[h][m]
      BY <2>0, <2>2, <3>1, <3>2 DEF TypeOK
    <3>4. \A u \in Threads : thr'[u].hits = 0 /\ thr'[u].pc # "load"
      BY <2>0, <2>10 DEF SetResidency, TypeOK, Locals
    <3> QED
      BY <2>0, <2>10, <3>3, <3>4 DEF SetResidency
  <2>11. ASSUME NEW t \in Threads, Look(t) \/ CountFault(t) PROVE Cold
    <3>1. CASE CountFault(t)
      BY <2>0, <2>1, <3>1 DEF CountFault, Return, TypeOK
    <3>2. CASE Look(t)
      <4>1. thr[t].mip < MipCount => ~resident[thr[t].handle][thr[t].mip]
        BY <2>0, <2>2, NumbersAssumption DEF Mips
      <4>2. \/ counts' = counts /\ thr' = [thr EXCEPT ![t].mip = thr[t].mip + 1]
            \/ counts' = [counts EXCEPT !.misses = counts.misses + 1] /\ Goto(t, "fault")
        BY <3>2, <4>1 DEF Look
      <4>3. counts'.hits = 0
        BY <2>0, <4>2 DEF TypeOK
      <4>4. \A u \in Threads : thr'[u].hits = 0 /\ thr'[u].pc # "load"
        BY <2>0, <4>2 DEF Goto, TypeOK, Locals
      <4> QED
        BY <2>0, <3>2, <4>3, <4>4 DEF Look
    <3> QED
      BY <2>11, <3>1, <3>2
  <2>12. CASE ReportFaults
    BY <2>0, <2>12 DEF ReportFaults, TypeOK
  <2>13. CASE UNCHANGED vars
    BY <2>0, <2>13 DEF vars
  <2>14. ASSUME NEW h \in Handles, NEW m \in Mips, MarkDmaComplete(h, m) PROVE Cold
    BY <1>3, <2>14 DEF MarkDmaComplete
  <2> HIDE DEF Cold
  <2> QED
    BY <2>4, <2>5, <2>6, <2>7, <2>8, <2>9, <2>10, <2>11, <2>12, <2>13, <2>14 DEF Next
<1>4. (\E h \in Handles, m \in Mips : MarkDmaComplete(h, m)) \/ seeded' = seeded
  BY DEF Next, vars, CreateImage, UnregisterTexture, ReadCounters, Query, RegisterTexture, DestroyImage, StoreHits,
         StoreMisses, Find, LoadHits, LoadMisses, Decide, SetResidency, Look, CountFault, ReportFaults
<1> QED
  BY <1>1, <1>2, <1>3, <1>4 DEF TypeOK

(***************************************************************************)
(* Until mark_dma_complete is called for some mip no mip becomes resident, *)
(* for every load threshold of at least one half: the feedback from        *)
(* residency to demand cannot start by itself.                             *)
(***************************************************************************)
THEOREM ColdStart == Spec => []OnlySeededLoads
<1>1. Init => ColdInv
  BY InitCold
<1>2. TypeOK /\ ColdInv /\ [Next]_vars => ColdInv'
  BY NextCold
<1>3. ColdInv => OnlySeededLoads
  BY DEF ColdInv
<1> QED
  BY <1>1, <1>2, <1>3, StreamingTypeCorrect, PTL DEF Spec

---------------------------------------------------------------------------
\* Queries and faults

Looking == {t \in Threads : thr[t].pc = "look"}
Faulting == {t \in Threads : thr[t].pc = "fault"}

LEMMA SetsFinite ==
  /\ IsFiniteSet(Looking) /\ Cardinality(Looking) \in Nat
  /\ IsFiniteSet(Faulting) /\ Cardinality(Faulting) \in Nat
<1>1. Looking \subseteq Threads /\ Faulting \subseteq Threads
  BY DEF Looking, Faulting
<1> QED
  BY <1>1, SetsAssumption, FS_Subset, FS_CardinalityType

\* The first conjunct of FaultsAccounted and the second.
LEMMA AccountedParts ==
  FaultsAccounted <=>
    /\ counts.misses = counts.faults + counts.reported + Cardinality(Faulting)
    /\ queries = counts.hits + counts.misses + Cardinality(Looking)
BY DEF FaultsAccounted, Looking, Faulting

LEMMA InitAccounted == Init => FaultsAccounted
<1> SUFFICES ASSUME Init PROVE FaultsAccounted
  OBVIOUS
<1>1. Looking = {} /\ Faulting = {}
  BY DEF Init, Looking, Faulting, Idle
<1>2. Cardinality(Looking) = 0 /\ Cardinality(Faulting) = 0
  BY <1>1, FS_EmptySet
<1> QED
  BY <1>2, AccountedParts DEF Init

\* A step that neither begins nor ends a query.
LEMMA OtherKeeps ==
  ASSUME FaultsAccounted, NEW t \in Threads, UNCHANGED <<counts, queries>>,
         thr[t].pc \notin {"look", "fault"}, thr'[t].pc \notin {"look", "fault"},
         \A u \in Threads \ {t} : thr'[u] = thr[u]
  PROVE  FaultsAccounted'
<1>1. Looking' = Looking /\ Faulting' = Faulting
  BY DEF Looking, Faulting
<1> QED
  BY <1>1, AccountedParts DEF FaultsAccounted, Looking, Faulting

LEMMA NextAccounted == TypeOK /\ FaultsAccounted /\ [Next]_vars => FaultsAccounted'
<1> SUFFICES ASSUME TypeOK, FaultsAccounted, [Next]_vars PROVE FaultsAccounted'
  OBVIOUS
<1> DEFINE Sum == /\ counts'.misses = counts'.faults + counts'.reported + Cardinality(Faulting')
                  /\ queries' = counts'.hits + counts'.misses + Cardinality(Looking')
<1>0. Sum => FaultsAccounted'
  BY DEF FaultsAccounted, Looking, Faulting
<1>00. /\ counts.misses = counts.faults + counts.reported + Cardinality(Faulting)
       /\ queries = counts.hits + counts.misses + Cardinality(Looking)
  BY AccountedParts
<1>000. /\ counts.hits \in Nat /\ counts.misses \in Nat /\ counts.faults \in Nat /\ counts.reported \in Nat
        /\ queries \in Nat /\ Cardinality(Faulting) \in Nat /\ Cardinality(Looking) \in Nat
  BY SetsFinite DEF TypeOK
<1>1. ASSUME NEW t \in Threads, NEW h \in Handles, Query(t, h) PROVE FaultsAccounted'
  <2>1. t \notin Looking /\ t \notin Faulting
    BY <1>1 DEF Query, Looking, Faulting
  <2>2. \A u \in Threads \ {t} : thr'[u] = thr[u]
    BY <1>1, QueryThread
  <2>3. CASE textures[h] # 0
    <3>1. thr'[t].pc = "look" /\ counts' = counts /\ queries' = queries + 1
      <4>1. [Idle EXCEPT !.pc = "look", !.handle = h].pc = "look"
        BY DEF Idle
      <4> QED
        BY <1>1, <2>3, <4>1 DEF Query, TypeOK
    <3>2. Looking' = Looking \union {t} /\ Faulting' = Faulting
      BY <2>1, <2>2, <3>1 DEF Looking, Faulting
    <3>3. Cardinality(Looking') = Cardinality(Looking) + 1
      BY <2>1, <3>2, SetsFinite, FS_AddElement
    <3> QED
      BY <1>0, <1>00, <1>000, <3>1, <3>2, <3>3
  <2>4. CASE textures[h] = 0
    <3>1. thr'[t].pc = "fault" /\ queries' = queries + 1
      <4>1. [Idle EXCEPT !.pc = "fault"].pc = "fault"
        BY DEF Idle
      <4> QED
        BY <1>1, <2>4, <4>1 DEF Query, TypeOK
    <3>2. /\ counts'.misses = counts.misses + 1 /\ counts'.hits = counts.hits
          /\ counts'.faults = counts.faults /\ counts'.reported = counts.reported
      BY <1>1, <2>4 DEF Query, TypeOK
    <3>3. Faulting' = Faulting \union {t} /\ Looking' = Looking
      BY <2>1, <2>2, <3>1 DEF Looking, Faulting
    <3>4. Cardinality(Faulting') = Cardinality(Faulting) + 1
      BY <2>1, <3>3, SetsFinite, FS_AddElement
    <3> QED
      BY <1>0, <1>00, <1>000, <3>1, <3>2, <3>3, <3>4
  <2> QED
    BY <2>3, <2>4
<1>2. ASSUME NEW t \in Threads, Look(t) PROVE FaultsAccounted'
  <2>1. t \in Looking /\ t \notin Faulting /\ queries' = queries /\ \A u \in Threads \ {t} : thr'[u] = thr[u]
    BY <1>2 DEF Look, Goto, Return, Looking, Faulting, TypeOK
  <2>2. CASE Return(t) /\ counts' = [counts EXCEPT !.hits = counts.hits + 1]
    <3>1. thr'[t].pc = "idle"
      BY <2>2 DEF Return, Idle, TypeOK
    <3>2. /\ counts'.hits = counts.hits + 1 /\ counts'.misses = counts.misses
          /\ counts'.faults = counts.faults /\ counts'.reported = counts.reported
      BY <2>2 DEF TypeOK
    <3>3. Looking' = Looking \ {t} /\ Faulting' = Faulting
      BY <2>1, <3>1 DEF Looking, Faulting
    <3>4. Cardinality(Looking') = Cardinality(Looking) - 1
      BY <2>1, <3>3, SetsFinite, FS_RemoveElement
    <3> QED
      BY <1>0, <1>00, <1>000, <2>1, <3>2, <3>3, <3>4
  <2>3. CASE thr' = [thr EXCEPT ![t].mip = thr[t].mip + 1] /\ UNCHANGED counts
    <3>1. thr'[t].pc = "look"
      BY <1>2, <2>3 DEF Look, TypeOK, Locals
    <3>2. Looking' = Looking /\ Faulting' = Faulting
      BY <2>1, <3>1 DEF Looking, Faulting
    <3> QED
      BY <1>0, <1>00, <2>1, <2>3, <3>2
  <2>4. CASE Goto(t, "fault") /\ counts' = [counts EXCEPT !.misses = counts.misses + 1]
    <3>1. thr'[t].pc = "fault"
      BY <2>4 DEF Goto, TypeOK, Locals
    <3>2. /\ counts'.misses = counts.misses + 1 /\ counts'.hits = counts.hits
          /\ counts'.faults = counts.faults /\ counts'.reported = counts.reported
      BY <2>4 DEF TypeOK
    <3>3. Looking' = Looking \ {t} /\ Faulting' = Faulting \union {t}
      BY <2>1, <3>1 DEF Looking, Faulting
    <3>4. Cardinality(Looking') = Cardinality(Looking) - 1
      BY <2>1, <3>3, SetsFinite, FS_RemoveElement
    <3>5. Cardinality(Faulting') = Cardinality(Faulting) + 1
      BY <2>1, <3>3, SetsFinite, FS_AddElement
    <3> QED
      BY <1>0, <1>00, <1>000, <2>1, <3>2, <3>4, <3>5
  <2> QED
    BY <1>2, <2>2, <2>3, <2>4 DEF Look
<1>3. ASSUME NEW t \in Threads, CountFault(t) PROVE FaultsAccounted'
  <2>1. /\ t \in Faulting /\ t \notin Looking /\ queries' = queries
        /\ thr'[t].pc = "idle" /\ \A u \in Threads \ {t} : thr'[u] = thr[u]
    BY <1>3 DEF CountFault, Return, Idle, Looking, Faulting, TypeOK
  <2>2. /\ counts'.faults = counts.faults + 1 /\ counts'.misses = counts.misses
        /\ counts'.hits = counts.hits /\ counts'.reported = counts.reported
    BY <1>3 DEF CountFault, TypeOK
  <2>3. Faulting' = Faulting \ {t} /\ Looking' = Looking
    BY <2>1 DEF Looking, Faulting
  <2>4. Cardinality(Faulting') = Cardinality(Faulting) - 1
    BY <2>1, <2>3, SetsFinite, FS_RemoveElement
  <2> QED
    BY <1>0, <1>00, <1>000, <2>1, <2>2, <2>3, <2>4
<1>4. CASE ReportFaults
  <2>1. /\ counts'.faults = 0 /\ counts'.reported = counts.reported + counts.faults
        /\ counts'.misses = counts.misses /\ counts'.hits = counts.hits /\ queries' = queries
    BY <1>4 DEF ReportFaults, TypeOK
  <2>2. Looking' = Looking /\ Faulting' = Faulting
    BY <1>4 DEF ReportFaults, Looking, Faulting
  <2> QED
    BY <1>0, <1>00, <1>000, <2>1, <2>2
<1>5. ASSUME NEW t \in Threads, NEW h \in Handles,
             CreateImage(t, h) \/ UnregisterTexture(t, h) \/ ReadCounters(t, h)
      PROVE  FaultsAccounted'
  <2>1. \A pc \in {"register", "destroy"} : [Idle EXCEPT !.pc = pc, !.handle = h].pc = pc
    BY DEF Idle
  <2>2. /\ thr[t].pc = "idle" /\ thr'[t].pc \in {"register", "destroy", "storeHits"}
        /\ \A u \in Threads \ {t} : thr'[u] = thr[u]
    <3>1. CASE CreateImage(t, h)
      BY <2>1, <3>1 DEF CreateImage, TypeOK
    <3>2. CASE UnregisterTexture(t, h)
      BY <2>1, <3>2 DEF UnregisterTexture, TypeOK
    <3>3. CASE ReadCounters(t, h)
      BY <3>3 DEF ReadCounters, TypeOK
    <3> QED
      BY <1>5, <3>1, <3>2, <3>3
  <2>3. UNCHANGED <<counts, queries>>
    BY <1>5 DEF CreateImage, UnregisterTexture, ReadCounters
  <2> QED
    BY <2>2, <2>3, OtherKeeps
<1>6. ASSUME NEW t \in Threads,
             \/ RegisterTexture(t) \/ DestroyImage(t) \/ StoreHits(t) \/ StoreMisses(t) \/ Find(t)
             \/ LoadHits(t) \/ LoadMisses(t) \/ Decide(t) \/ SetResidency(t)
      PROVE  FaultsAccounted'
  <2>1. UNCHANGED <<counts, queries>> /\ thr[t].pc \notin {"look", "fault"}
    BY <1>6 DEF RegisterTexture, DestroyImage, StoreHits, StoreMisses, Find, LoadHits, LoadMisses, Decide, SetResidency
  <2>2. CASE \/ Return(t) \/ Goto(t, "storeMisses") \/ Goto(t, "find") \/ Goto(t, "loadHits")
             \/ Goto(t, "load") \/ Goto(t, "evict")
    <3>1. thr'[t].pc \notin {"look", "fault"} /\ \A u \in Threads \ {t} : thr'[u] = thr[u]
      BY <2>2 DEF Return, Goto, Idle, TypeOK, Locals
    <3> QED
      BY <2>1, <3>1, OtherKeeps
  <2>3. CASE LoadHits(t) \/ LoadMisses(t) \/ SetResidency(t)
    <3>1. thr'[t].pc \in {"loadMisses", "mip"} /\ \A u \in Threads \ {t} : thr'[u] = thr[u]
      BY <2>3 DEF LoadHits, LoadMisses, SetResidency, TypeOK, Locals
    <3> QED
      BY <2>1, <3>1, OtherKeeps
  <2>4. CASE Decide(t) /\ thr' = [thr EXCEPT ![t].mip = thr[t].mip + 1]
    <3>1. thr'[t].pc = "mip" /\ \A u \in Threads \ {t} : thr'[u] = thr[u]
      BY <2>4 DEF Decide, TypeOK, Locals
    <3> QED
      BY <2>1, <3>1, OtherKeeps
  <2> QED
    BY <1>6, <2>2, <2>3, <2>4 DEF RegisterTexture, DestroyImage, StoreHits, StoreMisses, Find, Decide
<1>7. ASSUME NEW h \in Handles, NEW m \in Mips, MarkDmaComplete(h, m) PROVE FaultsAccounted'
  BY <1>7 DEF MarkDmaComplete, FaultsAccounted
<1>8. CASE UNCHANGED vars
  BY <1>8 DEF vars, FaultsAccounted
<1> HIDE DEF Sum
<1> QED
  BY <1>1, <1>2, <1>3, <1>4, <1>5, <1>6, <1>7, <1>8 DEF Next

(***************************************************************************)
(* Every get_safe_mip_level ends as one hit or one miss and every miss as  *)
(* one reported fault, for any number of threads and wherever              *)
(* get_and_reset_fault_count falls between them.                           *)
(***************************************************************************)
THEOREM FaultsCorrect == Spec => []FaultsAccounted
<1>1. Init => FaultsAccounted
  BY InitAccounted
<1>2. TypeOK /\ FaultsAccounted /\ [Next]_vars => FaultsAccounted'
  BY NextAccounted
<1> QED
  BY <1>1, <1>2, StreamingTypeCorrect, PTL DEF Spec
=============================================================================

-------------------------- MODULE TextureStreaming --------------------------
(***************************************************************************)
(* Texture residency: TextureStreamingEngineHardened                       *)
(* (its_engine_hardened.h), the hooks of vkCreateImage and vkDestroyImage  *)
(* that keep its registry (layer_entry.cpp), and the hit rate it gets back *)
(* through the Analyzer (synapse_umd.h).                                   *)
(*                                                                         *)
(* register, unregister and mark_dma_complete hold textures_mutex_         *)
(* exclusively; prepare_for_use and get_safe_mip_level share it, so their  *)
(* accesses to a mip interleave.  A fence always counts as complete, as in *)
(* every build without SYNAPSE_REAL_FENCE, and is left out.  The driver    *)
(* may hand out the handle of a destroyed image again; `made' numbers the  *)
(* images so that two with the same handle can be told apart.              *)
(***************************************************************************)
EXTENDS Naturals, FiniteSets

CONSTANTS
  Threads,     \* threads of the application
  Handles,     \* the values a VkImage may have
  MipCount,    \* mip_count of every texture
  LoadPct,     \* kLoadThreshold in per cent; 85 in the code
  EvictPct,    \* kEvictThreshold in per cent; 15 in the code
  MaxImages,   \* bound: images created
  MaxQueries   \* bound: calls of get_safe_mip_level

ASSUME NumbersAssumption ==
  /\ MipCount \in Nat /\ LoadPct \in Nat /\ EvictPct \in Nat
  /\ MaxImages \in Nat /\ MaxQueries \in Nat
ASSUME SetsAssumption == IsFiniteSet(Threads) /\ Handles # {}
ASSUME ThresholdAssumption == EvictPct < LoadPct /\ LoadPct >= 50

Mips == 0 .. MipCount - 1

VARIABLES
  made,      \* images created so far
  driver,    \* the image each handle stands for in the driver, 0 for none
  held,      \* handles the application holds
  textures,  \* textures_: the image each handle was registered for, 0 for none
  resident,  \* is_resident of each mip of a registered texture
  counts,    \* cache_hits_, cache_misses_, fault_count_, and the faults reported so far
  analyzer,  \* its_hits_ and its_misses_
  queries,   \* calls of get_safe_mip_level so far
  seeded,    \* whether mark_dma_complete ever found its mip
  thr        \* per thread: where it is, with its locals

registry == <<made, driver, held, textures>>
vars == <<registry, resident, counts, analyzer, queries, seeded, thr>>

\* handle: the image of the call; mip: i; hits and misses: what was read of the counters
Idle == [pc |-> "idle", handle |-> CHOOSE h \in Handles : TRUE, mip |-> 0, hits |-> 0, misses |-> 0]

Absent == [m \in Mips |-> FALSE]

Init ==
  /\ made = 0
  /\ driver = [h \in Handles |-> 0]
  /\ held = {}
  /\ textures = [h \in Handles |-> 0]
  /\ resident = [h \in Handles |-> Absent]
  /\ counts = [hits |-> 0, misses |-> 0, faults |-> 0, reported |-> 0]
  /\ analyzer = [hits |-> 0, misses |-> 0]
  /\ queries = 0
  /\ seeded = FALSE
  /\ thr = [t \in Threads |-> Idle]

Goto(t, pc) == thr' = [thr EXCEPT ![t].pc = pc]
Return(t) == thr' = [thr EXCEPT ![t] = Idle]

\* The threads that hold textures_mutex_ shared.
Sharing == {t \in Threads : thr[t].pc \in {"loadHits", "loadMisses", "mip", "load", "evict", "look", "fault"}}
Exclusive == Sharing = {}

---------------------------------------------------------------------------
\* vkCreateImage and vkDestroyImage

\* The driver creates an image, under any handle that is free.
CreateImage(t, h) ==
  /\ thr[t].pc = "idle"
  /\ driver[h] = 0 /\ made < MaxImages
  /\ made' = made + 1
  /\ driver' = [driver EXCEPT ![h] = made']
  /\ thr' = [thr EXCEPT ![t] = [Idle EXCEPT !.pc = "register", !.handle = h]]
  /\ UNCHANGED <<held, textures, resident, counts, analyzer, queries, seeded>>

\* register_texture, and vkCreateImage returns.
RegisterTexture(t) ==
  LET h == thr[t].handle IN
  /\ thr[t].pc = "register" /\ Exclusive
  /\ textures' = [textures EXCEPT ![h] = driver[h]]
  /\ resident' = [resident EXCEPT ![h] = Absent]
  /\ held' = held \union {h}
  /\ Return(t)
  /\ UNCHANGED <<made, driver, counts, analyzer, queries, seeded>>

\* Variant: the engine is not told.
UnregisterForgotten(t, h) ==
  /\ thr[t].pc = "idle" /\ h \in held /\ Exclusive
  /\ held' = held \ {h}
  /\ thr' = [thr EXCEPT ![t] = [Idle EXCEPT !.pc = "destroy", !.handle = h]]
  /\ UNCHANGED <<made, driver, textures, resident, counts, analyzer, queries, seeded>>

\* unregister_texture: the application gives the handle up.
UnregisterTexture(t, h) ==
  /\ thr[t].pc = "idle" /\ h \in held /\ Exclusive
  /\ held' = held \ {h}
  /\ textures' = [textures EXCEPT ![h] = 0]
  /\ resident' = [resident EXCEPT ![h] = Absent]
  /\ thr' = [thr EXCEPT ![t] = [Idle EXCEPT !.pc = "destroy", !.handle = h]]
  /\ UNCHANGED <<made, driver, counts, analyzer, queries, seeded>>

\* The driver destroys the image; from here on it may use the handle again.
DestroyImage(t) ==
  /\ thr[t].pc = "destroy"
  /\ driver' = [driver EXCEPT ![thr[t].handle] = 0]
  /\ Return(t)
  /\ UNCHANGED <<made, held, textures, resident, counts, analyzer, queries, seeded>>

---------------------------------------------------------------------------
\* A draw: update_its_stats, then prepare_for_use

\* get_hits and get_misses, in no particular order, as the arguments of update_its_stats.  They
\* are read together: stores and loads below tear the pair apart in any case.
ReadCounters(t, h) ==
  /\ thr[t].pc = "idle"
  /\ thr' = [thr EXCEPT ![t] = [pc |-> "storeHits", handle |-> h, mip |-> 0,
                                hits |-> counts.hits, misses |-> counts.misses]]
  /\ UNCHANGED <<registry, resident, counts, analyzer, queries, seeded>>

StoreHits(t) ==
  /\ thr[t].pc = "storeHits"
  /\ analyzer' = [analyzer EXCEPT !.hits = thr[t].hits]
  /\ Goto(t, "storeMisses")
  /\ UNCHANGED <<registry, resident, counts, queries, seeded>>

StoreMisses(t) ==
  /\ thr[t].pc = "storeMisses"
  /\ analyzer' = [analyzer EXCEPT !.misses = thr[t].misses]
  /\ Goto(t, "find")
  /\ UNCHANGED <<registry, resident, counts, queries, seeded>>

\* prepare_for_use takes the shared lock and looks the texture up.
Find(t) ==
  /\ thr[t].pc = "find"
  /\ IF textures[thr[t].handle] = 0 THEN Return(t) ELSE Goto(t, "loadHits")
  /\ UNCHANGED <<registry, resident, counts, analyzer, queries, seeded>>

\* get_mip_demand_probability reads one counter after the other.
LoadHits(t) ==
  /\ thr[t].pc = "loadHits"
  /\ thr' = [thr EXCEPT ![t].pc = "loadMisses", ![t].hits = analyzer.hits]
  /\ UNCHANGED <<registry, resident, counts, analyzer, queries, seeded>>

LoadMisses(t) ==
  /\ thr[t].pc = "loadMisses"
  /\ thr' = [thr EXCEPT ![t].pc = "mip", ![t].misses = analyzer.misses]
  /\ UNCHANGED <<registry, resident, counts, analyzer, queries, seeded>>

\* Variant: a cold start counts as full demand.
DemandAboveEager(h, m, pct) == 100 * (h + 1) > pct * (h + m + 1)

\* (h + 1) / (h + m + 2) against a threshold
DemandAbove(h, m, pct) == 100 * (h + 1) > pct * (h + m + 2)
DemandBelow(h, m, pct) == 100 * (h + 1) < pct * (h + m + 2)

\* update_residency_with_hysteresis, one round of the loop: what mip i needs
Decide(t) ==
  LET s == thr[t]
      here == resident[s.handle][s.mip] IN
  /\ s.pc = "mip"
  /\ \/ s.mip = MipCount /\ Return(t)
     \/ /\ s.mip < MipCount
        /\ \/ ~here /\ DemandAbove(s.hits, s.misses, LoadPct) /\ Goto(t, "load")
           \/ here /\ DemandBelow(s.hits, s.misses, EvictPct) /\ Goto(t, "evict")
           \/ /\ ~(~here /\ DemandAbove(s.hits, s.misses, LoadPct))
              /\ ~(here /\ DemandBelow(s.hits, s.misses, EvictPct))
              /\ thr' = [thr EXCEPT ![t].mip = @ + 1]
  /\ UNCHANGED <<registry, resident, counts, analyzer, queries, seeded>>

\* trigger_async_load and trigger_async_eviction
SetResidency(t) ==
  /\ thr[t].pc \in {"load", "evict"}
  /\ resident' = [resident EXCEPT ![thr[t].handle][thr[t].mip] = thr[t].pc = "load"]
  /\ thr' = [thr EXCEPT ![t].pc = "mip", ![t].mip = @ + 1]
  /\ UNCHANGED <<registry, counts, analyzer, queries, seeded>>

---------------------------------------------------------------------------
\* get_safe_mip_level

Query(t, h) ==
  /\ thr[t].pc = "idle" /\ queries < MaxQueries
  /\ queries' = queries + 1
  /\ IF textures[h] # 0
     THEN /\ thr' = [thr EXCEPT ![t] = [Idle EXCEPT !.pc = "look", !.handle = h]]
          /\ UNCHANGED counts
     ELSE /\ thr' = [thr EXCEPT ![t] = [Idle EXCEPT !.pc = "fault"]]
          /\ counts' = [counts EXCEPT !.misses = @ + 1]
  /\ UNCHANGED <<registry, resident, analyzer, seeded>>

\* One round of the loop over the mips; after the last one a miss is counted.
Look(t) ==
  LET s == thr[t] IN
  /\ s.pc = "look"
  /\ \/ /\ s.mip < MipCount /\ resident[s.handle][s.mip]
        /\ counts' = [counts EXCEPT !.hits = @ + 1]
        /\ Return(t)
     \/ /\ s.mip < MipCount /\ ~resident[s.handle][s.mip]
        /\ thr' = [thr EXCEPT ![t].mip = @ + 1]
        /\ UNCHANGED counts
     \/ /\ s.mip = MipCount
        /\ counts' = [counts EXCEPT !.misses = @ + 1]
        /\ Goto(t, "fault")
  /\ UNCHANGED <<registry, resident, analyzer, queries, seeded>>

CountFault(t) ==
  /\ thr[t].pc = "fault"
  /\ counts' = [counts EXCEPT !.faults = @ + 1]
  /\ Return(t)
  /\ UNCHANGED <<registry, resident, analyzer, queries, seeded>>

---------------------------------------------------------------------------

\* Variant: the count is read and left as it is.
ReportFaultsKept ==
  /\ counts.faults > 0
  /\ counts' = [counts EXCEPT !.reported = @ + counts.faults]
  /\ UNCHANGED <<registry, resident, analyzer, queries, seeded, thr>>

\* get_and_reset_fault_count
ReportFaults ==
  /\ counts.faults > 0
  /\ counts' = [counts EXCEPT !.faults = 0, !.reported = @ + counts.faults]
  /\ UNCHANGED <<registry, resident, analyzer, queries, seeded, thr>>

\* mark_dma_complete(h, fence, m), unless it returns false
MarkDmaComplete(h, m) ==
  /\ Exclusive
  /\ textures[h] # 0
  /\ resident' = [resident EXCEPT ![h][m] = TRUE]
  /\ seeded' = TRUE
  /\ UNCHANGED <<registry, counts, analyzer, queries, thr>>

Next ==
  \/ \E t \in Threads :
       \/ \E h \in Handles :
            CreateImage(t, h) \/ UnregisterTexture(t, h) \/ ReadCounters(t, h) \/ Query(t, h)
       \/ RegisterTexture(t) \/ DestroyImage(t)
       \/ StoreHits(t) \/ StoreMisses(t) \/ Find(t) \/ LoadHits(t) \/ LoadMisses(t)
       \/ Decide(t) \/ SetResidency(t) \/ Look(t) \/ CountFault(t)
  \/ ReportFaults
  \/ \E h \in Handles, m \in Mips : MarkDmaComplete(h, m)

Spec == Init /\ [][Next]_vars

---------------------------------------------------------------------------
\* Properties

Counters == [hits : Nat, misses : Nat]
Places == {"idle", "register", "destroy", "storeHits", "storeMisses", "find", "loadHits",
           "loadMisses", "mip", "load", "evict", "look", "fault"}
Locals == [pc : Places, handle : Handles, mip : 0 .. MipCount, hits : Nat, misses : Nat]

TypeOK ==
  /\ made \in Nat
  /\ driver \in [Handles -> Nat]
  /\ held \subseteq Handles
  /\ textures \in [Handles -> Nat]
  /\ resident \in [Handles -> [Mips -> BOOLEAN]]
  /\ counts \in [hits : Nat, misses : Nat, faults : Nat, reported : Nat]
  /\ analyzer \in Counters
  /\ queries \in Nat
  /\ seeded \in BOOLEAN
  /\ thr \in [Threads -> Locals]
  /\ \A t \in Threads : thr[t].pc \in {"load", "evict"} => thr[t].mip \in Mips

(***************************************************************************)
(* The registry follows the images although the driver reuses handles:     *)
(* while the application holds a handle, the entry under it is the one     *)
(* made for the image the handle now stands for, and no entry outlives its *)
(* image.                                                                  *)
(***************************************************************************)
RegistryExact ==
  /\ \A h \in held : driver[h] # 0 /\ textures[h] = driver[h]
  /\ \A h \in Handles \ held : textures[h] = 0

\* What RegistryExact rests on: between the driver's call and the engine's a thread has its
\* image to itself, which exists and which the application does not hold.
Busy(t) == thr[t].pc \in {"register", "destroy"}

Owned ==
  \A t \in Threads : Busy(t) =>
    /\ driver[thr[t].handle] # 0 /\ thr[t].handle \notin held
    /\ \A u \in Threads \ {t} : Busy(u) => thr[u].handle # thr[t].handle

(***************************************************************************)
(* Nothing loads by itself: demand is a hit rate that starts at one half,  *)
(* below the load threshold, and only a resident mip makes a hit, so a mip *)
(* is resident only after mark_dma_complete has been called for some mip.  *)
(***************************************************************************)
OnlySeededLoads ==
  ~seeded => \A h \in Handles, m \in Mips : ~resident[h][m]

\* What OnlySeededLoads rests on: until then no hit is counted anywhere, and no load begins.
NoHits ==
  ~seeded =>
    /\ counts.hits = 0 /\ analyzer.hits = 0
    /\ \A t \in Threads : thr[t].hits = 0 /\ thr[t].pc # "load"

(***************************************************************************)
(* Every query ends as one hit or one miss and every miss is reported as a *)
(* fault exactly once, whenever the report resets the count.               *)
(***************************************************************************)
FaultsAccounted ==
  /\ counts.misses = counts.faults + counts.reported + Cardinality({t \in Threads : thr[t].pc = "fault"})
  /\ queries = counts.hits + counts.misses + Cardinality({t \in Threads : thr[t].pc = "look"})

=============================================================================

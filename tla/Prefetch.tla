------------------------------ MODULE Prefetch ------------------------------
(***************************************************************************)
(* Texture prefetching: PredictiveEngine (predictive_engine.h), which runs *)
(* on the thread that replays the draws, over ITSCacheController           *)
(* (its_cache_controller.h), an LRU cache with a budget in bytes, and      *)
(* SyncManager (sync_manager.h), which render threads ask whether a        *)
(* resource is safe to use while the DMA engine may still be loading it.   *)
(*                                                                         *)
(* The cache and the sync manager have a mutex each, so every call of them *)
(* is one step, except is_safe_to_execute, which takes its mutex twice.    *)
(* The DMA engine finishes a load when its progress reaches the value the  *)
(* load was issued with; the manager has a copy of the progress, which may *)
(* lag.  A resource keeps its size while it is cached: the size callback   *)
(* reads what was registered with the handle.  Hit and miss counters are   *)
(* not modelled.                                                           *)
(***************************************************************************)
EXTENDS Naturals, Sequences, FiniteSets, SequencesExt

CONSTANTS
  Threads,      \* render threads
  Resources,    \* handles of textures and buffers
  Streamable,   \* the textures with more than one mip level
  Size,         \* size_bytes of each resource
  Capacity,     \* capacity_ of the cache
  Window,       \* temporal_window_: frames a load takes
  Grace,        \* frames after which a prediction counts as wasted; 5 in the code
  Bindings,     \* the lists of resources a draw may have bound
  MaxFrames,    \* bound: frames
  MaxDraws      \* bound: draws

ASSUME ResourcesAssumption == IsFiniteSet(Resources) /\ Resources # {}
ASSUME StreamableAssumption == Streamable \subseteq Resources
ASSUME SizeAssumption == Size \in [Resources -> Nat]
ASSUME NumbersAssumption ==
  /\ Capacity \in Nat /\ Window \in Nat /\ Grace \in Nat
  /\ MaxFrames \in Nat /\ MaxDraws \in Nat
ASSUME BindingsAssumption == Bindings \subseteq Seq(Resources)

VARIABLES
  frame,     \* the frame being replayed
  draws,     \* draws replayed so far
  engine,    \* evaluate_and_predict: where it is, and the resources it has yet to look at
  active,    \* active_predictions_: frame + 1 of the prediction, 0 for none
  stats,     \* stats_
  lru,       \* lru_list_ and lru_map_, most recently used first
  usage,     \* current_usage_
  pending,   \* resource_states_; a resource without an entry is like one that is clean
  progress,  \* how far the DMA engine has come
  timeline,  \* hardware_timeline_value_
  emitted,   \* the progress at which the last load of a resource is done
  thr        \* per render thread: its call of is_safe_to_execute, and what it executes with

cache == <<lru, usage>>
prediction == <<active, stats>>
vars == <<frame, draws, engine, prediction, cache, pending, progress, timeline, emitted, thr>>

Idle == [pc |-> "idle", queue |-> << >>]
Outside == [pc |-> "outside", res |-> CHOOSE r \in Resources : TRUE, overtaken |-> FALSE]

Init ==
  /\ frame = 0 /\ draws = 0
  /\ engine = Idle
  /\ active = [r \in Resources |-> 0]
  /\ stats = [total |-> 0, accurate |-> 0, wasted |-> 0]
  /\ lru = << >> /\ usage = 0
  /\ pending = [r \in Resources |-> [fence |-> 0, dirty |-> FALSE]]
  /\ progress = 0 /\ timeline = 0
  /\ emitted = [r \in Resources |-> 0]
  /\ thr = [t \in Threads |-> Outside]

---------------------------------------------------------------------------
\* ITSCacheController

\* The sum of the sizes of the resources in S, counted byte by byte.
Cells(S) == UNION {{r} \X (1 .. Size[r]) : r \in S}
Bytes(S) == Cardinality(Cells(S))

\* current_usage_ when all but the first n entries have been evicted.
UsageAt(n) == usage - Bytes(Range(SubSeq(lru, n + 1, Len(lru))))

\* ensure_capacity_locked(bytes): how many entries are left.  A request larger than
\* the cache evicts nothing and is let through.
Kept(bytes) ==
  IF bytes > Capacity
  THEN Len(lru)
  ELSE LET fitting == {n \in 0 .. Len(lru) : UsageAt(n) + bytes <= Capacity}
       IN IF fitting = {} THEN 0 ELSE CHOOSE n \in fitting : \A k \in fitting : k <= n

\* lru_list_.erase of the entry that lru_map_ has for r.
Without(s, r) == RemoveAt(s, CHOOSE i \in DOMAIN s : s[i] = r)

\* access_resource, a hit
Touch(r) == /\ lru' = <<r>> \o Without(lru, r)
            /\ usage' = usage

\* Variant: room is made although the resource is too large for the cache.
InsertFlushing(r) ==
  /\ lru' = <<r>>
  /\ usage' = usage + Size[r]

\* access_resource, a miss
Insert(r) ==
  LET n == Kept(Size[r]) IN
  /\ lru' = <<r>> \o SubSeq(lru, 1, n)
  /\ usage' = UsageAt(n) + Size[r]

\* remove_resource: the application destroys the image.
RemoveResource(r) ==
  /\ r \in Range(lru)
  /\ lru' = Without(lru, r)
  /\ usage' = usage - Size[r]
  /\ UNCHANGED <<frame, draws, engine, prediction, pending, progress, timeline, emitted, thr>>

---------------------------------------------------------------------------
\* PredictiveEngine::evaluate_and_predict

Draw(bound) ==
  /\ engine.pc = "idle"
  /\ draws < MaxDraws
  /\ draws' = draws + 1
  /\ engine' = [pc |-> "use", queue |-> bound]
  /\ UNCHANGED <<frame, prediction, cache, pending, progress, timeline, emitted, thr>>

NextFrame ==
  /\ engine.pc = "idle"
  /\ frame < MaxFrames
  /\ frame' = frame + 1
  /\ UNCHANGED <<draws, engine, prediction, cache, pending, progress, timeline, emitted, thr>>

\* Variant: a prediction that came true stays active.
ScoreKept(r) ==
  /\ active' = active
  /\ stats' = IF active[r] # 0 THEN [stats EXCEPT !.accurate = @ + 1] ELSE stats

\* A prediction for r is scored as accurate now that r is used.
Score(r) ==
  /\ active' = [active EXCEPT ![r] = 0]
  /\ stats' = IF active[r] # 0 THEN [stats EXCEPT !.accurate = @ + 1] ELSE stats

\* The next bound resource is scored and, if it is streamed, asked for in the cache.
UseResident ==
  /\ engine.pc = "use" /\ engine.queue # << >>
  /\ LET r == Head(engine.queue) IN
       /\ Score(r)
       /\ \/ r \notin Streamable /\ UNCHANGED cache
          \/ r \in Streamable /\ r \in Range(lru) /\ Touch(r)
  /\ engine' = [engine EXCEPT !.queue = Tail(@)]
  /\ UNCHANGED <<frame, draws, pending, progress, timeline, emitted, thr>>

UseMissing ==
  /\ engine.pc = "use" /\ engine.queue # << >>
  /\ LET r == Head(engine.queue) IN
       /\ r \in Streamable /\ r \notin Range(lru)
       /\ Score(r)
       /\ Insert(r)
  /\ engine' = [engine EXCEPT !.pc = "mark"]
  /\ UNCHANGED <<frame, draws, pending, progress, timeline, emitted, thr>>

Target == frame + Window

\* The render threads that asked about r, with the note that they did so before a new load of r.
Overtaking(r) ==
  [t \in Threads |->
     IF thr[t].pc # "outside" /\ thr[t].res = r THEN [thr[t] EXCEPT !.overtaken = TRUE] ELSE thr[t]]

\* sync_manager_.mark_pending_load(r, target_fence)
MarkPendingLoad ==
  /\ engine.pc = "mark"
  /\ LET r == Head(engine.queue) IN
       /\ pending' = [pending EXCEPT ![r] = [fence |-> Target, dirty |-> TRUE]]
       /\ thr' = Overtaking(r)
  /\ engine' = [engine EXCEPT !.pc = "emit"]
  /\ UNCHANGED <<frame, draws, prediction, cache, progress, timeline, emitted>>

\* builder_.emit_prefetch_hint, and the prediction is noted.
EmitPrefetch ==
  /\ engine.pc = "emit"
  /\ LET r == Head(engine.queue) IN
       /\ emitted' = [emitted EXCEPT ![r] = Target]
       /\ active' = [active EXCEPT ![r] = frame + 1]
  /\ stats' = [stats EXCEPT !.total = @ + 1]
  /\ engine' = [pc |-> "use", queue |-> Tail(engine.queue)]
  /\ UNCHANGED <<frame, draws, cache, pending, progress, timeline, thr>>

\* The predictions that were not used within the window and the grace period.
Stale == {r \in Resources : active[r] # 0 /\ frame > active[r] - 1 + Window + Grace}

Prune ==
  /\ engine.pc = "use" /\ engine.queue = << >>
  /\ active' = [r \in Resources |-> IF r \in Stale THEN 0 ELSE active[r]]
  /\ stats' = [stats EXCEPT !.wasted = @ + Cardinality(Stale)]
  /\ engine' = Idle
  /\ UNCHANGED <<frame, draws, cache, pending, progress, timeline, emitted, thr>>

---------------------------------------------------------------------------
\* SyncManager

\* The DMA engine comes further.
HardwareAdvances ==
  /\ progress < MaxFrames + Window
  /\ progress' = progress + 1
  /\ UNCHANGED <<frame, draws, engine, prediction, cache, pending, timeline, emitted, thr>>

\* update_hardware_timeline(value): a plain store of what was read from the engine, now
\* or before somebody else's store.
UpdateHardwareTimeline(value) ==
  /\ value <= progress
  /\ timeline' = value
  /\ UNCHANGED <<frame, draws, engine, prediction, cache, pending, progress, emitted, thr>>

Asks(t, r, pc) ==
  /\ thr[t].pc = "outside"
  /\ thr' = [thr EXCEPT ![t] = [pc |-> pc, res |-> r, overtaken |-> FALSE]]
  /\ UNCHANGED <<frame, draws, engine, prediction, cache, pending, progress, timeline, emitted>>

\* is_safe_to_execute under the shared lock: nothing is pending;
AskClean(t, r) == ~pending[r].dirty /\ Asks(t, r, "executing")

\* or what is pending is done.  (Otherwise it returns false and nothing changes.)
AskDue(t, r) == pending[r].dirty /\ timeline >= pending[r].fence /\ Asks(t, r, "due")

\* Variant: the flag is cleared without a second look.
ClearDirtyUnchecked(t) ==
  /\ thr[t].pc = "due"
  /\ pending' = [pending EXCEPT ![thr[t].res].dirty = FALSE]
  /\ thr' = [thr EXCEPT ![t].pc = "executing"]
  /\ UNCHANGED <<frame, draws, engine, prediction, cache, progress, timeline, emitted>>

\* is_safe_to_execute under the exclusive lock: another look, and true whatever it shows.
ClearDirty(t) ==
  /\ thr[t].pc = "due"
  /\ LET r == thr[t].res IN
       pending' = [pending EXCEPT ![r].dirty = @ /\ timeline < pending[r].fence]
  /\ thr' = [thr EXCEPT ![t].pc = "executing"]
  /\ UNCHANGED <<frame, draws, engine, prediction, cache, progress, timeline, emitted>>

\* The render thread is done with the resource.
Finish(t) ==
  /\ thr[t].pc = "executing"
  /\ thr' = [thr EXCEPT ![t] = Outside]
  /\ UNCHANGED <<frame, draws, engine, prediction, cache, pending, progress, timeline, emitted>>

---------------------------------------------------------------------------

Next ==
  \/ \E bound \in Bindings : Draw(bound)
  \/ NextFrame \/ UseResident \/ UseMissing \/ MarkPendingLoad \/ EmitPrefetch \/ Prune
  \/ HardwareAdvances
  \/ \E value \in 0 .. MaxFrames + Window : UpdateHardwareTimeline(value)
  \/ \E r \in Resources : RemoveResource(r)
  \/ \E t \in Threads :
       \/ \E r \in Resources : AskClean(t, r) \/ AskDue(t, r)
       \/ ClearDirty(t) \/ Finish(t)

Spec == Init /\ [][Next]_vars

---------------------------------------------------------------------------
\* Properties

TypeOK ==
  /\ frame \in 0 .. MaxFrames /\ draws \in 0 .. MaxDraws
  /\ engine \in [pc : {"idle", "use", "mark", "emit"}, queue : Seq(Resources)]
  /\ engine.pc \in {"mark", "emit"} => engine.queue # << >>
  /\ active \in [Resources -> 0 .. MaxFrames + 1]
  /\ stats \in [total : Nat, accurate : Nat, wasted : Nat]
  /\ pending \in [Resources -> [fence : Nat, dirty : BOOLEAN]]
  /\ progress \in Nat /\ timeline \in Nat
  /\ emitted \in [Resources -> Nat]
  /\ thr \in [Threads -> [pc : {"outside", "due", "executing"}, res : Resources, overtaken : BOOLEAN]]

\* The resources with a load pending, and those that a render thread has asked about
\* and no load was announced of since.
Dirty == {r \in Resources : pending[r].dirty}
Trusted == {r \in Resources : \E t \in Threads : thr[t].pc # "outside" /\ thr[t].res = r /\ ~thr[t].overtaken}

(***************************************************************************)
(* "True if no DMA is pending or if the pending DMA has completed": a      *)
(* render thread that was told a resource is safe executes while no load   *)
(* of it is under way, unless a new load was announced after it had asked. *)
(***************************************************************************)
SafeToExecute ==
  \A t \in Threads :
    thr[t].pc = "executing" /\ ~thr[t].overtaken => emitted[thr[t].res] <= progress

(***************************************************************************)
(* "SyncManager never returns true for a resource with in-flight DMA", as  *)
(* test_edge_cases.cpp:18 has it: whenever is_safe_to_execute says yes,    *)
(* the last load of the resource is done.                                  *)
(***************************************************************************)
NeverTrueInFlight ==
  [][\A t \in Threads :
       thr[t].pc # "executing" /\ thr'[t].pc = "executing" => emitted[thr'[t].res] <= progress]_vars

\* What SafeToExecute rests on: the manager's copy is never ahead of the engine, a load
\* under way is marked as pending, up to the moment between mark_pending_load and
\* emit_prefetch_hint, and whoever trusts the resource asked when its last load was done.
LoadsMarked ==
  /\ timeline <= progress
  /\ \A r \in Resources : emitted[r] <= Target
  /\ \A r \in Resources : emitted[r] > progress => r \in Dirty /\ pending[r].fence >= emitted[r]
  /\ \A r \in Trusted : emitted[r] <= progress
  /\ engine.pc = "emit" =>
       LET r == Head(engine.queue) IN
       /\ pending[r].fence = Target
       /\ Target > progress => r \in Dirty
       /\ r \in Trusted => Target <= progress

Oversized == {r \in Resources : Size[r] > Capacity}

(***************************************************************************)
(* "The maximum allowed residency footprint": current_usage_ is what the   *)
(* resources in the list take, each counted once, and exceeds the capacity *)
(* only while a resource that alone is larger than the cache is in it.     *)
(***************************************************************************)
CacheExact ==
  /\ lru \in Seq(Resources)
  /\ IsInjective(lru)
  /\ usage = Bytes(Range(lru))
  /\ Range(lru) \cap Oversized = {} => usage <= Capacity

\* The predictions that have not been scored yet.
Open == {r \in Resources : active[r] # 0}

(***************************************************************************)
(* The report's predictions add up: each one made is accurate, wasted or   *)
(* still open, however a resource is evicted, used again, bound twice in a *)
(* draw or destroyed between its prediction and its score.                 *)
(***************************************************************************)
PredictionsAccounted == stats.total = stats.accurate + stats.wasted + Cardinality(Open)

\* With it: the resource about to be predicted has no open prediction, having been scored.
ScoredFirst == engine.pc \in {"mark", "emit"} => active[Head(engine.queue)] = 0

=============================================================================

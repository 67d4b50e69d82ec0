# Verification of the Synapse layer

This directory holds TLA+ models of the Synapse layer (`src/synapse`), the TLC
configurations that check them on small instances, and TLAPS proofs of the
properties that matter most for every instance. `PROJECT.json` lists the
components, the runs, which source lines each definition stands for, one mutant
per property, the hazards of the code and the theorems.

    tlc -workers 2 -config MCSpscRing.cfg MCSpscRing     # a run
    tlapm SpscRingProofs.tla                             # the proofs of a module

## 1. The system

Synapse is an implicit Vulkan layer. The loader calls its entry points
(`layer_entry.cpp`) instead of the driver's; for each device the layer owns one
`SynapseCore` (`synapse_core.cpp`), which decides for every draw and dispatch
which backend executes it (the driver, called the Oracle; a JIT cache; a
hardware batch encoder, HAI), records telemetry, keeps a write-ahead log on
disk, and reacts to a config file the user may edit at any time. On Windows the
core also loads a helper DLL that replaces D3D12 function pointers.

### Components, their state and their operations

| Component | State | Operations | Interacts with |
|---|---|---|---|
| Instance and device lifecycle (`layer_entry.cpp`) | `g_instances`, `g_devices` by dispatch key, `user_profile.dat` | vkCreate/DestroyInstance, vkCreate/DestroyDevice | constructs and destroys `SynapseCore`; every entry point looks up the maps |
| Command interception (`layer_entry.cpp`, `synapse_core.cpp`) | `cmd_state_`, backend counters | vkCmdDraw*, Dispatch, PushConstants, BindDescriptorSets, BindPipeline, FreeCommandBuffers | reads the configuration and the feature switches; pushes telemetry |
| Telemetry rings (`synapse_umd.h`, `atomic_telemetry.h`) | `head_`, `tail_`, `buffer_` | `push`, `pop` | producers are the recording threads, the consumer is the analyzer thread |
| Write-ahead log and recovery (`atomic_telemetry.h`, `crash_recovery.h`) | `synapse.wal`, `write_buffer_`, `sequence_`, `clean_shutdown_`, the metadata file | `write`, `flush`, `check_recovery`, `replay`, `mark_clean_shutdown`, `recover`, `save_metadata` | checked at vkCreateDevice, marked in `~SynapseCore` |
| State machine (`atomic_state.h`) | `current_state_`, `history_`, `transition_count_` | `transition` | constructor and destructor of the core; any user of `state_machine()` |
| Configuration and degradation (`atomic_config.h`, `graceful_degradation.h`) | `current_`, `version_`, `features_` | `update`, `handle_error`, and the core's `apply_config_content`, `sync_config_from_profile`, `check_and_recover`, `execute_jit_path` | written by the watcher and by application threads, read by every draw |
| Config watcher (`config_watcher.h`) | `last_modified_`, `watching_`, the thread | `watch_loop`, `start`, `stop` | calls `apply_config_content` |
| D3D12 helper DLL (`synapse_d3d12_helper_dll.cpp`) | `g_hooks`, `g_ready`, the DLL's reference count | `install_hook`, `remove_hook`, `shutdown`, attach, detach | loaded and freed by the cores |
| Texture streaming (`its_engine_hardened.h`, image hooks in `layer_entry.cpp`, hit rate in `synapse_umd.h`) | `textures_` with a residency flag per mip, hit, miss and fault counters, the analyzer's copy of them | vkCreate/DestroyImage, `prepare_for_use`, `get_safe_mip_level`, `mark_dma_complete`, `get_and_reset_fault_count` | called by every draw; its hit rate comes back as demand |
| Prefetching (`predictive_engine.h`, `its_cache_controller.h`, `sync_manager.h`) | open predictions and their statistics; LRU list and bytes in use; pending loads and the DMA timeline | `evaluate_and_predict`, `access_resource`, `remove_resource`, `mark_pending_load`, `update_hardware_timeline`, `is_safe_to_execute` | the replayer predicts, the DMA engine loads, render threads ask |
| Hot reload of shaders and models (`shader_hotreload.h`, `ml_hotreload.h`) | the active cache and old ones waiting for deletion; the last four models and two version numbers | `lookup`, `compile_and_add`, `recompile_async`, `swap_cache`; `schedule_reload`, `current`, `decide_with_ab` | lock-free readers beside writers and detached threads |
| D3D12 vtable layer, JIT cache, watchdog, schema migration, DVFS and thermal control, learned policy, Rust crates, report writer, tools | see `PROJECT.json` | | not modelled yet, or never (section 8) |

### What is hard

* *Concurrency.* Applications record on several threads, `SynapseCore` is shared
  by them, and the analyzer and watcher threads run beside them. Only part of
  the shared state is behind mutexes: the rings are lock-free, the configuration
  is a swapped pointer, the counters and feature map are plain.
* *Crashes.* The log exists to survive a kill at any instruction, also inside
  recovery and inside a write.
* *Time.* The watcher compares file times in seconds.
* *Reclamation.* Old shader caches are deleted after a fixed time, model slots
  are reused after four versions, and readers of both take no lock.
* *Reuse.* The driver reuses dispatch keys and image handles at once, hook records
  move when one is removed, and one DLL is shared by all devices of a process.

### What makes each component correct

* Ring: what is popped is what was pushed, in order; no slot is read and written
  at once; every accepted sample is delivered.
* Log: no entry is lost or doubled while the layer runs, a kill costs at most a
  batch, a crash is told from a clean exit, nothing is recovered twice.
* State machine: only valid edges, one walk, an audit trail that tells it.
* Configuration: readers only see validated snapshots; no update is lost;
  the switches follow the configuration.
* Routing: what ends on the Oracle or the direct path reaches the driver once and
  unchanged; nothing is drawn twice; per-buffer state does not leak; the counters add up.
* Watcher: never an older configuration; every edit takes effect; `stop` returns.
* Lifecycle: a lookup finds the entry of the object it is asked for; no entry
  outlives its object; the user's preset carries over.
* Helper: the table describes memory; everything hooked is restored; the DLL
  stays loaded while needed.
* Texture streaming: the registry describes the images that exist; loads begin
  for a reason; hits, misses and faults add up.
* Prefetching: nobody uses a texture whose load is under way; the cache accounts
  for its bytes; every prediction is scored once.
* Hot reload: no reader touches freed memory; an installed shader is found; a
  reader gets the model of the version it loaded.

## 2. Modules

| Module | Models | Extended by |
|---|---|---|
| `BoundedFifo` | abstract specification: a FIFO channel with a bounded number of places | instantiated in `SpscRing` |
| `SpscRing` | both rings and the analyzer loop | `SpscRingProofs`, `MCSpscRing` |
| `WalRecovery` | log, recovery and metadata over several sessions | instantiated in `WalComponent` |
| `WalComponent` | `WalRecovery` under names of its own, with its assumptions | `SpscRingProofs`, `MCWalRecovery` |
| `AtomicState` | the state machine and its callers | instantiated in `StateComponent` |
| `StateComponent` | `AtomicState` under names of its own, with its assumptions | `AtomicStateProofs`, `MCSynapseCore` |
| `LiveConfig` | configuration, switches and everything that writes them | `LiveConfigProofs`, `MCLiveConfig` |
| `CommandRouting` | what the driver gets for what the application records | instantiated in `RoutingComponent` |
| `RoutingComponent` | `CommandRouting` under names of its own, with its assumptions | `DeviceLifecycleProofs`, `MCLayerEntry` |
| `ConfigWatcher` | the watcher thread, the file and its editor | instantiated in `WatcherComponent` |
| `WatcherComponent` | `ConfigWatcher` under names of its own, with its assumptions | `LiveConfigProofs`, `MCLiveConfig`, `MCConfigWatcher` |
| `DeviceLifecycle` | instance and device maps, the persisted profile | `DeviceLifecycleProofs`, `MCLayerEntry` |
| `HelperHooks` | the helper's hook table and the cores that load it | `HelperHooksProofs`, `MCSynapseCore` |
| `TextureStreaming` | the streaming engine, the image hooks and the demand feedback | `TextureStreamingProofs`, `MCTextureStreaming` |
| `Prefetch` | predictive engine, LRU cache, sync manager, DMA engine and render threads together | `PrefetchProofs`, `MCPrefetch` |
| `ShaderReload` | the shader cache, its readers, writers and delayed deletion | `HotReload` |
| `ModelSwap` | the model slots, their loaders and readers | instantiated in `HotReload` |
| `HotReload` | both classes of `hotreload/` side by side | `ReloadProofs`, `MCHotReload` |

The four `...Component` modules add nothing to the models they name: each lets a
model stand beside another one that the same code drives, so that one module can
hold the proofs about both, or one run check both.

`MCSynapseCore`, `MCLiveConfig`, `MCLayerEntry` and `MCHotReload` each hold two
models that share no state. A variable `part` says which of the two is at work; the
other one rests in an initial state, so a run explores each in full and never their
product.

Definitions called `...Unchecked`, `...Twice` and the like, each marked
`Variant`, are the plausible mistakes the properties are measured against; no
specification uses them.

### How the models correspond to the code

**SpscRing.** `push` is `PushLoadHead`, `PushRoom` or `PushFull`, `PushWrite`,
`PushPublish`; `pop` is `PopCheck`, `PopRead`, `PopCommit`: one action per access
to a shared location. The acquire loads may return an old index (`tailView`,
`headView`), which covers the weak memory order the code asks for. `Shutdown` is
`Analyzer::shutdown`. Bound: `MaxPushes`.

**WalRecovery.** A session starts (`Start`: the constructors and
`check_recovery`), recovers if the log looks unclean (`Replay`, `Truncate`,
`SaveOpen`, `SaveWrite`), records (`TakeSequence`, `BufferEntry`, which flushes a
full batch through `FlushBatch`), and ends by `MarkCleanShutdown` or
`SkipCleanShutdown`, `SaveOpen`, `SaveWrite`, `Close`, or by one of the `Crash`
actions, which may leave a prefix of a batch with half a record at its end. A file
that cannot be opened for writing fails a flush or a save (`SaveFails`); one
constant, `FlushMayFail`, allows both. A record is its session, number and kind.
Behind a torn record every read straddles two records, and what it shows is open:
any number of these reads pass validation, as a marker or as something else,
numbered below or above all others (`Straddled`), which covers the torn record's
own number and type showing through. Of the in-memory ring only the number of
entries is kept, because nothing in the layer reads it. Bounds: `MaxWrites` per
session, `MaxSessions`.

**AtomicState.** `transition` is `Load`, then `Swap` or `SwapFails`, `Log`,
`Count`. The core's thread asks for the states its constructor and destructor
ask for, other threads for any state. Bound: `MaxTransitions`.

**LiveConfig.** `update` is `UpdateLoad`, `UpdateMutate`, `UpdateStore`,
`UpdateBump`; the switches are read and set one by one (`FlagRead`, `FlagSet`);
`Degrade` and `Restore` are the two halves of a JIT miss and of recovery. Bound:
`MaxOps`.

**CommandRouting.** An entry point is `Enter`, the check of availability, the
choice of a backend, the count (`CountRead`, `CountWrite`: the counters are plain
integers), and the path (`RouteOracle`, `RouteHai`, `RouteJit`, `JitDraw`,
`JitRestore`); the watcher switches features in between. Arguments are "plain" or
"full", which is what the paths tell apart. Bound: `MaxCommands`.

**ConfigWatcher.** `watch_loop` is `CaptureTime`, `Test`, `Poll`, `Read`,
`Notify`. `get_mtime` may be early or late by `MaxSkew` seconds, because it reads
two clocks one after the other, in an order that C++ leaves to the compiler.
Bounds: `MaxEdits`, `MaxTime`.

**DeviceLifecycle.** Creation is `NextCreates` (the next layer) and
`InsertInstance` or `InsertDevice`; destruction is `EraseInstance`, or
`OpenProfile` and `EraseDevice`, then `NextDestroys`. Everything between takes
place under a mutex and is one step, except that a kill can fall between the
opening of `user_profile.dat`, which empties it, and the write. An instance is
destroyed when it has no device left, which is Vulkan's rule for applications and
not the layer's. Bound: `MaxCreated`.

**HelperHooks.** Each function of the DLL runs under `g_mutex` and is one step.
`AttachHelper` and `AttachFails` are `try_attach_d3d12_helper`, which every
device runs twice (constructor and vkCreateDevice); `DetachCore` and `FreeHelper`
are the Windows part of `~SynapseCore`, with hooks of others coming and going in
between, and `Unload` is what the last `FreeLibrary` does to the table: it is gone,
and so are the originals of whatever was hooked. The process may have loaded the DLL
itself beforehand. The arguments of `remove_hook` that it refuses change
nothing and are not steps. No bound: the state space is finite.

**TextureStreaming.** vkCreateImage is `CreateImage` (the driver, any free
handle) and `RegisterTexture`; vkDestroyImage is `UnregisterTexture` and
`DestroyImage`. A draw is `ReadCounters`, `StoreHits`, `StoreMisses`, `Find`,
`LoadHits`, `LoadMisses` and one `Decide` per mip, with `SetResidency` where the
hysteresis asks for it; `get_safe_mip_level` is `Query`, `Look` per mip and
`CountFault`. `textures_mutex_` is the set `Sharing`: whoever writes the map waits
until it is empty. The demand (h+1)/(h+m+2) is compared with a threshold by cross
multiplication; the thresholds are constants in per cent, because the code's 85
and 15 would need many more queries than TLC can follow. Bounds: `MaxImages`,
`MaxQueries`.

**Prefetch.** `evaluate_and_predict` runs on one thread and is `Draw`, then
`UseResident` or `UseMissing` per bound resource, the latter followed by
`MarkPendingLoad` and `EmitPrefetch`, and at the end `Prune`. Cache and sync
manager have a mutex each, so a call of them is one step, except that
`is_safe_to_execute` takes its mutex twice: `AskClean`, or `AskDue` and
`ClearDirty`. `Insert` evicts from the back as `ensure_capacity_locked` does, and
`Without` erases the position of an entry of the list. `Bytes` of a set of
resources is the number of its `Cells`, pairs of a resource and one of its bytes:
a sum written as a cardinality, about which the library has theorems.
A load is under way from `EmitPrefetch` until `progress`, how far the DMA engine
is, reaches its target. `timeline` is the manager's copy, into which
`UpdateHardwareTimeline` stores any value the engine has shown so far, also an
older one than is there. A resource is taken to have the same size when it is
removed as when it was cached.
Bounds: `MaxFrames`, `MaxDraws`.

**ShaderReload.** `lookup` is `LoadActive`, `Find` and the caller's use of the
result (`Done`); `compile_and_add` and `recompile_shader` are `Compile`, `Copy`,
and `swap_cache` is `LoadExpected`, then `Swap` or `SwapFails`. `Tick` ages every
pointer that is followed and every retired cache; `DeleteOld` is the detached
thread. `SameAddress` lets the exchange succeed when the expected cache was
deleted and its memory is that of the active one. The 5 seconds are `Grace`, and a
reader stays at most `Stay` < `Grace` ticks: that is an assumption about callers,
which the design makes and the code does not enforce. Bound: `MaxBuilds`.

**ModelSwap.** `load_model_async` is `NewVersion` (outside the lock),
`KeepPrevious`, `BeginWrite`, `EndWrite`, `Publish`; the assignment of the slot
has a beginning and an end because readers take no lock, and what they see in
between is no model. `current` and its likes are `LoadCurrent`, `ReadSlot` and
`Dereference`, because they go through the slot more than once;
`decide_with_ab` begins with `LoadPrevious`, `Compare`. Stores are seen in the order
they are made, as on x64, which the project is for (`README.md:95`); on a weaker
machine the relaxed store of `previous_version_` (`ml_hotreload.h:128`) would allow
more. Bound: `MaxLoads`.

## 3. Runs

| Run | Properties | What it shows |
|---|---|---|
| `ring` | `FifoDelivery NoSlotRace ImplementsFifo EventuallyDelivered` | One producer, one consumer, lagging views, capacity 4 and six pushes: order, no race, refinement of `BoundedFifo`, delivery. |
| `wal` | `WalTypeOK FreshLogDetection EntriesAccountedFor RecoveredOnce MetadataNeverOvercounts LossBounded` | Two writers, three sessions of three entries, batch of 2, ring of 2 places, kills anywhere, torn writes, files that cannot be opened. |
| `core` | `OneWalk EveryTransitionLogged CountMatchesLog OnlyValidMoves`, `TableMatchesMemory GenuineRestored LoadedWhileNeeded` | The core's thread and three others, six transitions; and three targets, two of them with the same function, a table of two places, two cores. |
| `config` | `OnlyValidSnapshots FeaturesFollowConfig NoLostUpdate`, `WatcherTypeOK NeverOlder EditTakesEffect StopReturns` | The watcher and two threads, three operations of any kind; and four edits over five seconds with one second of skew. |
| `layer_entry` | `LookupExact NoStaleEntry ProfileCarriesOver`, `RoutingTypeOK FallbackExact StateOnlyForLive CountersComplete` | Two threads, two keys, five objects, two profiles, kills; and two threads, two commands of three kinds, features switched at any moment. |
| `prefetch` | `SafeToExecute CacheExact PredictionsAccounted` | Two render threads, two draws over two frames, four resources of which one alone exceeds the cache. |
| `streaming` | `RegistryExact OnlySeededLoads FaultsAccounted` | Two threads, two images over two reusable handles, two mips each, three queries. |
| `reload` | `NoUseAfterFree NoShaderLost ModelServed` | Two threads, two shaders, three builds, a grace period of two ticks; and two loaders and a reader over six models. |
| `wal_crash_detected` | `CrashDetected` violated | A crash after a clean session goes unnoticed. |
| `ring_two_producers` | `FifoDelivery` violated | Two recording threads in one ring overwrite each other's samples. |
| `routing_as_is` | `ForwardedAsIs` violated | An indexed draw that misses the JIT cache is replaced by another. |
| `prefetch_in_flight` | `NeverTrueInFlight` violated | A load announced between the two locks of `is_safe_to_execute` is in flight when it says yes. |

The other type invariants are proved (section 4) and not checked again by these
runs. One more configuration documents a divergence and is not among the runs:
`MCConfigWatcher_SameSecond.cfg` (two edits in one second; `EveryEditTakesEffect` is
violated). Section 5 explains the violations.

### Why the bounds are enough

The ring wraps around when more than `Capacity` entries go through it: six pushes
through four slots reach every position of the indices with every lag. A batch of
2 and three entries per session give full and partial batches, and three sessions
give a log that was left by two sessions of different kinds, which is what
detection depends on. The state machine's races need two threads; a third lets the
state leave and come back between a load and a swap. Two keys and five objects let
a key be reused twice while the other is in transit. A table of two places for
three targets is full, empty and in between, with records that move.

In `prefetch` a cache of 3 bytes holds resources of 1 and 3, which push each
other out, and one of 4, which fits nowhere; two draws over two frames, with a window
of one and no grace period, let a prediction be scored, wasted and left open. In
`streaming`, with thresholds of 60 and 40 per cent, three queries are enough for
demand to cross both, and two images on two handles for a handle to be reused
while the other thread is anywhere. In `reload` three builds give two old caches
that wait for deletion at once, and six loads go once around the four slots and
half again, so that every slot is reused under a reader; shaders and models share
no state, so one is checked while the other rests. Making a reader stay as long
as the grace period, or letting `ModelServed` ask for one version more, is
violated, so both bounds of the properties are tight.

Several properties stop at the first occurrence of something the code does not
handle, remembered in a history variable: `overlapped` (two configuration updates,
two devices, two shader swaps or two model loads at once), `overtaken` (a load
announced after a thread had asked), `raced` (two threads in one counter),
`orphans` (buffers freed with their pool), `blurred` (edits a time in seconds
cannot tell apart), `torn` (a kill inside the save of a profile), `stranded` (a
page that refused to be written, or an unload with hooks installed). The runs
still explore what happens afterwards with the other properties. Section 6 says
what goes wrong past them.

Deadlock is checked in `layer_entry`, `prefetch`, `streaming` and `reload`. The
other models end because the layer has been shut down, every core is gone or a
bound is reached.

### Fairness

`SpscRing!FairSpec` assumes the analyzer thread is scheduled, which its loop
justifies because it never blocks (it pops or yields), and that the producer's
release store becomes visible in finite time. `ConfigWatcher!FairSpec`, and
`ConfigSpec` of `MCLiveConfig` in the same way, assume the watcher thread is
scheduled, its sleep ends and its callback returns. No fairness is assumed of
producers, users or the clock. `EventuallyDelivered` stops at `Shutdown`, because
the loop may leave entries behind when it is told to end.

## 4. Proofs

All proofs are checked by tlapm with Z3, Zenon and LS4. They hold for every value
of the constants that satisfies the named `ASSUME`s.

**SpscRingProofs.** For every capacity of at least 2, every set of values and
every bound. `TypeCorrect` needs nothing more. The others are about the class as
it is meant to be used and assume `SingleProducer` (no two producers), which is
what the run `ring_two_producers` shows to be necessary. The invariant `RingInv`
says that around the ring the four indices come in the order `tailView`, `tail`,
`headView`, `head` within one round (`IndicesInOrder`); that the slots from `tail`
to `head` hold the entries not yet delivered (`SlotsHoldWaiting`); and that a
thread in the middle of `push` or `pop` owns its slot (`ProducerHasSlot`,
`ConsumerHasEntry`). Distance and order around the ring are lemmas about `Dist`
and `SlotAt`. `FifoCorrect` and `SlotRaceFree` follow from it; `RingRefinesFifo`
shows that `PushPublish` and `PopCommit` are the steps of `BoundedFifo` and all
others stutter.

*The log*, in the same module, for any finite set of writers, any batch size and
number of sessions, with or without failing flushes and torn writes.
`WalTypeCorrect` proves `WalBasics`: besides the types, that before recording and
after the end nothing is held (`NothingHeld`), and that writers and buffer hold
only numbers that were handed out (`HeldWereTaken`). On it rest four invariants.
`MetaInv` (for `MetadataCorrect`): the metadata in memory, too, claims no more
than was recovered. `RecoveryInv` (for `RecoveryCorrect`): what was recovered is
of earlier sessions than what is being recorded, and so is all that is read during
startup. `PlacesInv` (for `EntriesCorrect`): each number handed out is in one
place and the others are in none, which the property says of the former only.
`DetectionInv` (for `DetectionCorrect`): a log that started empty holds records of
its session alone and a marker in it is above every event, also those still in the
buffer (`OwnLog`), and what is left of it when the process is gone has one of two
shapes (`LeftLog`: `MarkedLog` or `UnmarkedLog`), from each of which
`check_recovery` draws the right conclusion (`MarkedLooksClean`,
`UnmarkedLooksCrashed`). The action property `LossCorrect` bounds the numbers a
kill takes by those in the buffer and those that threads inside `write` carry.
`ReadWalFacts`, `CutFlush`, `BatchFacts` and `CountConcat` say what reading,
cutting short and flushing the log do to it, with any behaviour of the reads that
straddle.

**AtomicStateProofs.** For any number of threads: `AuditSound` proves `AuditInv`,
which adds to the walk and the log what a thread between swap and log knows
(`InFlightKnown`: its transition is in the path, is not logged, and is no other
thread's) and that a thread before its swap has validated it (`SwapsAreValid`).
`LoggedCorrect`, `WalkCorrect` and the action property `MovesValid` follow.
`CountCorrect` needs `CountInv`, which counts: every committed transition without
a record belongs to one thread about to log, and every record not yet counted to
one thread about to count.

**LiveConfigProofs.** For any threads, profiles and config files:
`SnapshotsValid` needs that every snapshot a thread holds, and every one it is
about to store, is valid (`HeldSnapshotsValid`), since the watcher stores one it
assembled from an older read. `UpdatesKept` and `SwitchesCorrect` need `SerialInv`:
as long as no two operations have overlapped, one thread is at work (`Alone`), what
it holds is the current configuration with its request applied (`Known`), and the
switches follow the configuration except those it still has to set
(`SwitchesFollow`). For the watcher, `WatchTypeCorrect` proves the types and
`NeverFallsBack` needs `FileIsLatest`: the file is gone, empty or the latest edit,
and what has been read and not yet applied is no older than what was applied.

**DeviceLifecycleProofs.** For any threads, keys and profiles: `MapsAgree` proves
`LifecycleInv`: maps and driver objects agree except for objects in transit,
about which each thread knows what it has done (`InTransitKnown`), and no two
threads are in transit with the same object (`TransitsDistinct`). `LookupCorrect`
and `EntriesNeverStale` are parts of it. The action property `ProfileCorrect`
needs `ProfileInv`: the file holds the profile kept last unless a save is under
way, the core that is up (there is at most one) holds the one chosen last, and
while none is up these are the same.

*Routing*, in the same module, for any recording threads and any commands.
`RoutingTypeCorrect` proves the types. `FallbackCorrect`, which is about what ends
on the Oracle or the direct path and not about the reduced draw after a JIT miss,
needs `RouteInv`: a command still open is the last of its thread and the driver
has nothing of it yet. `BuffersPurged` needs that a thread inside a call has a
live buffer (`RecordingLive`). `CountersCorrect` needs `CountersInv`: until two
threads have raced, whoever is between reading a counter and writing it has read
its current value and is alone with it, and the counters add up to the commands
that are past their increment; that these are finitely many is `RecordedFits`.

**HelperHooksProofs.** For any targets, functions, table size and finite set of
cores: `HelperCorrect` proves `HookInv`, which adds to the properties that the
references are at least as many as the cores that hold the module, and that a core
between detach and free holds it (`RefsCover`); without it neither the type of
`refs` nor `LoadedWhileNeeded` is preserved when a core frees its reference.
`HelperTypeCorrect`, `TableFaithful`, `RestoresGenuine` and `StaysLoaded` follow.
The removal of a record is handled through the map from new to old positions,
which is one-to-one and misses only the removed one.

**TextureStreamingProofs.** For any finite set of threads, any handles, any
number of mips and any thresholds, the one for loads being at least one half.
`RegistryCorrect` needs `Owned`: between the driver's call and the engine's a
thread has its image to itself. `ColdStart` needs `NoHits`: until a transfer is
reported no counter, copy of a counter or local variable holds a hit, so the
demand is 1/(m+2), and nobody is about to load; the threshold enters only there.
`FaultsCorrect` counts the threads between a miss and its fault with the
cardinality theorems of the library.

**PrefetchProofs.** For any finite set of resources, any draws, windows and
threads. `SafeCorrect` needs `LoadsMarked`: the manager's timeline is never ahead of
the engine's progress, whatever is under way is marked as pending with a fence at
least as late, also between `mark_pending_load` and `emit_prefetch_hint`, and
whoever trusts a resource asked when its last load was done. A thread that asked
before the load was announced is `overtaken` and exempt, in the theorem as in the
property. `PredictionsCorrect` needs `ScoredFirst`: a resource about to be predicted
has no open prediction that the new one would overwrite. `CacheCorrect` needs
`CacheInv`: no resource is in the list twice, and the resources that are not
larger than the cache fit into it together, also while an oversized one is there;
without that the property does not survive the removal of the oversized one.
`Insert` stops evicting at the largest number of entries that fits, whose
existence and maximality are `LargestOf`.

**ReloadProofs.** For any threads, shaders and `Stay` < `Grace`:
`GraceSuffices` needs `Retained` (only the active cache is live, and a cache
someone follows has not been retired for longer than it was followed), and
`ShadersKept` needs `CopiesFaithful` (a copy differs from its original in one
shader). For any loaders and readers, `ModelsServed` needs `SlotsFilled`: whoever
has the mutex publishes the next version, and the last three versions are in
their slots, as is the one before until its slot is written again; `SlotHeld` adds that
the slot a reader follows has not changed since it began to.

*How sums and extremes are handled.* The library's induction theorems cannot be
used with the installed provers, so nothing here is proved by induction over data.
Totals are stated as cardinalities, to which each step adds or from which it takes
one element; least and greatest elements (`LeastElement`, `GreatestElement`,
`LargestOf`) come from `WFMin`, which needs no operator as a parameter.

The proofs establish the inductive invariants for every instance, so the runs do
not list them.

**Only model-checked:** the liveness properties `EventuallyDelivered`,
`EditTakesEffect` and `StopReturns`, because fairness is out of the prover's
reach. Every other property the passing runs check is stated by a theorem.

## 5. What the runs find

* **A crash can go unnoticed** (`wal_crash_detected`). `check_recovery` compares
  the last marker of the whole file with the highest sequence number in it; each
  session numbers from zero and a clean log is not truncated, so a session that
  is killed after fewer entries than an earlier clean one looks clean.

* **Two recording threads break the telemetry ring** (`ring_two_producers`,
  `synapse_umd.h:54`). The class is for one producer and the layer has as many as
  the application has recording threads; `layer_entry.cpp:312` says "SynapseCore is
  thread-safe internally."
* **The JIT path rewrites draws** (`routing_as_is`, `synapse_core.cpp:677`). The
  cache is always empty, and the fallback draws one instance with zero offsets;
  `layer_entry.cpp:336` says "All parameters are forwarded as-is".
* **A yes for a load in flight** (`prefetch_in_flight`, `sync_manager.h:83`).
  `is_safe_to_execute` looks again under the exclusive lock before it clears the
  flag, and returns true whatever it sees there. `test_edge_cases.cpp:18` says
  "SyncManager never returns true for a resource with in-flight DMA",
  `sync_manager.h:52` "True if no DMA is pending or if the pending DMA has
  completed."

One more is not a run of the project and has a configuration of its own:

* **Edits in one second are lost** (`MCConfigWatcher_SameSecond.cfg`,
  `config_watcher.h:86`). Modification times are compared after being cut to
  seconds, so a second edit in the second of the one that was read is never
  applied; neither is one made before the watcher's first look. The config file the
  layer writes says "changes take effect immediately" (`synapse_core.cpp:160`).
  `EveryEditTakesEffect` is `EditTakesEffect` without its exemption for such edits.

## 6. Known divergences the passing runs step around

These follow from the code and were met while modelling; the properties of the
passing runs exclude them, and the violations of section 5, explicitly.

* `clean_shutdown_` keeps the verdict about the previous session, so a session
  that follows a clean one writes no marker and may be reported as a crash
  (`atomic_telemetry.h:263`).
* `write` fills the ring before the log has the entry (`:186`), although the
  header says the log comes first.
* `replay` ignores a full ring, and the log is truncated afterwards (`:252`).
* After a torn record later reads straddle two records, and one of them may pass
  for a marker (`:213`).
* `sequence_gap_count` counts a gap between two complete sessions (`:292`).
* `history_` may be in another order than the transitions (`atomic_state.h:68`),
  and a layer destroyed while Degraded or Suspended never reaches Uninitialized
  (`:98`).
* Overlapping configuration updates undo each other (`atomic_config.h:90`); the
  watcher's update restores the old version number (`synapse_core.cpp:282`); a
  JIT miss may turn on again a JIT that was disabled meanwhile (`:679`).
* Push constants and descriptor sets reach the driver twice
  (`layer_entry.cpp:425`); backend counters lose increments
  (`synapse_core.cpp:659`); buffers that go with their pool keep their state
  (`layer_entry.cpp:576`); a compute pipeline replaces the hash of the graphics
  pipeline (`synapse_core.cpp:360`).
* Two devices share one log, one profile and one helper: the profile of the one
  destroyed last wins, and the first destroyed detaches the hooks of both.
* A device references the helper DLL twice and frees it once; what is hooked
  between its detach and a last `FreeLibrary` stays hooked without a record
  (`synapse_core.cpp:94`).
* The texture engine never loads anything in the layer: demand starts at one
  half, only `mark_dma_complete` can make the first mip resident, and neither it
  nor `get_safe_mip_level` has a caller in the layer (`its_engine_hardened.h:169`).
  A fence never delays anything: it counts as complete in every default build
  (`:227`), and a load racing an eviction can leave the fence of the one with the
  flag of the other (`:265`, `:273`).
* A resource larger than the cache is called an "uncacheable bypass" and cached
  all the same, so the usage exceeds the capacity (`its_cache_controller.h:99`).
* Two overlapping compilations both report success and the second drops the
  shader of the first (`shader_hotreload.h:138`): `expected` is loaded after the
  copy was made. A reader slower than 5 seconds follows a freed cache.
* Two overlapping model loads take the same version and slot
  (`ml_hotreload.h:120`); `decide_with_ab` returns a null model after the first
  load, when the previous version is 0 (`:67`).
* `mip_cap_` (`predictive_engine.h:112`) is set and never read.

## 7. Plan

Order: what carries the layer's guarantees first (done: ring, log, state machine,
configuration, routing, watcher, lifecycle, helper, texture streaming,
prefetching, hot reload), then the remaining parts with state of their own.

1. `JitCache`: the lock-free slots of `jit_specialization_cache.h`, where an
   insertion can pair the key of one entry with the shader of another.
2. `D3D12Layer`: interception through shared vtables, composed with
   `HelperHooks`.
3. `TwoDevices`: two cores over one log and one data directory, composing
   `DeviceLifecycle` and `WalRecovery`.
4. `Watchdog` (its unsigned time difference), `SchemaMigration` (paths against a
   reference definition), `DvfsController` (hysteresis on integers).
5. The replay buffer and registry of the Rust crates.

Proofs to add: an abstract specification of the log (what survives a kill) that
`WalRecovery` refines, another of the configuration as an atomic register that
`LiveConfig` refines while no updates overlap, and the invariants of the modules
above as they are written.

## 8. Not modelled

Floating-point learning and forecasting (the policy may choose anything in
`CommandRouting`), the encoding of hardware batches (never submitted), formatting
of reports, the dashboard, the command line tools and tests, the Vulkan SDK
headers, and whatever the plan above still lists. Those headers
(`src/vulkan_sdk`, about 60 000 lines of generated declarations and wrappers)
are six sevenths of the repository's C++; the layer's own code is about 10 000
lines, and shares of it in coverage figures should be read against that number.
`its_confidence_aggregator.h` averages floating-point confidences; nothing
includes `synapse_sync_manager.h`. Use counts, rewards and bandwidth estimates
are left out of the models that touch them. Payloads and timestamps of log
entries, the text of the config file (a file is the set of settings it makes; one
whose numbers do not parse ends the process and is outside the model), and
learning parameters that behave like the profile settings are abstracted.

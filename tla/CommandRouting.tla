--------------------------- MODULE CommandRouting ---------------------------
(***************************************************************************)
(* What the driver receives for the commands an application records: the   *)
(* entry points of the layer (layer_entry.cpp) and the handlers of         *)
(* SynapseCore behind them (synapse_core.cpp).  Threads record at the same *)
(* time, each into a command buffer of its own, as Vulkan requires; the    *)
(* config watcher switches features under them.  The learned policy that   *)
(* picks a backend may pick any.                                           *)
(*                                                                         *)
(* A command is its kind and whether its arguments are plain (one          *)
(* instance, zero offsets) or full.  The device is up throughout: an       *)
(* application may not destroy it while it records.  Telemetry, the log    *)
(* and rewards are the concern of other modules.  RoutingComponent states  *)
(* the assumptions about the constants.                                    *)
(***************************************************************************)
EXTENDS Naturals, Sequences, FiniteSets

CONSTANTS
  Threads,      \* recording threads; each stands for the handle of its buffer too
  AppCommands,  \* the commands they record
  GraphicsPipelines, ComputePipelines,   \* the pipelines they bind
  NoPipeline,   \* the shader hash of a buffer the layer knows nothing of
  MaxCommands   \* bound: commands recorded in all

Pipelines == GraphicsPipelines \cup ComputePipelines
Kinds == {"drawIndexed", "draw", "dispatch", "pushConstants", "bindDescriptorSets"}
Routed == {"drawIndexed", "draw", "dispatch"}
Backends == {"JIT", "HAI", "Oracle"}

VARIABLES
  allowed,    \* draw_telemetry_allowed_, from the hardware blocklist
  config,     \* the features that are on in the current config snapshot
  features,   \* the features for which is_available holds
  cmdState,   \* cmd_state_: the pipeline recorded for each known buffer
  counters,   \* backend_jit_count_, backend_hai_count_ and backend_oracle_count_
  call,       \* per thread: where it is in an intercepted call, and its locals
  live,       \* history: the buffers the application has allocated
  bound,      \* history: the graphics pipeline bound to each buffer
  orphans,    \* history: the buffers known to the layer that went away with their pool
  trace,      \* history: per thread, its commands and what the driver got for each
  raced       \* history: whether two threads ever incremented one counter at a time

vars == <<allowed, config, features, cmdState, counters, call, live, bound, orphans, trace, raced>>
shared == <<allowed, config>>
buffers == <<cmdState, live, bound, orphans>>
history == <<trace, raced>>

Outside == [pc |-> "outside", backend |-> "Oracle", cfg |-> {}, read |-> 0]

Init ==
  /\ allowed \in BOOLEAN
  /\ config = {"jit", "hai"}
  /\ features = {"jit", "hai"}
  /\ cmdState = [t \in {} |-> NoPipeline]
  /\ counters = [b \in Backends |-> 0]
  /\ call = [t \in Threads |-> Outside]
  /\ live = {}
  /\ bound = [t \in Threads |-> NoPipeline]
  /\ orphans = {}
  /\ trace = [t \in Threads |-> << >>]
  /\ raced = FALSE

Last(t) == trace[t][Len(trace[t])]

Command(t) == [kind |-> Last(t).kind, args |-> Last(t).args]

Recorded == {r \in Threads \X (1 .. MaxCommands) : r[2] \in DOMAIN trace[r[1]]}

\* The driver is called once with each of cmds, and the call is noted as taking path.
Deliver(t, path, cmds) ==
  /\ trace' = [trace EXCEPT ![t][Len(trace[t])] =
                  [Last(t) EXCEPT !.path = path, !.got = Last(t).got \o cmds]]
  /\ raced' = raced

Goto(t, pc) == call' = [call EXCEPT ![t].pc = pc]
Return(t) == call' = [call EXCEPT ![t] = Outside]

---------------------------------------------------------------------------
\* Command buffers

Allocate(t) ==
  /\ t \notin live
  /\ live' = live \cup {t}
  /\ UNCHANGED <<shared, features, cmdState, counters, call, bound, orphans, history>>

\* cmd_state_ with p as the shader hash of t.
Recording(t, p) == [u \in DOMAIN cmdState \cup {t} |-> IF u = t THEN p ELSE cmdState[u]]

\* vkCmdBindPipeline: notify_bind_pipeline, whatever the bind point, then the driver.
BindPipeline(t, p) ==
  /\ t \in live /\ call[t].pc = "outside"
  /\ cmdState' = Recording(t, p)
  /\ bound' = [bound EXCEPT ![t] = IF p \in GraphicsPipelines THEN p ELSE @]
  /\ UNCHANGED <<shared, features, counters, call, live, orphans, history>>

\* Variant: the state of a freed buffer is not purged.
FreeCommandBufferUnpurged(t) ==
  /\ t \in live /\ call[t].pc = "outside"
  /\ live' = live \ {t}
  /\ bound' = [bound EXCEPT ![t] = NoPipeline]
  /\ orphans' = orphans \ {t}
  /\ UNCHANGED <<shared, features, cmdState, counters, call, history>>

\* vkFreeCommandBuffers: notify_free_cmd_buf, then the driver.
FreeCommandBuffer(t) ==
  /\ t \in live /\ call[t].pc = "outside"
  /\ live' = live \ {t}
  /\ bound' = [bound EXCEPT ![t] = NoPipeline]
  /\ cmdState' = [u \in DOMAIN cmdState \ {t} |-> cmdState[u]]
  /\ orphans' = orphans \ {t}
  /\ UNCHANGED <<shared, features, counters, call, history>>

\* vkDestroyCommandPool is not hooked: the layer sees nothing.
DestroyPool(t) ==
  /\ t \in live /\ call[t].pc = "outside"
  /\ live' = live \ {t}
  /\ bound' = [bound EXCEPT ![t] = NoPipeline]
  /\ orphans' = orphans \cup ({t} \cap DOMAIN cmdState)
  /\ UNCHANGED <<shared, features, cmdState, counters, call, history>>

---------------------------------------------------------------------------
\* An intercepted command

\* Draws need a graphics pipeline.  The entry point finds the core under g_device_mutex
\* and calls its handler, of which handle_dispatch reads the config first.
Enter(t, cmd) ==
  /\ t \in live /\ call[t].pc = "outside"
  /\ Cardinality(Recorded) < MaxCommands
  /\ cmd.kind \in {"drawIndexed", "draw"} => bound[t] # NoPipeline
  /\ trace' = [trace EXCEPT ![t] = Append(@, [kind |-> cmd.kind, args |-> cmd.args, path |-> "open",
                                              got |-> << >>])]
  /\ raced' = raced
  /\ call' = [call EXCEPT ![t] = [Outside EXCEPT
                !.pc = IF cmd.kind \in Routed THEN "check" ELSE "forward",
                !.cfg = IF cmd.kind = "dispatch" THEN config ELSE {}]]
  /\ UNCHANGED <<shared, features, counters, buffers>>

\* vkCmdPushConstants and vkCmdBindDescriptorSets: the handler calls the driver, and so
\* does the entry point after it.  Noting a descriptor set gives the buffer an entry.
Forward(t) ==
  /\ call[t].pc = "forward"
  /\ cmdState' = IF Last(t).kind = "bindDescriptorSets" /\ t \notin DOMAIN cmdState
                 THEN Recording(t, NoPipeline) ELSE cmdState
  /\ Deliver(t, "direct", <<Command(t), Command(t)>>)
  /\ Return(t)
  /\ UNCHANGED <<shared, features, counters, live, bound, orphans>>

\* Draws on blocked hardware, and indexed draws without JIT, go straight to the driver.
Direct(t) ==
  \/ Last(t).kind \in {"drawIndexed", "draw"} /\ ~allowed
  \/ Last(t).kind = "drawIndexed" /\ "jit" \notin features

CheckDirect(t) ==
  /\ call[t].pc = "check"
  /\ Direct(t)
  /\ Deliver(t, "direct", <<Command(t)>>)
  /\ Return(t)
  /\ UNCHANGED <<shared, features, counters, buffers>>

\* capture_current_signature, which only reads, and ml_api_.decide, which may choose any.
CheckRouted(t) ==
  /\ call[t].pc = "check"
  /\ ~Direct(t)
  /\ \E b \in Backends : call' = [call EXCEPT ![t].pc = "count", ![t].backend = b]
  /\ UNCHANGED <<shared, features, counters, buffers, history>>

\* Variant: only dispatches to a backend that can be used are counted.
CountWriteUsable(t) ==
  /\ call[t].pc = "increment"
  /\ counters' = [counters EXCEPT ![call[t].backend] =
       IF call[t].backend = "JIT" /\ "jit" \notin features THEN @ ELSE call[t].read + 1]
  /\ Goto(t, "route")
  /\ UNCHANGED <<shared, features, buffers, history>>

\* Variant: the counter of the backend not taken is corrected downwards.
CountWriteDown(t) ==
  /\ call[t].pc = "increment"
  /\ counters' = [counters EXCEPT ![call[t].backend] = call[t].read - 1]
  /\ Goto(t, "route")
  /\ UNCHANGED <<shared, features, buffers, history>>

\* increment_backend_counter on a plain integer: a read and a write.
CountRead(t) ==
  /\ call[t].pc = "count"
  /\ call' = [call EXCEPT ![t].pc = "increment", ![t].read = counters[call[t].backend]]
  /\ raced' = (raced \/ \E u \in Threads \ {t} : /\ call[u].pc = "increment"
                                               /\ call[u].backend = call[t].backend)
  /\ UNCHANGED <<shared, features, counters, buffers, trace>>

CountWrite(t) ==
  /\ call[t].pc = "increment"
  /\ counters' = [counters EXCEPT ![call[t].backend] = call[t].read + 1]
  /\ Goto(t, "route")
  /\ UNCHANGED <<shared, features, buffers, history>>

\* Whether the chosen backend may be used now; handle_dispatch also asks the config it read.
Usable(t, f) ==
  f \in features /\ (Last(t).kind = "dispatch" => f \in call[t].cfg)

\* Variant: the fallback is called with the arguments of the JIT path.
OracleCommandReduced(t) == [kind |-> "drawIndexed", args |-> "plain"]

\* What the fallback hands to the driver.
OracleCommand(t) == Command(t)

\* Oracle was chosen, or the chosen backend is not available.
RouteOracle(t) ==
  /\ call[t].pc = "route"
  /\ \/ call[t].backend = "Oracle"
     \/ call[t].backend = "JIT" /\ ~Usable(t, "jit")
     \/ call[t].backend = "HAI" /\ ~Usable(t, "hai")
  /\ Deliver(t, "oracle", <<OracleCommand(t)>>)
  /\ Return(t)
  /\ UNCHANGED <<shared, features, counters, buffers>>

\* execute_hai_path: the draw is encoded into a batch that never reaches the driver.
RouteHai(t) ==
  /\ call[t].pc = "route"
  /\ call[t].backend = "HAI" /\ Usable(t, "hai")
  /\ Deliver(t, "hai", << >>)
  /\ Return(t)
  /\ UNCHANGED <<shared, features, counters, buffers>>

\* execute_jit_path: the cache is empty, so JIT is degraded (and with that available),
RouteJit(t) ==
  /\ call[t].pc = "route"
  /\ call[t].backend = "JIT" /\ Usable(t, "jit")
  /\ features' = features \cup {"jit"}
  /\ Goto(t, "jitDraw")
  /\ UNCHANGED <<shared, counters, buffers, history>>

\* the driver gets an indexed draw of the signature's count, one instance, no offsets,
JitCommand(t) ==
  [kind |-> "drawIndexed", args |-> IF Last(t).kind = "dispatch" THEN "empty" ELSE "plain"]

JitDraw(t) ==
  /\ call[t].pc = "jitDraw"
  /\ Deliver(t, "jit", <<JitCommand(t)>>)
  /\ Goto(t, "jitRestore")
  /\ UNCHANGED <<shared, features, counters, buffers>>

\* and JIT is restored, whatever happened to it in between.
JitRestore(t) ==
  /\ call[t].pc = "jitRestore"
  /\ features' = features \cup {"jit"}
  /\ Return(t)
  /\ UNCHANGED <<shared, counters, buffers, history>>

---------------------------------------------------------------------------
\* The config watcher (see LiveConfig): a new snapshot, then the switches one by one.

WatcherStores(on) ==
  /\ config' = on
  /\ UNCHANGED <<allowed, features, counters, call, buffers, history>>

WatcherSwitches(f) ==
  /\ features' = IF f \in config THEN features \cup {f} ELSE features \ {f}
  /\ UNCHANGED <<shared, counters, call, buffers, history>>

Inside(t) ==
  \/ Forward(t) \/ CheckDirect(t) \/ CheckRouted(t) \/ CountRead(t) \/ CountWrite(t)
  \/ RouteOracle(t) \/ RouteHai(t) \/ RouteJit(t) \/ JitDraw(t) \/ JitRestore(t)

Next ==
  \/ \E t \in Threads :
       \/ Allocate(t) \/ FreeCommandBuffer(t) \/ DestroyPool(t)
       \/ \E p \in Pipelines : BindPipeline(t, p)
       \/ \E cmd \in AppCommands : Enter(t, cmd)
       \/ Inside(t)
  \/ \E on \in SUBSET {"jit", "hai"} : WatcherStores(on)
  \/ \E f \in {"jit", "hai"} : WatcherSwitches(f)

Spec == Init /\ [][Next]_vars

---------------------------------------------------------------------------
\* Properties

Commands == [kind : Kinds, args : {"plain", "full", "empty"}]
Entry == [kind : Kinds, args : {"plain", "full"}, got : Seq(Commands),
          path : {"open", "direct", "oracle", "jit", "hai"}]

TypeOK ==
  /\ allowed \in BOOLEAN
  /\ config \subseteq {"jit", "hai"} /\ features \subseteq {"jit", "hai"}
  /\ DOMAIN cmdState \subseteq Threads
  /\ \A t \in DOMAIN cmdState : cmdState[t] \in Pipelines \cup {NoPipeline}
  /\ counters \in [Backends -> Nat]
  /\ call \in [Threads -> [pc : {"outside", "forward", "check", "count", "increment", "route",
                                "jitDraw", "jitRestore"},
                           backend : Backends, cfg : SUBSET {"jit", "hai"}, read : Nat]]
  /\ live \subseteq Threads
  /\ bound \in [Threads -> Pipelines \cup {NoPipeline}]
  /\ orphans \subseteq Threads
  /\ trace \in [Threads -> Seq(Entry)]
  /\ raced \in BOOLEAN

Entries == UNION {{trace[t][i] : i \in DOMAIN trace[t]} : t \in Threads}

(***************************************************************************)
(* "Pass-through to native driver": a draw or dispatch that ends on the    *)
(* Oracle, by choice or because the chosen backend was switched off at any *)
(* moment before it was used, reaches the driver once and unchanged; and   *)
(* on no path is anything drawn twice, however the features are switched   *)
(* while it is being routed.                                               *)
(***************************************************************************)
FallbackExact ==
  \A e \in Entries : e.kind \in Routed =>
    /\ e.path \in {"direct", "oracle"} => e.got = <<[kind |-> e.kind, args |-> e.args]>>
    /\ Len(e.got) <= 1

(***************************************************************************)
(* "Purges per-cmd-buf state to prevent unbounded map growth": the layer   *)
(* keeps state only for buffers that exist, and for those it never heard   *)
(* the end of because they went away with their pool.                      *)
(***************************************************************************)
StateOnlyForLive == DOMAIN cmdState \subseteq live \cup orphans

(***************************************************************************)
(* The backend counters of the session report add up to the draws and      *)
(* dispatches that were routed, whatever path they ended on, unless two    *)
(* threads incremented one of the plain integers at the same time.         *)
(***************************************************************************)
CountersComplete ==
  (\A t \in Threads : call[t].pc = "outside") /\ ~raced =>
    counters["JIT"] + counters["HAI"] + counters["Oracle"]
      = Cardinality({r \in Recorded : /\ trace[r[1]][r[2]].kind \in Routed
                                      /\ trace[r[1]][r[2]].path # "direct"})

---------------------------------------------------------------------------
\* What documents of the repository say and the code does not do

(***************************************************************************)
(* "All parameters are forwarded as-is" (SynapseLayer_vkCmdDrawIndexed),   *)
(* and the Oracle is a "native pass-through" (the README): whatever of a   *)
(* draw or dispatch the layer hands to the driver, after a miss of the JIT *)
(* cache too, is what was recorded.                                        *)
(***************************************************************************)
ForwardedAsIs ==
  \A e \in Entries : e.kind \in Routed =>
    \A i \in DOMAIN e.got : e.got[i] = [kind |-> e.kind, args |-> e.args]

=============================================================================

-------------------------- MODULE RoutingComponent --------------------------
(***************************************************************************)
(* CommandRouting under names of its own, so that it can be put beside the *)
(* other half of layer_entry.cpp (DeviceLifecycle) without their           *)
(* definitions meeting.                                                    *)
(***************************************************************************)
EXTENDS Naturals, Sequences, FiniteSets

CONSTANTS
  Recorders,   \* the Threads of CommandRouting; for the others, see there
  AppCommands, GraphicsPipelines, ComputePipelines, NoPipeline, MaxCommands

VARIABLES
  allowed, config, features, cmdState, counters, call,
  liveBuffers,   \* live of CommandRouting
  bound, orphans, trace, raced

Routing == INSTANCE CommandRouting WITH Threads <- Recorders, live <- liveBuffers

ASSUME AppCommandsAssumption ==
  AppCommands \subseteq [kind : Routing!Kinds, args : {"plain", "full"}]
ASSUME NoPipelineAssumption == NoPipeline \notin Routing!Pipelines
ASSUME MaxCommandsAssumption == MaxCommands \in Nat

RoutingSpec == Routing!Spec

\* The switches, the maps, the counters and the calls under way keep their types.
RoutingTypeOK == Routing!TypeOK

\* What falls back to the driver reaches it once and unchanged, and nothing is drawn twice.
FallbackExact == Routing!FallbackExact

\* The layer keeps state only for buffers that exist or went away with their pool.
StateOnlyForLive == Routing!StateOnlyForLive

\* The backend counters add up to the draws and dispatches that were routed.
CountersComplete == Routing!CountersComplete

\* What the layer hands to the driver is what was recorded; see CommandRouting.
ForwardedAsIs == Routing!ForwardedAsIs

=============================================================================

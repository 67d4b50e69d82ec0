---------------------------- MODULE MCLayerEntry ----------------------------
(***************************************************************************)
(* The two halves of layer_entry.cpp for TLC: the life of instances and    *)
(* devices, and the recording of commands on one device.  They share no    *)
(* state but the entry of the device, which exists as long as commands are *)
(* recorded on it, so each is checked while the other one rests.           *)
(***************************************************************************)
EXTENDS DeviceLifecycle, RoutingComponent, TLC
CONSTANTS a, b, k1, k2, balanced, saver, g, none
VARIABLE part   \* the half that is at work

OneThread == {a}
TwoThreads == {a, b}
TwoKeys == {k1, k2}
TwoProfiles == {balanced, saver}
GraphicsPipeline == {g}

\* Enough for two threads to meet on every switch, counter and map; indexed draws are routed
\* like the others.
Draws == {[kind |-> k, args |-> "full"] : k \in {"draw", "dispatch", "bindDescriptorSets"}}

IndexedDraw == {[kind |-> "drawIndexed", args |-> "full"]}

routingVars == <<allowed, config, features, cmdState, counters, call, liveBuffers, bound, orphans,
                 trace, raced>>

\* The half that rests starts in any one of its initial states.
LayerInit ==
  /\ Init /\ Routing!Init
  /\ \/ part = "lifecycle" /\ allowed
     \/ part = "routing"

LayerNext ==
  \/ part = "lifecycle" /\ Next /\ UNCHANGED <<routingVars, part>>
  \/ part = "routing" /\ Routing!Next /\ UNCHANGED <<vars, part>>

LayerSpec == LayerInit /\ [][LayerNext]_<<vars, routingVars, part>>

\* Both halves have the same two threads.
ThreadSymmetry == Permutations(Threads)
=============================================================================

------------------------------ MODULE HotReload ------------------------------
(***************************************************************************)
(* The two classes of hotreload/ that replace what others are using:       *)
(* ShaderReload, and ModelSwap with variables of its own.  They share no   *)
(* state and call nothing of each other.                                   *)
(***************************************************************************)
EXTENDS ShaderReload

CONSTANTS
  Loaders, Readers, MaxLoads   \* see ModelSwap

VARIABLES slots, current, previous, holder, loads, loadsOverlapped, loader, reader

Models == INSTANCE ModelSwap WITH overlapped <- loadsOverlapped

\* ModelServed of ModelSwap: a reader of the lock-free slots gets the model of the version it
\* loaded, whole, although loads go on.
ModelServed == Models!ModelServed

=============================================================================

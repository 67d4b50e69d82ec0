-------------------------- MODULE MCConfigWatcher --------------------------
(* Instances of ConfigWatcher for TLC; its bounds are all in the configurations. *)
EXTENDS WatcherComponent
=============================================================================

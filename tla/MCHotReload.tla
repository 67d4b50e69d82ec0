----------------------------- MODULE MCHotReload -----------------------------
(***************************************************************************)
(* HotReload for TLC.  The two classes share no state, so each is checked  *)
(* while the other one rests.                                              *)
(***************************************************************************)
EXTENDS HotReload, TLC
CONSTANTS t1, t2, s1, s2
VARIABLE part   \* the class that is at work

TwoThreads == {t1, t2}
TwoShaders == {s1, s2}

modelVars == <<slots, current, previous, holder, loads, loadsOverlapped, loader, reader>>

ReloadInit == Init /\ Models!Init /\ part \in {"shaders", "models"}

ReloadNext ==
  \/ part = "shaders" /\ Next /\ UNCHANGED <<modelVars, part>>
  \/ part = "models" /\ Models!Next /\ UNCHANGED <<vars, part>>

ReloadSpec == ReloadInit /\ [][ReloadNext]_<<vars, modelVars, part>>

ThreadSymmetry == Permutations(Threads)
=============================================================================

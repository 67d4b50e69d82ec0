--------------------------- MODULE MCSynapseCore ---------------------------
(***************************************************************************)
(* What the constructor and the destructor of SynapseCore drive, for TLC:  *)
(* the state machine of the core, and the helper DLL it attaches.  The two *)
(* share no state, so each is checked while the other one rests.           *)
(***************************************************************************)
EXTENDS HelperHooks, StateComponent, TLC
CONSTANTS t1, t2, t3, f, g, h, c1, c2, owner, a, b, c
VARIABLE part   \* the one that is at work

ThreeTargets == {t1, t2, t3}
ThreeFunctions == {f, g, h}
\* Two of the pointers lead to the same function.
Originals == [t \in Targets |-> IF t = t3 THEN g ELSE f]
TwoCores == {c1, c2}
ThreeOthers == {a, b, c}

stateVars == <<state, log, count, call, script, life, path>>

\* The DLL may be loaded or not at first; while it rests one of the two is enough.
CoreInit ==
  /\ Init /\ Machine!Init
  /\ \/ part = "helper"
     \/ part = "state" /\ refs = 0

CoreNext ==
  \/ part = "helper" /\ Next /\ UNCHANGED <<stateVars, part>>
  \/ part = "state" /\ Machine!Next /\ UNCHANGED <<vars, part>>

CoreSpec == CoreInit /\ [][CoreNext]_<<vars, stateVars, part>>

OtherSymmetry == Permutations(Others)
=============================================================================

--------------------------- MODULE StateComponent ---------------------------
(***************************************************************************)
(* AtomicState under names of its own, so that it can be put beside the    *)
(* helper DLL that the same constructor and destructor drive (HelperHooks) *)
(* without their definitions meeting.                                      *)
(***************************************************************************)
EXTENDS Naturals, Sequences

CONSTANTS Core, Others, MaxTransitions   \* see AtomicState

ASSUME StateThreadsAssumption == Core \notin Others
ASSUME StateBoundAssumption == MaxTransitions \in Nat

VARIABLES state, log, count, call, script, life, path

Machine == INSTANCE AtomicState

StateSpec == Machine!Spec

\* The committed transitions are one walk from Uninitialized to the current state.
OneWalk == Machine!OneWalk

\* Every committed transition has one record in history_, or a thread about to write it.
EveryTransitionLogged == Machine!EveryTransitionLogged

\* transition_count_ and history_ agree with the committed transitions in the end.
CountMatchesLog == Machine!CountMatchesLog

\* current_state_ only moves along the edges of is_valid_transition.
OnlyValidMoves == Machine!OnlyValidMoves

=============================================================================

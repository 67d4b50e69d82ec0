---------------------------- MODULE AtomicState ----------------------------
(***************************************************************************)
(* AtomicStateMachine (atomic/atomic_state.h) and its use by SynapseCore   *)
(* (synapse_core.cpp).  The Core thread constructs the layer, which asks   *)
(* for Initializing and then Active, and destroys it, which asks for       *)
(* ShuttingDown and then Uninitialized; in between Others ask for any      *)
(* state through state_machine().  transition is split into the load of    *)
(* current_state_, the compare-exchange, the append to history_ and the    *)
(* increment of transition_count_.                                         *)
(*                                                                         *)
(* A relaxed load may return an older value of current_state_.  It then    *)
(* behaves like a load at the moment that value was current, and since any *)
(* time may pass between Load and the compare-exchange here, such loads    *)
(* are covered.  StateComponent states the assumptions about the constants.*)
(***************************************************************************)
EXTENDS Integers, Sequences

CONSTANTS
  Core,            \* the thread that constructs and destroys the layer
  Others,          \* the threads that use state_machine()
  MaxTransitions   \* bound: no thread of Others starts once this many committed

VARIABLES
  state,     \* current_state_
  log,       \* history_: each record also carries, as history, its place n in path
  count,     \* transition_count_
  call,      \* per thread: where it is in transition, and its locals
  script,    \* what Core still asks for
  life,      \* "constructing", "alive", "destroying" or "destroyed"
  path       \* history: the committed transitions in the order they took effect

vars == <<state, log, count, call, script, life, path>>

Threads == Others \cup {Core}

States == {"Uninitialized", "Initializing", "Active", "Degraded", "Suspended",
           "ShuttingDown", "Crashed"}

Edges == [from : States, to : States]

Idle == [pc |-> "idle", expected |-> "Uninitialized", target |-> "Uninitialized", n |-> 0]

Construction == <<"Initializing", "Active">>
Destruction  == <<"ShuttingDown", "Uninitialized">>

Init ==
  /\ state = "Uninitialized"
  /\ log = << >>
  /\ count = 0
  /\ call = [t \in Threads |-> Idle]
  /\ script = Construction
  /\ life = "constructing"
  /\ path = << >>

\* The switch of is_valid_transition.
Successors(from) ==
  CASE from = "Uninitialized" -> {"Initializing"}
    [] from = "Initializing"  -> {"Active", "Crashed"}
    [] from = "Active"        -> {"Degraded", "Suspended", "ShuttingDown", "Crashed"}
    [] from = "Degraded"      -> {"Active", "Suspended", "Crashed"}
    [] from = "Suspended"     -> {"Active", "Crashed"}
    [] from = "ShuttingDown"  -> {"Uninitialized"}
    [] from = "Crashed"       -> {"Uninitialized"}

IsValid(from, to) == to \in Successors(from)

---------------------------------------------------------------------------
\* transition

\* The load; an invalid request returns false at once.
Load(t, target) ==
  /\ call[t].pc = "idle"
  /\ call' = [call EXCEPT ![t] =
       IF IsValid(state, target)
       THEN [pc |-> "swap", expected |-> state, target |-> target, n |-> 0]
       ELSE Idle]

\* Variant: a plain store.
SwapBlindly(t) ==
  /\ call[t].pc = "swap"
  /\ state' = call[t].target
  /\ path' = Append(path, [from |-> call[t].expected, to |-> call[t].target])
  /\ call' = [call EXCEPT ![t].pc = "log", ![t].n = Len(path) + 1]
  /\ UNCHANGED <<log, count, script, life>>

Swap(t) ==
  /\ call[t].pc = "swap"
  /\ state = call[t].expected
  /\ state' = call[t].target
  /\ path' = Append(path, [from |-> call[t].expected, to |-> call[t].target])
  /\ call' = [call EXCEPT ![t].pc = "log", ![t].n = Len(path) + 1]
  /\ UNCHANGED <<log, count, script, life>>

\* Variant: a lost race is counted as well.
SwapFailsCounts(t) ==
  /\ call[t].pc = "swap"
  /\ state # call[t].expected
  /\ call' = [call EXCEPT ![t].pc = "count"]
  /\ UNCHANGED <<state, log, count, script, life, path>>

\* Another thread was first: transition returns false.
SwapFails(t) ==
  /\ call[t].pc = "swap"
  /\ state # call[t].expected
  /\ call' = [call EXCEPT ![t] = Idle]
  /\ UNCHANGED <<state, log, count, script, life, path>>

\* Variant: the record takes the state read from the machine, not the one swapped out.
LogReread(t) ==
  /\ call[t].pc = "log"
  /\ log' = Append(log, [from |-> call[t].expected, to |-> state, n |-> call[t].n])
  /\ call' = [call EXCEPT ![t].pc = "count"]
  /\ UNCHANGED <<state, count, script, life, path>>

\* log_transition, under history_mutex_.
Log(t) ==
  /\ call[t].pc = "log"
  /\ log' = Append(log, [from |-> call[t].expected, to |-> call[t].target, n |-> call[t].n])
  /\ call' = [call EXCEPT ![t].pc = "count"]
  /\ UNCHANGED <<state, count, script, life, path>>

Count(t) ==
  /\ call[t].pc = "count"
  /\ count' = count + 1
  /\ call' = [call EXCEPT ![t] = Idle]
  /\ UNCHANGED <<state, log, script, life, path>>

---------------------------------------------------------------------------
\* Who calls it

\* The constructor and the destructor ignore what transition returns.
CoreAsks ==
  /\ script # << >>
  /\ Load(Core, Head(script))
  /\ script' = Tail(script)
  /\ UNCHANGED <<state, log, count, life, path>>

Constructed ==
  /\ life = "constructing" /\ script = << >> /\ call[Core].pc = "idle"
  /\ life' = "alive"
  /\ UNCHANGED <<state, log, count, call, script, path>>

OtherAsks(t, target) ==
  /\ life = "alive"
  /\ Len(path) < MaxTransitions
  /\ Load(t, target)
  /\ UNCHANGED <<state, log, count, script, life, path>>

\* The device is destroyed when no thread uses it any more.
Destroy ==
  /\ life = "alive"
  /\ \A t \in Others : call[t].pc = "idle"
  /\ life' = "destroying"
  /\ script' = Destruction
  /\ UNCHANGED <<state, log, count, call, path>>

Destroyed ==
  /\ life = "destroying" /\ script = << >> /\ call[Core].pc = "idle"
  /\ life' = "destroyed"
  /\ UNCHANGED <<state, log, count, call, script, path>>

Next ==
  \/ CoreAsks \/ Constructed \/ Destroy \/ Destroyed
  \/ \E t \in Others, target \in States : OtherAsks(t, target)
  \/ \E t \in Threads : Swap(t) \/ SwapFails(t) \/ Log(t) \/ Count(t)

Spec == Init /\ [][Next]_vars

---------------------------------------------------------------------------
\* Properties

Calls == [pc : {"idle", "swap", "log", "count"}, expected : States, target : States, n : Nat]

TypeOK ==
  /\ state \in States
  /\ log \in Seq([from : States, to : States, n : Nat])
  /\ count \in Nat
  /\ call \in [Threads -> Calls]
  /\ script \in Seq(States)
  /\ life \in {"constructing", "alive", "destroying", "destroyed"}
  /\ path \in Seq(Edges)

(***************************************************************************)
(* Whatever the threads do between loading the state and swapping it, the  *)
(* state only ever moves along an edge that is_valid_transition allows,    *)
(* even when it went away and came back in between.                        *)
(***************************************************************************)
OnlyValidMoves == [][state' # state => IsValid(state, state')]_vars

(***************************************************************************)
(* The committed transitions form one walk from Uninitialized to the       *)
(* current state: two threads never both leave the same visit to a state.  *)
(***************************************************************************)
OneWalk ==
  /\ state = IF path = << >> THEN "Uninitialized" ELSE path[Len(path)].to
  /\ path # << >> => path[1].from = "Uninitialized"
  /\ \A i \in 2 .. Len(path) : path[i].from = path[i - 1].to

\* The transition of thread t has taken effect and is not in history_ yet.
Unlogged(t) == call[t].pc = "log"

(***************************************************************************)
(* "Every transition is logged": each committed transition has exactly one *)
(* record, with its true endpoints, or a thread that is about to write it; *)
(* nothing else is in history_.                                            *)
(***************************************************************************)
EveryTransitionLogged ==
  /\ \A i \in 1 .. Len(log) :
       /\ log[i].n \in 1 .. Len(path)
       /\ path[log[i].n] = [from |-> log[i].from, to |-> log[i].to]
  /\ \A i, j \in 1 .. Len(log) : log[i].n = log[j].n => i = j
  /\ \A n \in 1 .. Len(path) :
       \/ \E i \in 1 .. Len(log) : log[i].n = n
       \/ \E t \in Threads : Unlogged(t) /\ call[t].n = n

(***************************************************************************)
(* transition_count_ never runs ahead of history_, and when the layer is   *)
(* destroyed the two agree with the number of transitions that took effect.*)
(***************************************************************************)
CountMatchesLog ==
  /\ count <= Len(log)
  /\ life = "destroyed" => count = Len(log) /\ Len(log) = Len(path)

\* What a thread inside transition knows, for the inductive proof of EveryTransitionLogged.
InFlightKnown ==
  \A t \in Threads : Unlogged(t) =>
    /\ call[t].n \in 1 .. Len(path)
    /\ path[call[t].n] = [from |-> call[t].expected, to |-> call[t].target]
    /\ \A i \in 1 .. Len(log) : log[i].n # call[t].n
    /\ \A u \in Threads \ {t} : Unlogged(u) => call[u].n # call[t].n

\* A thread about to swap has checked its request against the state it expects.
SwapsAreValid ==
  \A t \in Threads : call[t].pc = "swap" => IsValid(call[t].expected, call[t].target)

(***************************************************************************)
(* The audit trail is sound: one walk, every move of it valid and logged.  *)
(***************************************************************************)
AuditInv == OneWalk /\ EveryTransitionLogged /\ InFlightKnown /\ SwapsAreValid

=============================================================================

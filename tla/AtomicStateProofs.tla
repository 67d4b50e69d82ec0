------------------------- MODULE AtomicStateProofs -------------------------
(* Proofs about AtomicState, for any set of threads and any bound. *)
EXTENDS StateComponent, FiniteSetTheorems, TLAPS

\* is_valid_transition only relates states to states.
LEMMA SuccessorsAreStates == \A s \in Machine!States : Machine!Successors(s) \subseteq Machine!States
BY DEF Machine!Successors, Machine!States

\* transition and its callers keep every variable in its type.
LEMMA TypeInductive == Machine!TypeOK /\ [Machine!Next]_(Machine!vars) => Machine!TypeOK'
<1> SUFFICES ASSUME Machine!TypeOK, [Machine!Next]_(Machine!vars) PROVE Machine!TypeOK'
  OBVIOUS
<1> USE DEF Machine!TypeOK, Machine!Calls, Machine!Edges
<1>0. Machine!Idle \in Machine!Calls
  BY DEF Machine!Idle, Machine!States
<1>1. ASSUME Machine!CoreAsks PROVE Machine!TypeOK'
  <2>1. Head(script) \in Machine!States /\ Tail(script) \in Seq(Machine!States) /\ Core \in Machine!Threads
    BY <1>1 DEF Machine!CoreAsks, Machine!Threads
  <2> QED BY <1>0, <1>1, <2>1 DEF Machine!CoreAsks, Machine!Load
<1>2. CASE Machine!Constructed
  BY <1>2 DEF Machine!Constructed
<1>3. CASE Machine!Destroy
  <2>1. Machine!Destruction \in Seq(Machine!States)
    BY DEF Machine!Destruction, Machine!States
  <2> QED BY <1>3, <2>1 DEF Machine!Destroy
<1>4. CASE Machine!Destroyed
  BY <1>4 DEF Machine!Destroyed
<1>5. ASSUME NEW t \in Others, NEW target \in Machine!States, Machine!OtherAsks(t, target)
      PROVE Machine!TypeOK'
  BY <1>0, <1>5 DEF Machine!OtherAsks, Machine!Load, Machine!Threads
<1>6. ASSUME NEW t \in Machine!Threads, Machine!Swap(t) PROVE Machine!TypeOK'
  <2>1. [from |-> call[t].expected, to |-> call[t].target] \in [from : Machine!States, to : Machine!States]
    OBVIOUS
  <2>2. path' \in Seq(Machine!Edges)
    BY <1>6, <2>1 DEF Machine!Swap
  <2>3. call' \in [Machine!Threads -> Machine!Calls]
    <3>1. Len(path) + 1 \in Nat
      OBVIOUS
    <3> QED BY <1>6, <3>1 DEF Machine!Swap
  <2> QED BY <1>6, <2>2, <2>3 DEF Machine!Swap
<1>7. ASSUME NEW t \in Machine!Threads, Machine!SwapFails(t) PROVE Machine!TypeOK'
  BY <1>0, <1>7 DEF Machine!SwapFails
<1>8. ASSUME NEW t \in Machine!Threads, Machine!Log(t) PROVE Machine!TypeOK'
  <2>1. [from |-> call[t].expected, to |-> call[t].target, n |-> call[t].n]
          \in [from : Machine!States, to : Machine!States, n : Nat]
    OBVIOUS
  <2>2. log' \in Seq([from : Machine!States, to : Machine!States, n : Nat])
    BY <1>8, <2>1 DEF Machine!Log
  <2>3. call' \in [Machine!Threads -> Machine!Calls]
    BY <1>8 DEF Machine!Log
  <2> QED BY <1>8, <2>2, <2>3 DEF Machine!Log
<1>9. ASSUME NEW t \in Machine!Threads, Machine!Count(t) PROVE Machine!TypeOK'
  BY <1>0, <1>9 DEF Machine!Count
<1>10. CASE UNCHANGED Machine!vars
  BY <1>10 DEF Machine!vars
<1> QED
  BY <1>1, <1>2, <1>3, <1>4, <1>5, <1>6, <1>7, <1>8, <1>9, <1>10 DEF Machine!Next

\* The initial state is well typed.
LEMMA TypeInitial == Machine!Init => Machine!TypeOK
BY DEF Machine!Init, Machine!TypeOK, Machine!Construction, Machine!Calls, Machine!Idle,
       Machine!States, Machine!Edges

\* Type correctness of the state machine and its callers.
THEOREM StateTypeCorrect == StateSpec => []Machine!TypeOK
BY TypeInitial, TypeInductive, PTL DEF StateSpec, Machine!Spec

---------------------------------------------------------------------------
\* The audit trail

\* A request that passes the check at its load keeps the four parts of the invariant.
LEMMA LoadKeepsAudit ==
  ASSUME Machine!TypeOK, Machine!AuditInv, NEW t \in Machine!Threads,
         NEW target \in Machine!States, Machine!Load(t, target),
         UNCHANGED <<state, log, path>>
  PROVE  Machine!AuditInv'
<1>1. \A u \in Machine!Threads : Machine!Unlogged(u)' <=> Machine!Unlogged(u)
  BY DEF Machine!Load, Machine!Unlogged, Machine!Idle, Machine!TypeOK
<1>2. \A u \in Machine!Threads : Machine!Unlogged(u) => call'[u] = call[u]
  BY DEF Machine!Load, Machine!Unlogged, Machine!TypeOK
<1>3. Machine!OneWalk'
  BY DEF Machine!AuditInv, Machine!OneWalk
<1>4. Machine!EveryTransitionLogged'
  BY <1>1, <1>2 DEF Machine!AuditInv, Machine!EveryTransitionLogged
<1>5. Machine!InFlightKnown'
  BY <1>1, <1>2 DEF Machine!AuditInv, Machine!InFlightKnown
<1>6. Machine!SwapsAreValid'
  BY DEF Machine!AuditInv, Machine!SwapsAreValid, Machine!Load, Machine!Idle, Machine!TypeOK
<1> QED BY <1>3, <1>4, <1>5, <1>6 DEF Machine!AuditInv

\* A step that touches neither the trail nor a thread about to write to it.
LEMMA QuietKeepsAudit ==
  ASSUME Machine!TypeOK, Machine!AuditInv, UNCHANGED <<state, log, path>>,
         NEW t \in Machine!Threads, call[t].pc # "log", call' = [call EXCEPT ![t] = Machine!Idle]
  PROVE  Machine!AuditInv'
<1>1. \A u \in Machine!Threads : Machine!Unlogged(u)' <=> Machine!Unlogged(u)
  BY DEF Machine!Unlogged, Machine!Idle, Machine!TypeOK
<1>2. \A u \in Machine!Threads : Machine!Unlogged(u) => call'[u] = call[u]
  BY DEF Machine!Unlogged, Machine!TypeOK
<1>3. Machine!OneWalk'
  BY DEF Machine!AuditInv, Machine!OneWalk
<1>4. Machine!EveryTransitionLogged'
  BY <1>1, <1>2 DEF Machine!AuditInv, Machine!EveryTransitionLogged
<1>5. Machine!InFlightKnown'
  BY <1>1, <1>2 DEF Machine!AuditInv, Machine!InFlightKnown
<1>6. Machine!SwapsAreValid'
  BY DEF Machine!AuditInv, Machine!SwapsAreValid, Machine!Idle, Machine!TypeOK
<1> QED BY <1>3, <1>4, <1>5, <1>6 DEF Machine!AuditInv

\* Steps of the callers that leave the machine alone.
LEMMA StutterKeepsAudit ==
  ASSUME Machine!AuditInv, UNCHANGED <<state, log, path, call>>
  PROVE  Machine!AuditInv'
BY DEF Machine!AuditInv, Machine!OneWalk, Machine!EveryTransitionLogged, Machine!InFlightKnown,
       Machine!SwapsAreValid, Machine!Unlogged

\* A successful compare-exchange extends the walk by one valid, not yet logged, edge.
LEMMA SwapKeepsAudit ==
  ASSUME Machine!TypeOK, Machine!AuditInv, NEW t \in Machine!Threads, Machine!Swap(t)
  PROVE  Machine!AuditInv'
<1> DEFINE m == Len(path)
           e == [from |-> call[t].expected, to |-> call[t].target]
<1>0. m \in Nat
  BY DEF Machine!TypeOK
<1>1. Len(path') = m + 1 /\ path'[m + 1] = e /\ \A i \in 1 .. m : path'[i] = path[i]
  BY DEF Machine!Swap, Machine!TypeOK, Machine!Edges
<1>2. call'[t].pc = "log" /\ call'[t].n = m + 1
      /\ call'[t].expected = call[t].expected /\ call'[t].target = call[t].target
  BY DEF Machine!Swap, Machine!TypeOK, Machine!Calls
<1>3. \A u \in Machine!Threads \ {t} : call'[u] = call[u]
  BY DEF Machine!Swap, Machine!TypeOK
<1>4. log' = log /\ ~Machine!Unlogged(t) /\ state = call[t].expected /\ state' = call[t].target
  BY DEF Machine!Swap, Machine!Unlogged
<1>41. \A x \in 1 .. m : x # m + 1
  BY <1>0
<1>5. Machine!OneWalk'
  <2>1. path' # << >>
    BY <1>0, <1>1
  <2>2. state' = path'[Len(path')].to
    BY <1>1, <1>4
  <2>3. path'[1].from = "Uninitialized"
    <3>1. CASE path = << >>
      <4>1. m = 0
        BY <3>1
      <4> QED BY <1>1, <1>4, <3>1, <4>1 DEF Machine!AuditInv, Machine!OneWalk
    <3>2. CASE path # << >>
      <4>1. 1 \in 1 .. m
        BY <1>0, <3>2 DEF Machine!TypeOK
      <4> QED BY <1>1, <3>2, <4>1 DEF Machine!AuditInv, Machine!OneWalk
    <3> QED BY <3>1, <3>2
  <2>4. ASSUME NEW i \in 2 .. Len(path') PROVE path'[i].from = path'[i - 1].to
    <3>1. CASE i = m + 1
      <4>1. path # << >> /\ i - 1 = m /\ m \in 1 .. m
        BY <1>0, <3>1
      <4> QED BY <1>1, <1>4, <3>1, <4>1 DEF Machine!AuditInv, Machine!OneWalk
    <3>2. CASE i # m + 1
      <4>1. i \in 2 .. m /\ i - 1 \in 1 .. m /\ i \in 1 .. m
        BY <1>0, <1>1, <3>2
      <4> QED BY <1>1, <4>1 DEF Machine!AuditInv, Machine!OneWalk
    <3> QED BY <3>1, <3>2
  <2> QED BY <2>1, <2>2, <2>3, <2>4 DEF Machine!OneWalk
<1>6. Machine!EveryTransitionLogged'
  <2>1. \A i \in 1 .. Len(log) :
          /\ log[i].n \in 1 .. Len(path')
          /\ path'[log[i].n] = [from |-> log[i].from, to |-> log[i].to]
    BY <1>0, <1>1 DEF Machine!AuditInv, Machine!EveryTransitionLogged
  <2>2. ASSUME NEW n \in 1 .. Len(path')
        PROVE  (\E i \in 1 .. Len(log) : log[i].n = n)
                 \/ \E u \in Machine!Threads : Machine!Unlogged(u)' /\ call'[u].n = n
    <3>1. CASE n = m + 1
      BY <1>2, <3>1 DEF Machine!Unlogged
    <3>2. CASE n # m + 1
      <4>1. n \in 1 .. Len(path)
        BY <1>0, <1>1, <3>2
      <4>2. \A u \in Machine!Threads : Machine!Unlogged(u) => Machine!Unlogged(u)' /\ call'[u] = call[u]
        BY <1>3, <1>4 DEF Machine!Unlogged
      <4> QED BY <4>1, <4>2 DEF Machine!AuditInv, Machine!EveryTransitionLogged
    <3> QED BY <3>1, <3>2
  <2> QED BY <1>4, <2>1, <2>2 DEF Machine!AuditInv, Machine!EveryTransitionLogged
<1>7. Machine!InFlightKnown'
  <2>1. ASSUME NEW u \in Machine!Threads, Machine!Unlogged(u)'
        PROVE  /\ call'[u].n \in 1 .. Len(path')
               /\ path'[call'[u].n] = [from |-> call'[u].expected, to |-> call'[u].target]
               /\ \A i \in 1 .. Len(log) : log[i].n # call'[u].n
               /\ \A w \in Machine!Threads \ {u} : Machine!Unlogged(w)' => call'[w].n # call'[u].n
    <3>0. \A w \in Machine!Threads \ {t} : Machine!Unlogged(w)' =>
            Machine!Unlogged(w) /\ call[w].n \in 1 .. m /\ call'[w].n # m + 1
      <4> SUFFICES ASSUME NEW w \in Machine!Threads \ {t}, Machine!Unlogged(w)'
                   PROVE  Machine!Unlogged(w) /\ call[w].n \in 1 .. m /\ call'[w].n # m + 1
        OBVIOUS
      <4>1. Machine!Unlogged(w) /\ call'[w] = call[w]
        BY <1>3 DEF Machine!Unlogged
      <4>2. call[w].n \in 1 .. m
        BY <4>1 DEF Machine!AuditInv, Machine!InFlightKnown
      <4> QED BY <1>41, <4>1, <4>2
    <3>1. CASE u = t
      <4>1. \A i \in 1 .. Len(log) : log[i].n # m + 1
        BY <1>41 DEF Machine!AuditInv, Machine!EveryTransitionLogged
      <4> QED BY <1>0, <1>1, <1>2, <3>0, <3>1, <4>1
    <3>2. CASE u # t
      <4>1. Machine!Unlogged(u) /\ call'[u] = call[u] /\ call[u].n \in 1 .. m /\ call[u].n # m + 1
        BY <1>3, <2>1, <3>0, <3>2
      <4>2. \A w \in Machine!Threads \ {u} : Machine!Unlogged(w)' => call'[w].n # call[u].n
        <5> SUFFICES ASSUME NEW w \in Machine!Threads \ {u}, Machine!Unlogged(w)'
                     PROVE  call'[w].n # call[u].n
          OBVIOUS
        <5>1. CASE w = t
          BY <1>2, <4>1, <5>1
        <5>2. CASE w # t
          <6>1. Machine!Unlogged(w) /\ call'[w] = call[w]
            BY <1>3, <3>0, <5>2
          <6> QED BY <4>1, <6>1 DEF Machine!AuditInv, Machine!InFlightKnown
        <5> QED BY <5>1, <5>2
      <4> QED BY <1>0, <1>1, <4>1, <4>2 DEF Machine!AuditInv, Machine!InFlightKnown
    <3> QED BY <3>1, <3>2
  <2> QED BY <1>4, <2>1 DEF Machine!InFlightKnown
<1>8. Machine!SwapsAreValid'
  BY <1>2, <1>3 DEF Machine!AuditInv, Machine!SwapsAreValid
<1> QED BY <1>5, <1>6, <1>7, <1>8 DEF Machine!AuditInv

\* The thread that swapped writes the record nobody else has written.
LEMMA LogKeepsAudit ==
  ASSUME Machine!TypeOK, Machine!AuditInv, NEW t \in Machine!Threads, Machine!Log(t)
  PROVE  Machine!AuditInv'
<1> DEFINE k == Len(log)
           r == [from |-> call[t].expected, to |-> call[t].target, n |-> call[t].n]
<1>0. k \in Nat
  BY DEF Machine!TypeOK
<1>1. Len(log') = k + 1 /\ log'[k + 1] = r /\ \A i \in 1 .. k : log'[i] = log[i]
  BY DEF Machine!Log, Machine!TypeOK
<1>2. Machine!Unlogged(t) /\ ~Machine!Unlogged(t)' /\ path' = path /\ state' = state
      /\ call'[t].pc = "count" /\ (\A u \in Machine!Threads \ {t} : call'[u] = call[u])
  BY DEF Machine!Log, Machine!Unlogged, Machine!TypeOK, Machine!Calls
<1>3. /\ r.n \in 1 .. Len(path)
      /\ path[r.n] = [from |-> r.from, to |-> r.to]
      /\ \A i \in 1 .. k : log[i].n # r.n
  BY <1>2 DEF Machine!AuditInv, Machine!InFlightKnown
<1>4. Machine!OneWalk'
  BY <1>2 DEF Machine!AuditInv, Machine!OneWalk
<1>5. Machine!EveryTransitionLogged'
  <2>1. ASSUME NEW i \in 1 .. Len(log')
        PROVE  /\ log'[i].n \in 1 .. Len(path)
               /\ path[log'[i].n] = [from |-> log'[i].from, to |-> log'[i].to]
    <3>1. i = k + 1 \/ i \in 1 .. k
      BY <1>0, <1>1
    <3> QED BY <1>1, <1>3, <3>1 DEF Machine!AuditInv, Machine!EveryTransitionLogged
  <2>2. ASSUME NEW i \in 1 .. Len(log'), NEW j \in 1 .. Len(log'), log'[i].n = log'[j].n
        PROVE  i = j
    <3>1. (i = k + 1 \/ i \in 1 .. k) /\ (j = k + 1 \/ j \in 1 .. k)
      BY <1>0, <1>1
    <3> QED BY <1>1, <1>3, <2>2, <3>1 DEF Machine!AuditInv, Machine!EveryTransitionLogged
  <2>3. ASSUME NEW n \in 1 .. Len(path)
        PROVE  (\E i \in 1 .. Len(log') : log'[i].n = n)
                 \/ \E u \in Machine!Threads : Machine!Unlogged(u)' /\ call'[u].n = n
    <3>1. CASE \E i \in 1 .. k : log[i].n = n
      BY <1>0, <1>1, <3>1
    <3>2. CASE n = call[t].n
      <4>1. k + 1 \in 1 .. Len(log') /\ log'[k + 1].n = n
        BY <1>0, <1>1, <3>2
      <4> QED BY <4>1
    <3>3. ASSUME NEW u \in Machine!Threads \ {t}, Machine!Unlogged(u), call[u].n = n
          PROVE  \E w \in Machine!Threads : Machine!Unlogged(w)' /\ call'[w].n = n
      BY <1>2, <3>3 DEF Machine!Unlogged
    <3> QED BY <3>1, <3>2, <3>3 DEF Machine!AuditInv, Machine!EveryTransitionLogged
  <2> QED BY <1>2, <2>1, <2>2, <2>3 DEF Machine!EveryTransitionLogged
<1>6. Machine!InFlightKnown'
  <2>1. ASSUME NEW u \in Machine!Threads, Machine!Unlogged(u)'
        PROVE  /\ call'[u].n \in 1 .. Len(path)
               /\ path[call'[u].n] = [from |-> call'[u].expected, to |-> call'[u].target]
               /\ \A i \in 1 .. Len(log') : log'[i].n # call'[u].n
               /\ \A w \in Machine!Threads \ {u} : Machine!Unlogged(w)' => call'[w].n # call'[u].n
    <3>1. u # t /\ Machine!Unlogged(u) /\ call'[u] = call[u]
      BY <1>2, <2>1 DEF Machine!Unlogged
    <3>2. call[u].n # call[t].n
      BY <1>2, <3>1 DEF Machine!AuditInv, Machine!InFlightKnown
    <3>3. \A i \in 1 .. Len(log') : i = k + 1 \/ i \in 1 .. k
      BY <1>0, <1>1
    <3>4. \A w \in Machine!Threads \ {u} : Machine!Unlogged(w)' => Machine!Unlogged(w) /\ call'[w] = call[w]
      BY <1>2 DEF Machine!Unlogged
    <3> QED BY <1>1, <3>1, <3>2, <3>3, <3>4 DEF Machine!AuditInv, Machine!InFlightKnown
  <2> QED BY <1>2, <2>1 DEF Machine!InFlightKnown
<1>7. Machine!SwapsAreValid'
  BY <1>2 DEF Machine!AuditInv, Machine!SwapsAreValid
<1> QED BY <1>4, <1>5, <1>6, <1>7 DEF Machine!AuditInv

\* Every step keeps the audit trail sound.
LEMMA AuditInductive == Machine!TypeOK /\ Machine!AuditInv /\ [Machine!Next]_(Machine!vars) => Machine!AuditInv'
<1> SUFFICES ASSUME Machine!TypeOK, Machine!AuditInv,
    [Machine!Next]_(Machine!vars) PROVE Machine!AuditInv'
  OBVIOUS
<1>1. CASE Machine!CoreAsks
  <2>1. Head(script) \in Machine!States /\ Core \in Machine!Threads
    BY <1>1 DEF Machine!CoreAsks, Machine!TypeOK, Machine!Threads
  <2> QED BY <1>1, <2>1, LoadKeepsAudit DEF Machine!CoreAsks
<1>2. CASE Machine!Constructed \/ Machine!Destroy \/ Machine!Destroyed \/ UNCHANGED Machine!vars
  BY <1>2, StutterKeepsAudit DEF Machine!Constructed, Machine!Destroy, Machine!Destroyed,
                                 Machine!vars
<1>3. ASSUME NEW t \in Others, NEW target \in Machine!States, Machine!OtherAsks(t, target)
      PROVE Machine!AuditInv'
  BY <1>3, LoadKeepsAudit DEF Machine!OtherAsks, Machine!Threads
<1>4. ASSUME NEW t \in Machine!Threads, Machine!Swap(t) PROVE Machine!AuditInv'
  BY <1>4, SwapKeepsAudit
<1>5. ASSUME NEW t \in Machine!Threads,
    Machine!SwapFails(t) \/ Machine!Count(t) PROVE Machine!AuditInv'
  BY <1>5, QuietKeepsAudit DEF Machine!SwapFails, Machine!Count
<1>6. ASSUME NEW t \in Machine!Threads, Machine!Log(t) PROVE Machine!AuditInv'
  BY <1>6, LogKeepsAudit
<1> QED BY <1>1, <1>2, <1>3, <1>4, <1>5, <1>6 DEF Machine!Next

(***************************************************************************)
(* For any number of threads, the committed transitions are one walk of    *)
(* valid moves from Uninitialized, each recorded exactly once in history_  *)
(* or about to be.                                                         *)
(***************************************************************************)
THEOREM AuditSound == StateSpec => []Machine!AuditInv
<1>1. Machine!Init => Machine!AuditInv
  BY DEF Machine!Init, Machine!AuditInv, Machine!OneWalk, Machine!EveryTransitionLogged,
         Machine!InFlightKnown, Machine!SwapsAreValid, Machine!Unlogged, Machine!Idle
<1> QED BY <1>1, AuditInductive, StateTypeCorrect, PTL DEF StateSpec, Machine!Spec

\* Every transition that took effect is in history_ exactly once or about to be.
THEOREM LoggedCorrect == StateSpec => []EveryTransitionLogged
<1>1. Machine!AuditInv => EveryTransitionLogged
  BY DEF Machine!AuditInv, EveryTransitionLogged
<1> QED BY <1>1, AuditSound, PTL

\* The state moves only along the edges of is_valid_transition.
THEOREM MovesValid == StateSpec => OnlyValidMoves
<1>1. ASSUME Machine!TypeOK, Machine!AuditInv, [Machine!Next]_(Machine!vars)
      PROVE  [state' # state => Machine!IsValid(state, state')]_(Machine!vars)
  <2>1. ASSUME NEW t \in Machine!Threads, Machine!Swap(t) PROVE Machine!IsValid(state, state')
    BY <1>1, <2>1 DEF Machine!Swap, Machine!AuditInv, Machine!SwapsAreValid
  <2> QED
    BY <1>1, <2>1 DEF Machine!Next, Machine!CoreAsks, Machine!Constructed, Machine!Destroy,
                      Machine!Destroyed, Machine!OtherAsks, Machine!SwapFails, Machine!Log,
                      Machine!Count, Machine!vars
<1> QED BY <1>1, StateTypeCorrect, AuditSound, PTL DEF StateSpec, OnlyValidMoves, Machine!Spec,
                                      Machine!OnlyValidMoves

\* The committed transitions are one walk from Uninitialized to the current state.
THEOREM WalkCorrect == StateSpec => []OneWalk
<1>1. Machine!AuditInv => OneWalk
  BY DEF Machine!AuditInv, OneWalk
<1> QED BY <1>1, AuditSound, PTL

---------------------------------------------------------------------------
\* transition_count_ against history_

\* The threads between the swap and the record, and between the record and the increment.
Logging  == {t \in Machine!Threads : call[t].pc = "log"}
Counting == {t \in Machine!Threads : call[t].pc = "count"}

(***************************************************************************)
(* Every committed transition without a record belongs to one thread at    *)
(* "log", every record that is not counted to one thread at "count", and   *)
(* outside the life of the layer nobody but Core is inside transition.     *)
(***************************************************************************)
CountInv ==
  /\ IsFiniteSet(Logging) /\ IsFiniteSet(Counting)
  /\ Len(path) = Len(log) + Cardinality(Logging)
  /\ Len(log) = count + Cardinality(Counting)
  /\ life # "alive" => \A t \in Others : call[t].pc = "idle"
  /\ life = "destroyed" => script = << >> /\ call[Core].pc = "idle"

\* A step that moves no thread into or out of "log" and "count", nor any of the counts.
LEMMA QuietKeepsCount ==
  ASSUME CountInv, UNCHANGED <<log, count, path>>, Logging' = Logging, Counting' = Counting,
         life' # "alive" => \A t \in Others : call'[t].pc = "idle",
         life' = "destroyed" => script' = << >> /\ call'[Core].pc = "idle"
  PROVE  CountInv'
BY DEF CountInv

\* A request loads the state: its thread is idle before, and idle or about to swap after.
LEMMA LoadMoves ==
  ASSUME Machine!TypeOK, NEW t \in Machine!Threads, NEW target \in Machine!States,
         Machine!Load(t, target)
  PROVE  /\ Logging' = Logging /\ Counting' = Counting
         /\ \A u \in Machine!Threads \ {t} : call'[u] = call[u]
<1>1. call[t].pc = "idle" /\ call'[t].pc \in {"swap", "idle"}
  BY DEF Machine!Load, Machine!TypeOK, Machine!Idle
<1>2. \A u \in Machine!Threads \ {t} : call'[u] = call[u]
  BY DEF Machine!Load, Machine!TypeOK
<1> QED BY <1>1, <1>2 DEF Logging, Counting

\* Every step keeps the three counts in line with the threads inside transition.
LEMMA CountInductive == Machine!TypeOK /\ CountInv /\ [Machine!Next]_(Machine!vars) => CountInv'
<1> SUFFICES ASSUME Machine!TypeOK, CountInv, [Machine!Next]_(Machine!vars) PROVE CountInv'
  OBVIOUS
<1>0. Core \in Machine!Threads /\ \A t \in Others : t \in Machine!Threads /\ t # Core
  BY StateThreadsAssumption DEF Machine!Threads
<1>1. CASE Machine!CoreAsks
  <2>1. Head(script) \in Machine!States /\ script # << >>
    BY <1>1 DEF Machine!CoreAsks, Machine!TypeOK
  <2>2. Logging' = Logging /\ Counting' = Counting /\ \A u \in Others : call'[u] = call[u]
    BY <1>0, <1>1, <2>1, LoadMoves DEF Machine!CoreAsks
  <2>3. life # "destroyed" /\ life' = life
    BY <1>1, <2>1 DEF CountInv, Machine!CoreAsks
  <2>4. life' # "alive" => \A t \in Others : call'[t].pc = "idle"
    BY <2>2, <2>3 DEF CountInv
  <2> QED BY <1>1, <2>2, <2>3, <2>4, QuietKeepsCount DEF Machine!CoreAsks
<1>2. CASE Machine!Constructed \/ Machine!Destroy \/ Machine!Destroyed \/ UNCHANGED Machine!vars
  <2>1. Logging' = Logging /\ Counting' = Counting /\ UNCHANGED <<log, count, path, call>>
    BY <1>2 DEF Machine!Constructed, Machine!Destroy, Machine!Destroyed, Machine!vars, Logging,
                Counting
  <2>2. life' # "alive" => \A t \in Others : call'[t].pc = "idle"
    BY <1>2 DEF Machine!Constructed, Machine!Destroy, Machine!Destroyed, Machine!vars, CountInv
  <2>3. life' = "destroyed" => script' = << >> /\ call'[Core].pc = "idle"
    BY <1>2 DEF Machine!Constructed, Machine!Destroy, Machine!Destroyed, Machine!vars, CountInv
  <2> QED BY <2>1, <2>2, <2>3, QuietKeepsCount
<1>3. ASSUME NEW t \in Others, NEW target \in Machine!States, Machine!OtherAsks(t, target)
      PROVE CountInv'
  <2>1. Logging' = Logging /\ Counting' = Counting
    BY <1>0, <1>3, LoadMoves DEF Machine!OtherAsks
  <2> QED BY <1>3, <2>1, QuietKeepsCount DEF Machine!OtherAsks
<1>4. ASSUME NEW t \in Machine!Threads, call[t].pc # "idle", UNCHANGED <<script, life>>,
             NEW pc \in {"idle", "log", "count"}, call'[t].pc = pc,
             \A u \in Machine!Threads \ {t} : call'[u] = call[u]
      PROVE  /\ life' # "alive" => \A u \in Others : call'[u].pc = "idle"
             /\ life' = "destroyed" => script' = << >> /\ call'[Core].pc = "idle"
  <2>1. life # "alive" => t = Core
    BY <1>4 DEF CountInv, Machine!Threads
  <2> QED BY <1>0, <1>4, <2>1 DEF CountInv
<1>5. ASSUME NEW t \in Machine!Threads, Machine!Swap(t) PROVE CountInv'
  <2>1. call[t].pc = "swap" /\ call'[t].pc = "log" /\ \A u \in Machine!Threads \ {t} : call'[u] = call[u]
    BY <1>5 DEF Machine!Swap, Machine!TypeOK, Machine!Calls
  <2>2. Logging' = Logging \cup {t} /\ t \notin Logging /\ Counting' = Counting
    BY <2>1 DEF Logging, Counting
  <2>3. Len(path') = Len(path) + 1 /\ log' = log /\ count' = count
    BY <1>5 DEF Machine!Swap, Machine!TypeOK
  <2>4. IsFiniteSet(Logging') /\ Cardinality(Logging') = Cardinality(Logging) + 1
        /\ Cardinality(Logging) \in Nat
    BY <2>2, FS_AddElement, FS_CardinalityType DEF CountInv
  <2>5. Len(path) \in Nat /\ Len(log) \in Nat
    BY DEF Machine!TypeOK
  <2>6. Len(path') = Len(log') + Cardinality(Logging') /\ Len(log') = count' + Cardinality(Counting')
    BY <2>2, <2>3, <2>4, <2>5 DEF CountInv
  <2> QED BY <1>4, <1>5, <2>1, <2>2, <2>4, <2>6 DEF CountInv, Machine!Swap
<1>6. ASSUME NEW t \in Machine!Threads, Machine!SwapFails(t) PROVE CountInv'
  <2>1. call[t].pc = "swap" /\ call'[t].pc = "idle" /\ \A u \in Machine!Threads \ {t} : call'[u] = call[u]
    BY <1>6 DEF Machine!SwapFails, Machine!TypeOK, Machine!Idle
  <2>2. Logging' = Logging /\ Counting' = Counting
    BY <2>1 DEF Logging, Counting
  <2> QED BY <1>4, <1>6, <2>1, <2>2, QuietKeepsCount DEF Machine!SwapFails
<1>7. ASSUME NEW t \in Machine!Threads, Machine!Log(t) PROVE CountInv'
  <2>1. call[t].pc = "log" /\ call'[t].pc = "count" /\ \A u \in Machine!Threads \ {t} : call'[u] = call[u]
    BY <1>7 DEF Machine!Log, Machine!TypeOK, Machine!Calls
  <2>2. /\ Logging' = Logging \ {t} /\ t \in Logging
        /\ Counting' = Counting \cup {t} /\ t \notin Counting
    BY <2>1 DEF Logging, Counting
  <2>3. Len(log') = Len(log) + 1 /\ path' = path /\ count' = count
    BY <1>7 DEF Machine!Log, Machine!TypeOK
  <2>4. /\ IsFiniteSet(Logging') /\ Cardinality(Logging') = Cardinality(Logging) - 1
        /\ IsFiniteSet(Counting') /\ Cardinality(Counting') = Cardinality(Counting) + 1
        /\ Cardinality(Logging) \in Nat /\ Cardinality(Counting) \in Nat
    BY <2>2, FS_AddElement, FS_RemoveElement, FS_CardinalityType DEF CountInv
  <2>5. Len(path) \in Nat /\ Len(log) \in Nat /\ count \in Nat
    BY DEF Machine!TypeOK
  <2>6. Len(path') = Len(log') + Cardinality(Logging') /\ Len(log') = count' + Cardinality(Counting')
    BY <2>3, <2>4, <2>5 DEF CountInv
  <2> QED BY <1>4, <1>7, <2>1, <2>4, <2>6 DEF CountInv, Machine!Log
<1>8. ASSUME NEW t \in Machine!Threads, Machine!Count(t) PROVE CountInv'
  <2>1. call[t].pc = "count" /\ call'[t].pc = "idle" /\ \A u \in Machine!Threads \ {t} : call'[u] = call[u]
    BY <1>8 DEF Machine!Count, Machine!TypeOK, Machine!Idle
  <2>2. Logging' = Logging /\ Counting' = Counting \ {t} /\ t \in Counting
    BY <2>1 DEF Logging, Counting
  <2>3. log' = log /\ path' = path /\ count' = count + 1
    BY <1>8 DEF Machine!Count
  <2>4. /\ IsFiniteSet(Counting') /\ Cardinality(Counting') = Cardinality(Counting) - 1
        /\ Cardinality(Counting) \in Nat
    BY <2>2, FS_RemoveElement, FS_CardinalityType DEF CountInv
  <2>5. Len(log) \in Nat /\ count \in Nat
    BY DEF Machine!TypeOK
  <2>6. Len(path') = Len(log') + Cardinality(Logging') /\ Len(log') = count' + Cardinality(Counting')
    BY <2>2, <2>3, <2>4, <2>5 DEF CountInv
  <2> QED BY <1>4, <1>8, <2>1, <2>2, <2>4, <2>6 DEF CountInv, Machine!Count
<1> QED BY <1>1, <1>2, <1>3, <1>5, <1>6, <1>7, <1>8 DEF Machine!Next

(***************************************************************************)
(* For any set of threads, transition_count_ never runs ahead of history_, *)
(* and once the layer is destroyed both equal the number of transitions    *)
(* that took effect.                                                       *)
(***************************************************************************)
THEOREM CountCorrect == StateSpec => []CountMatchesLog
<1>1. Machine!Init => CountInv
  <2> SUFFICES ASSUME Machine!Init PROVE CountInv
    OBVIOUS
  <2>1. \A t \in Machine!Threads : call[t].pc = "idle"
    BY DEF Machine!Init, Machine!Idle
  <2>2. Logging = {} /\ Counting = {}
    BY <2>1 DEF Logging, Counting
  <2>3. Len(path) = 0 /\ Len(log) = 0 /\ count = 0 /\ life = "constructing"
    BY DEF Machine!Init
  <2> QED BY <2>1, <2>2, <2>3, FS_EmptySet DEF CountInv, Machine!Threads
<1>2. Machine!TypeOK /\ CountInv => CountMatchesLog
  <2> SUFFICES ASSUME Machine!TypeOK, CountInv PROVE CountMatchesLog
    OBVIOUS
  <2>1. /\ Cardinality(Counting) \in Nat
        /\ Len(path) \in Nat /\ Len(log) \in Nat /\ count \in Nat
    BY FS_CardinalityType DEF CountInv, Machine!TypeOK
  <2>2. count <= Len(log)
    BY <2>1 DEF CountInv
  <2>3. ASSUME life = "destroyed" PROVE count = Len(log) /\ Len(log) = Len(path)
    <3>1. Logging = {} /\ Counting = {}
      BY <2>3 DEF CountInv, Logging, Counting, Machine!Threads
    <3> QED BY <2>1, <3>1, FS_EmptySet DEF CountInv
  <2> QED BY <2>2, <2>3 DEF CountMatchesLog, Machine!CountMatchesLog
<1> QED BY <1>1, <1>2, CountInductive, StateTypeCorrect, PTL DEF StateSpec, Machine!Spec

=============================================================================

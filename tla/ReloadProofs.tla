---------------------------- MODULE ReloadProofs ----------------------------
(***************************************************************************)
(* Proofs about hot reload.  For ShaderReload: whoever follows a pointer   *)
(* for less than the grace period never meets a deleted object, and a      *)
(* shader that was swapped in stays until it is replaced.  For ModelSwap:  *)
(* a reader gets the model of the version it loaded.                       *)
(***************************************************************************)
EXTENDS HotReload, TLAPS

LEMMA EmptyType == Empty \in Contents
BY DEF Empty, NoEntry, Contents

LEMMA IdleType == ASSUME NEW n \in Nat, n >= 1 PROVE Idle \in Locals(n)
<1>1. (CHOOSE s \in Shaders : TRUE) \in Shaders
  BY ShadersAssumption
<1> QED
  BY <1>1, EmptyType, TicksAssumption DEF Idle, Locals

LEMMA LocalsGrow == ASSUME NEW n \in Nat PROVE Locals(n) \subseteq Locals(n + 1)
BY DEF Locals

\* A thread's locals with what a lookup or a compilation starts from.
LEMMA StartType ==
  ASSUME NEW n \in Nat, n >= 1, NEW s \in Shaders, NEW c \in 1 .. n, NEW b \in Nat, NEW recompile \in BOOLEAN
  PROVE  /\ [Idle EXCEPT !.pc = "find", !.shader = s, !.cache = c] \in Locals(n)
         /\ [Idle EXCEPT !.pc = "copy", !.shader = s, !.recompile = recompile, !.cache = c, !.build = b] \in Locals(n)
<1>1. Idle \in Locals(n)
  BY IdleType
<1> QED
  BY <1>1 DEF Locals

LEMMA InitType == Init => TypeOK
<1> SUFFICES ASSUME Init PROVE TypeOK
  OBVIOUS
<1>1. [shaders |-> Empty, state |-> "live", age |-> 0] \in Cache
  BY EmptyType, TicksAssumption DEF Cache
<1>2. caches \in Seq(Cache) /\ Len(caches) = 1
  BY <1>1 DEF Init
<1>3. thr \in [Threads -> Locals(1)]
  BY IdleType DEF Init
<1>4. installed \in [Shaders -> Nat] /\ builds \in Nat /\ active \in 1 .. 1
  BY DEF Init
<1>5. overlapped \in BOOLEAN
  BY DEF Init
<1> QED
  BY <1>2, <1>3, <1>4, <1>5 DEF TypeOK

\* Every step keeps the state well formed.
LEMMA NextType == TypeOK /\ [Next]_vars => TypeOK'
<1> SUFFICES ASSUME TypeOK, [Next]_vars PROVE TypeOK'
  OBVIOUS
<1> DEFINE n == Len(caches)
<1>0. /\ caches \in Seq(Cache) /\ n \in Nat /\ n >= 1 /\ active \in 1 .. n
      /\ builds \in Nat /\ installed \in [Shaders -> Nat] /\ overlapped \in BOOLEAN
      /\ thr \in [Threads -> Locals(n)]
      /\ Idle \in Locals(n)
  BY IdleType DEF TypeOK
<1>a. ASSUME NEW t \in Threads, NEW l \in Locals(n), thr' = [thr EXCEPT ![t] = l],
             UNCHANGED <<caches, active, installed, overlapped>>, builds' \in Nat
      PROVE  TypeOK'
  BY <1>a, <1>0 DEF TypeOK
<1>b. \A c \in 1 .. n : caches[c] \in Cache /\ caches[c].shaders \in Contents
  <2>1. \A c \in 1 .. n : caches[c] \in Cache
    BY <1>0
  <2> QED
    BY <2>1 DEF Cache
<1> HIDE DEF n
<1>1. ASSUME NEW t \in Threads, NEW s \in Shaders, LoadActive(t, s) PROVE TypeOK'
  BY <1>0, <1>a, <1>1, StartType DEF LoadActive
<1>2. ASSUME NEW t \in Threads, NEW s \in Shaders, NEW recompile \in BOOLEAN, Compile(t, s, recompile) PROVE TypeOK'
  <2>1. builds' \in Nat
    BY <1>0, <1>2 DEF Compile
  <2> QED
    BY <1>0, <1>a, <1>2, <2>1, StartType DEF Compile
<1>3. ASSUME NEW t \in Threads, Find(t) PROVE TypeOK'
  <2> DEFINE entry == caches[thr[t].cache].shaders[thr[t].shader]
  <2>1. thr[t] \in Locals(n) /\ thr[t].cache \in 1 .. n /\ thr[t].shader \in Shaders
    BY <1>0 DEF Locals
  <2>2. entry.build \in Nat
    BY <1>b, <2>1 DEF Contents
  <2>3. [thr[t] EXCEPT !.pc = "using", !.build = entry.build] \in Locals(n)
    BY <2>1, <2>2 DEF Locals
  <2>4. thr' = [thr EXCEPT ![t] = IF entry = NoEntry THEN Idle
                                  ELSE [thr[t] EXCEPT !.pc = "using", !.build = entry.build]]
    BY <1>0, <1>3 DEF Find
  <2> QED
    BY <1>0, <1>a, <1>3, <2>3, <2>4 DEF Find
<1>4. ASSUME NEW t \in Threads, Done(t) \/ SwapFails(t) PROVE TypeOK'
  BY <1>0, <1>a, <1>4 DEF Done, SwapFails
<1>5. ASSUME NEW t \in Threads, Copy(t) PROVE TypeOK'
  <2> DEFINE old == caches[thr[t].cache].shaders
             new == [build |-> thr[t].build, version |-> NextVersion(thr[t].recompile, old[thr[t].shader])]
  <2>1. /\ thr[t] \in Locals(n) /\ thr[t].cache \in 1 .. n /\ thr[t].shader \in Shaders
        /\ thr[t].build \in Nat /\ thr[t].recompile \in BOOLEAN
    BY <1>0 DEF Locals
  <2>2. old \in Contents /\ old[thr[t].shader].version \in Nat
    BY <1>b, <2>1 DEF Contents
  <2>3. NextVersion(thr[t].recompile, old[thr[t].shader]) \in Nat
    BY <2>1, <2>2 DEF NextVersion
  <2>4. [old EXCEPT ![thr[t].shader] = new] \in Contents
    BY <2>1, <2>2, <2>3 DEF Contents
  <2>5. thr' = [thr EXCEPT ![t] = [thr[t] EXCEPT !.pc = "expect", !.copy = [old EXCEPT ![thr[t].shader] = new]]]
    BY <1>0, <1>5 DEF Copy
  <2> HIDE DEF old, new
  <2>6. [thr[t] EXCEPT !.pc = "expect", !.copy = [old EXCEPT ![thr[t].shader] = new]] \in Locals(n)
    BY <2>1, <2>4 DEF Locals
  <2> QED
    BY <1>0, <1>a, <1>5, <2>5, <2>6 DEF Copy
<1>6. ASSUME NEW t \in Threads, LoadExpected(t) PROVE TypeOK'
  <2>1. thr' = [thr EXCEPT ![t] = [thr[t] EXCEPT !.pc = "swap", !.expected = active]]
    BY <1>0, <1>6 DEF LoadExpected
  <2>2. [thr[t] EXCEPT !.pc = "swap", !.expected = active] \in Locals(n)
    BY <1>0 DEF Locals
  <2> QED
    BY <1>0, <1>a, <1>6, <2>1, <2>2 DEF LoadExpected
<1>7. ASSUME NEW t \in Threads, Swap(t) PROVE TypeOK'
  <2> DEFINE old == [caches EXCEPT ![active].state = "retired"]
             new == [shaders |-> thr[t].copy, state |-> "live", age |-> 0]
  <2>1. thr[t].shader \in Shaders /\ thr[t].build \in Nat /\ thr[t].copy \in Contents
    BY <1>0 DEF Locals
  <2>2. old \in Seq(Cache) /\ Len(old) = n
    <3>1. [caches[active] EXCEPT !.state = "retired"] \in Cache
      BY <1>0, <1>b DEF Cache
    <3>2. old = [caches EXCEPT ![active] = [caches[active] EXCEPT !.state = "retired"]]
      OBVIOUS
    <3> HIDE DEF old
    <3> QED
      BY <1>0, <3>1, <3>2 DEF n
  <2>3. new \in Cache
    BY <2>1, TicksAssumption DEF Cache
  <2>4. caches' = Append(old, new) /\ active' = n + 1
    BY <1>7 DEF Swap, n
  <2> HIDE DEF old, new
  <2>5. caches' \in Seq(Cache) /\ Len(caches') = n + 1
    BY <2>2, <2>3, <2>4
  <2>6. thr' \in [Threads -> Locals(n)]
    BY <1>0, <1>7 DEF Swap
  <2>7. thr' \in [Threads -> Locals(n + 1)]
    BY <1>0, <2>6, LocalsGrow
  <2>8. installed' \in [Shaders -> Nat] /\ overlapped' \in BOOLEAN /\ builds' \in Nat
    BY <1>0, <1>7, <2>1 DEF Swap
  <2> QED
    BY <1>0, <2>4, <2>5, <2>7, <2>8 DEF TypeOK
<1>8. CASE Tick
  <2>1. \A t \in Following : [thr[t] EXCEPT !.age = thr[t].age + 1] \in Locals(n)
    <3> SUFFICES ASSUME NEW t \in Following PROVE [thr[t] EXCEPT !.age = thr[t].age + 1] \in Locals(n)
      OBVIOUS
    <3>1. thr[t] \in Locals(n) /\ thr[t].age < Stay
      BY <1>0, <1>8 DEF Tick, Following
    <3>2. thr[t].age + 1 \in 0 .. Stay
      BY <3>1, TicksAssumption DEF Locals
    <3> QED
      BY <3>1, <3>2 DEF Locals
  <2>2. thr' \in [Threads -> Locals(n)]
    BY <1>0, <1>8, <2>1 DEF Tick
  <2>3. \A c \in 1 .. n : caches[c].age < Grace => [caches[c] EXCEPT !.age = caches[c].age + 1] \in Cache
    BY <1>b, TicksAssumption DEF Cache
  <2>4. DOMAIN caches = 1 .. n
    BY <1>0 DEF n
  <2>5. \A c \in 1 .. n : (IF caches[c].state = "retired" /\ caches[c].age < Grace
                           THEN [caches[c] EXCEPT !.age = @ + 1] ELSE caches[c]) \in Cache
    BY <1>b, <2>3
  <2>6. caches' = [c \in 1 .. n |-> IF caches[c].state = "retired" /\ caches[c].age < Grace
                                    THEN [caches[c] EXCEPT !.age = @ + 1] ELSE caches[c]]
    BY <1>8, <2>4 DEF Tick
  <2>7. caches' \in [1 .. n -> Cache]
    BY <2>5, <2>6
  <2>8. caches' \in Seq(Cache) /\ Len(caches') = n
    BY <1>0, <2>7
  <2> QED
    BY <1>0, <1>8, <2>2, <2>8 DEF Tick, TypeOK
<1>9. ASSUME NEW c \in DOMAIN caches, DeleteOld(c) PROVE TypeOK'
  <2>1. c \in 1 .. n
    BY <1>0 DEF n
  <2>2. [caches[c] EXCEPT !.state = "deleted", !.shaders = Empty] \in Cache
    BY <1>b, <2>1, EmptyType DEF Cache
  <2>3. caches' = [caches EXCEPT ![c] = [caches[c] EXCEPT !.state = "deleted", !.shaders = Empty]]
    BY <1>0, <1>9 DEF DeleteOld
  <2>4. caches' \in Seq(Cache) /\ Len(caches') = n
    BY <1>0, <2>1, <2>2, <2>3 DEF n
  <2> QED
    BY <1>0, <1>9, <2>4 DEF DeleteOld, TypeOK
<1>10. CASE UNCHANGED vars
  BY <1>10 DEF vars, TypeOK
<1> QED
  BY <1>1, <1>2, <1>3, <1>4, <1>5, <1>6, <1>7, <1>8, <1>9, <1>10 DEF Next

\* The caches, the pointers to them and the threads' locals stay well formed.
THEOREM ShaderTypeCorrect == Spec => []TypeOK
BY InitType, NextType, PTL DEF Spec

---------------------------------------------------------------------------

\* What the proofs below need to know of the types.
LEMMA Typed ==
  ASSUME TypeOK
  PROVE  /\ Len(caches) \in Nat /\ DOMAIN caches = 1 .. Len(caches) /\ active \in 1 .. Len(caches)
         /\ \A c \in 1 .. Len(caches) : caches[c] \in Cache /\ caches[c].age \in Nat
         /\ \A t \in Threads : /\ thr[t] \in Locals(Len(caches)) /\ thr[t].cache \in 1 .. Len(caches)
                               /\ thr[t].age \in Nat /\ thr[t].age <= Stay /\ thr[t].shader \in Shaders
<1>1. /\ Len(caches) \in Nat /\ DOMAIN caches = 1 .. Len(caches) /\ active \in 1 .. Len(caches)
      /\ \A c \in 1 .. Len(caches) : caches[c] \in Cache
      /\ \A t \in Threads : thr[t] \in Locals(Len(caches))
  BY DEF TypeOK
<1>2. \A c \in 1 .. Len(caches) : caches[c].age \in Nat
  BY <1>1, TicksAssumption DEF Cache
<1>3. \A t \in Threads : /\ thr[t].cache \in 1 .. Len(caches) /\ thr[t].shader \in Shaders
                         /\ thr[t].age \in Nat /\ thr[t].age <= Stay
  <2>1. \A t \in Threads : thr[t].cache \in 1 .. Len(caches) /\ thr[t].shader \in Shaders /\ thr[t].age \in 0 .. Stay
    BY <1>1 DEF Locals
  <2>2. Stay \in Nat
    BY TicksAssumption
  <2>3. \A x \in 0 .. Stay : x \in Nat /\ x <= Stay
    BY <2>2
  <2> QED
    BY <2>1, <2>3
<1> QED
  BY <1>1, <1>2, <1>3

\* What a swap does to the caches there were.
LEMMA SwapShape ==
  ASSUME TypeOK, NEW t \in Threads, Swap(t), NEW c \in 1 .. Len(caches)
  PROVE  /\ caches'[c].shaders = caches[c].shaders /\ caches'[c].age = caches[c].age
         /\ caches'[c].state = IF c = active THEN "retired" ELSE caches[c].state
<1> DEFINE n == Len(caches)
           old == [caches EXCEPT ![active].state = "retired"]
           new == [shaders |-> thr[t].copy, state |-> "live", age |-> 0]
<1>1. n \in Nat /\ active \in 1 .. n /\ caches \in [1 .. n -> Cache]
  BY Typed DEF TypeOK
<1>2. caches' = Append(old, new)
  BY DEF Swap
<1>3. old = [caches EXCEPT ![active] = [caches[active] EXCEPT !.state = "retired"]]
  OBVIOUS
<1>4. old[c] = IF c = active THEN [caches[c] EXCEPT !.state = "retired"] ELSE caches[c]
  BY <1>1, <1>3
<1>5. [caches[active] EXCEPT !.state = "retired"] \in Cache
  BY <1>1 DEF Cache
<1>6. old \in Seq(Cache) /\ Len(old) = n
  BY <1>1, <1>3, <1>5
<1>7. caches[c] \in Cache
  BY <1>1
<1> HIDE DEF old, new, n
<1>8. Append(old, new)[c] = old[c]
  BY <1>6 DEF n
<1> QED
  BY <1>2, <1>4, <1>7, <1>8 DEF Cache

\* What a tick does to the caches and the threads.
LEMMA TickShape ==
  ASSUME TypeOK, Tick
  PROVE  /\ \A c \in 1 .. Len(caches) :
              /\ caches'[c].shaders = caches[c].shaders /\ caches'[c].state = caches[c].state
              /\ caches'[c].age = IF caches[c].state = "retired" /\ caches[c].age < Grace
                                  THEN caches[c].age + 1 ELSE caches[c].age
         /\ \A u \in Threads :
              /\ thr'[u].pc = thr[u].pc /\ thr'[u].cache = thr[u].cache
              /\ thr'[u].shader = thr[u].shader /\ thr'[u].build = thr[u].build
              /\ thr'[u].copy = thr[u].copy
              /\ u \in Following => thr'[u].age = thr[u].age + 1
<1>1. ASSUME NEW c \in 1 .. Len(caches)
      PROVE  /\ caches'[c].shaders = caches[c].shaders /\ caches'[c].state = caches[c].state
             /\ caches'[c].age = IF caches[c].state = "retired" /\ caches[c].age < Grace
                                 THEN caches[c].age + 1 ELSE caches[c].age
  <2>1. caches'[c] = IF caches[c].state = "retired" /\ caches[c].age < Grace
                     THEN [caches[c] EXCEPT !.age = caches[c].age + 1] ELSE caches[c]
    BY Typed DEF Tick
  <2>2. caches[c] \in Cache
    BY Typed
  <2> QED
    BY <2>1, <2>2 DEF Cache
<1>2. ASSUME NEW u \in Threads
      PROVE  /\ thr'[u].pc = thr[u].pc /\ thr'[u].cache = thr[u].cache
             /\ thr'[u].shader = thr[u].shader /\ thr'[u].build = thr[u].build
             /\ thr'[u].copy = thr[u].copy
             /\ u \in Following => thr'[u].age = thr[u].age + 1
  <2>1. thr'[u] = IF u \in Following THEN [thr[u] EXCEPT !.age = thr[u].age + 1] ELSE thr[u]
    BY DEF Tick
  <2>2. thr[u] \in Locals(Len(caches))
    BY Typed
  <2> QED
    BY <2>1, <2>2 DEF Locals
<1> QED
  BY <1>1, <1>2

LEMMA InitRetained == Init => Retained
BY DEF Init, Retained, Following, Idle

\* A step that leaves the caches alone and lets nobody follow what it did not follow before,
\* but for thread t.
LEMMA RetainedKept ==
  ASSUME TypeOK, Retained, UNCHANGED <<caches, active>>, NEW t \in Threads,
         \A u \in Threads : u # t => thr'[u] = thr[u],
         thr'[t].pc \in {"find", "using", "copy"} =>
           LET c == caches[thr'[t].cache] IN
           /\ c.state # "deleted" /\ c.age <= thr'[t].age
           /\ thr'[t].pc = "using" => c.shaders[thr'[t].shader].build = thr'[t].build
  PROVE  Retained'
BY DEF Retained, Following

\* Every step keeps what is followed.
LEMMA NextRetained == TypeOK /\ TypeOK' /\ Retained /\ [Next]_vars => Retained'
<1> SUFFICES ASSUME TypeOK, TypeOK', Retained, [Next]_vars PROVE Retained'
  OBVIOUS
<1>0. caches[active].state = "live" /\ caches[active].age = 0
  BY Typed DEF Retained
<1>a. \A t \in Threads : thr[t] \in Locals(Len(caches))
  BY Typed
<1>1. ASSUME NEW t \in Threads, NEW s \in Shaders, LoadActive(t, s) PROVE Retained'
  <2>1. thr'[t].pc = "find" /\ thr'[t].cache = active /\ thr'[t].age = 0
    BY <1>1 DEF LoadActive, TypeOK, Idle
  <2>2. UNCHANGED <<caches, active>> /\ \A u \in Threads : u # t => thr'[u] = thr[u]
    BY <1>1 DEF LoadActive, TypeOK
  <2> QED
    BY <1>0, <2>1, <2>2, RetainedKept
<1>2. ASSUME NEW t \in Threads, NEW s \in Shaders, NEW recompile \in BOOLEAN, Compile(t, s, recompile)
      PROVE  Retained'
  <2>1. thr'[t].pc = "copy" /\ thr'[t].cache = active /\ thr'[t].age = 0
    BY <1>2 DEF Compile, TypeOK, Idle
  <2>2. UNCHANGED <<caches, active>> /\ \A u \in Threads : u # t => thr'[u] = thr[u]
    BY <1>2 DEF Compile, TypeOK
  <2> QED
    BY <1>0, <2>1, <2>2, RetainedKept
<1>3. ASSUME NEW t \in Threads, Find(t) PROVE Retained'
  <2> DEFINE entry == caches[thr[t].cache].shaders[thr[t].shader]
  <2>1. UNCHANGED <<caches, active>> /\ \A u \in Threads : u # t => thr'[u] = thr[u]
    BY <1>3 DEF Find, TypeOK
  <2>2. caches[thr[t].cache].state # "deleted" /\ caches[thr[t].cache].age <= thr[t].age
    BY <1>3 DEF Retained, Following, Find
  <2>3. thr'[t] = IF entry = NoEntry THEN Idle ELSE [thr[t] EXCEPT !.pc = "using", !.build = entry.build]
    BY <1>3 DEF Find, TypeOK
  <2> HIDE DEF entry
  <2>4. CASE entry = NoEntry
    BY <2>1, <2>3, <2>4, RetainedKept DEF Idle
  <2>5. CASE entry # NoEntry
    <3>1. /\ thr'[t].pc = "using" /\ thr'[t].build = entry.build
          /\ thr'[t].cache = thr[t].cache /\ thr'[t].shader = thr[t].shader /\ thr'[t].age = thr[t].age
      BY <1>a, <2>3, <2>5 DEF Locals
    <3> QED
      BY <2>1, <2>2, <3>1, RetainedKept DEF entry
  <2> QED
    BY <2>4, <2>5
<1>4. ASSUME NEW t \in Threads, Done(t) \/ SwapFails(t) PROVE Retained'
  <2>1. UNCHANGED <<caches, active>> /\ \A u \in Threads : u # t => thr'[u] = thr[u]
    BY <1>4 DEF Done, SwapFails, TypeOK
  <2>2. thr'[t].pc = "idle"
    BY <1>4 DEF Done, SwapFails, TypeOK, Idle
  <2> QED
    BY <2>1, <2>2, RetainedKept
<1>5. ASSUME NEW t \in Threads, Copy(t) PROVE Retained'
  <2>1. UNCHANGED <<caches, active>> /\ \A u \in Threads : u # t => thr'[u] = thr[u]
    BY <1>5 DEF Copy, TypeOK
  <2>2. thr'[t].pc = "expect"
    BY <1>5, <1>a DEF Copy, TypeOK, Locals
  <2> QED
    BY <2>1, <2>2, RetainedKept
<1>6. ASSUME NEW t \in Threads, LoadExpected(t) PROVE Retained'
  <2>1. UNCHANGED <<caches, active>> /\ \A u \in Threads : u # t => thr'[u] = thr[u]
    BY <1>6 DEF LoadExpected, TypeOK
  <2>2. thr'[t].pc = "swap"
    BY <1>6, <1>a DEF LoadExpected, TypeOK, Locals
  <2> QED
    BY <2>1, <2>2, RetainedKept
<1>7. ASSUME NEW t \in Threads, Swap(t) PROVE Retained'
  <2> DEFINE n == Len(caches)
  <2>1. n \in Nat /\ active \in 1 .. n /\ Len(caches') = n + 1 /\ active' = n + 1
    BY <1>7, Typed DEF Swap, TypeOK
  <2>2. caches'[n + 1].state = "live" /\ caches'[n + 1].age = 0
    BY <1>7, <2>1 DEF Swap, TypeOK
  <2>3. \A c \in 1 .. n : /\ caches'[c].shaders = caches[c].shaders /\ caches'[c].age = caches[c].age
                          /\ caches'[c].state = IF c = active THEN "retired" ELSE caches[c].state
    BY <1>7, SwapShape
  <2>4. \A u \in Threads : u # t => thr'[u] = thr[u]
    BY <1>7 DEF Swap, TypeOK
  <2>5. thr'[t].pc = "idle"
    BY <1>7 DEF Swap, TypeOK, Idle
  <2>6. DOMAIN caches' = 1 .. n + 1
    BY <2>1, Typed DEF TypeOK
  <2>7. \A u \in Threads : thr[u].cache \in 1 .. n
    BY Typed
  <2>8. \A c \in 1 .. n : caches'[c].state # "live"
    BY <2>1, <2>3, Typed DEF Retained
  <2> HIDE DEF n
  <2>9. \A u \in Following' : u \in Threads /\ u # t /\ u \in Following /\ thr'[u] = thr[u]
    BY <2>4, <2>5 DEF Following
  <2>10. \A u \in Following' :
           LET c == caches'[thr'[u].cache] IN
           /\ c.state # "deleted" /\ c.age <= thr'[u].age
           /\ thr'[u].pc = "using" => c.shaders[thr'[u].shader].build = thr'[u].build
    BY <2>3, <2>7, <2>9 DEF Retained
  <2> QED
    BY <2>1, <2>2, <2>6, <2>8, <2>10 DEF Retained
<1>8. CASE Tick
  <2> DEFINE n == Len(caches)
  <2>1. \A c \in 1 .. n : /\ caches'[c].shaders = caches[c].shaders /\ caches'[c].state = caches[c].state
                          /\ caches'[c].age = IF caches[c].state = "retired" /\ caches[c].age < Grace
                                              THEN caches[c].age + 1 ELSE caches[c].age
    BY <1>8, TickShape
  <2>2. \A u \in Threads : /\ thr'[u].pc = thr[u].pc /\ thr'[u].cache = thr[u].cache
                           /\ thr'[u].shader = thr[u].shader /\ thr'[u].build = thr[u].build
                           /\ u \in Following => thr'[u].age = thr[u].age + 1
    BY <1>8, TickShape
  <2>3. active' = active /\ DOMAIN caches' = 1 .. n /\ DOMAIN caches = 1 .. n
    BY <1>8, Typed DEF Tick
  <2>4. Following' = Following
    BY <2>2 DEF Following
  <2>5. \A u \in Following : thr[u].cache \in 1 .. n /\ thr[u].age \in Nat
    BY Typed DEF Following
  <2>6. active \in 1 .. n /\ \A c \in 1 .. n : caches[c].age \in Nat
    BY Typed
  <2> HIDE DEF n
  <2>7. \A u \in Following' :
           LET c == caches'[thr'[u].cache] IN
           /\ c.state # "deleted" /\ c.age <= thr'[u].age
           /\ thr'[u].pc = "using" => c.shaders[thr'[u].shader].build = thr'[u].build
    <3> SUFFICES ASSUME NEW u \in Following
                 PROVE  LET c == caches'[thr'[u].cache] IN
                        /\ c.state # "deleted" /\ c.age <= thr'[u].age
                        /\ thr'[u].pc = "using" => c.shaders[thr'[u].shader].build = thr'[u].build
      BY <2>4
    <3>1. u \in Threads
      BY DEF Following
    <3>2. LET c == caches[thr[u].cache] IN
          /\ c.state # "deleted" /\ c.age <= thr[u].age
          /\ thr[u].pc = "using" => c.shaders[thr[u].shader].build = thr[u].build
      BY DEF Retained
    <3> QED
      BY <2>1, <2>2, <2>5, <2>6, <3>1, <3>2
  <2>8. \A c \in 1 .. n : caches'[c].state = "live" => c = active /\ caches'[c].age = 0
    BY <2>1, <2>3 DEF Retained
  <2> QED
    BY <1>0, <2>1, <2>3, <2>6, <2>7, <2>8 DEF Retained
<1>9. ASSUME NEW c \in DOMAIN caches, DeleteOld(c) PROVE Retained'
  <2> DEFINE n == Len(caches)
  <2>1. c \in 1 .. n /\ active \in 1 .. n /\ caches[c].state = "retired" /\ caches[c].age = Grace
    BY <1>9, Typed DEF DeleteOld
  <2>2. c # active
    BY <1>0, <2>1
  <2>3. thr' = thr /\ active' = active /\ DOMAIN caches' = 1 .. n
    BY <1>9, Typed DEF DeleteOld
  <2>4. \A d \in 1 .. n : d # c => caches'[d] = caches[d]
    BY <1>9, Typed DEF DeleteOld, TypeOK
  <2>5. caches'[c].state = "deleted"
    BY <1>9, <2>1, Typed DEF DeleteOld, TypeOK, Cache
  <2>6. \A u \in Following : thr[u].cache # c
    BY <2>1, Typed, TicksAssumption DEF Retained, Following
  <2>7. Following' = Following /\ \A u \in Following : thr[u].cache \in 1 .. n
    BY <2>3, Typed DEF Following
  <2>8. caches'[active].state = "live"
    BY <1>0, <2>1, <2>2, <2>4
  <2>9. DOMAIN caches = 1 .. n
    BY Typed
  <2> HIDE DEF n
  <2>10. \A d \in 1 .. n : caches'[d].state = "live" => d = active /\ caches'[d].age = 0
    BY <2>4, <2>5, <2>9 DEF Retained
  <2>11. \A u \in Following' :
           LET d == caches'[thr'[u].cache] IN
           /\ d.state # "deleted" /\ d.age <= thr'[u].age
           /\ thr'[u].pc = "using" => d.shaders[thr'[u].shader].build = thr'[u].build
    BY <2>3, <2>4, <2>6, <2>7 DEF Retained
  <2> QED
    BY <2>3, <2>8, <2>10, <2>11 DEF Retained
<1>10. CASE UNCHANGED vars
  BY <1>10 DEF vars, Retained, Following
<1> QED
  BY <1>1, <1>2, <1>3, <1>4, <1>5, <1>6, <1>7, <1>8, <1>9, <1>10 DEF Next

(***************************************************************************)
(* A pointer that is followed for less than the grace period never dangles:*)
(* for any number of threads, shaders and swaps.                           *)
(***************************************************************************)
THEOREM GraceSuffices == Spec => []NoUseAfterFree
<1>1. TypeOK /\ Retained => NoUseAfterFree
  <2> SUFFICES ASSUME TypeOK, Retained, NEW t \in Threads
               PROVE  /\ thr[t].pc \in {"find", "copy"} => caches[thr[t].cache].state # "deleted"
                      /\ thr[t].pc = "using" => Shared(thr[t].build)
    BY DEF NoUseAfterFree
  <2> QED
    BY Typed DEF Retained, Following, Shared
<1> QED
  BY <1>1, InitRetained, NextRetained, ShaderTypeCorrect, PTL DEF Spec

---------------------------------------------------------------------------

LEMMA InitFaithful == Init => CopiesFaithful /\ NoShaderLost
BY DEF Init, CopiesFaithful, Faithful, NoShaderLost, Idle, Empty, NoEntry

\* A step of thread t that leaves the caches alone.
LEMMA FaithfulKept ==
  ASSUME TypeOK, CopiesFaithful, NoShaderLost, NEW t \in Threads,
         UNCHANGED <<caches, active, installed, overlapped>>,
         \A u \in Threads : u # t => thr'[u] = thr[u],
         thr'[t].pc \notin {"expect", "swap"}
  PROVE  CopiesFaithful' /\ NoShaderLost'
BY DEF CopiesFaithful, Faithful, NoShaderLost

\* Every step keeps the copies faithful, and loses no shader.
LEMMA NextFaithful ==
  TypeOK /\ Retained /\ CopiesFaithful /\ NoShaderLost /\ [Next]_vars => CopiesFaithful' /\ NoShaderLost'
<1> SUFFICES ASSUME TypeOK, Retained, CopiesFaithful, NoShaderLost, [Next]_vars
             PROVE  CopiesFaithful' /\ NoShaderLost'
  OBVIOUS
<1>a. \A t \in Threads : thr[t] \in Locals(Len(caches))
  BY Typed
<1>1. ASSUME NEW t \in Threads, NEW s \in Shaders, LoadActive(t, s) PROVE CopiesFaithful' /\ NoShaderLost'
  <2>1. thr'[t].pc = "find" /\ \A u \in Threads : u # t => thr'[u] = thr[u]
    BY <1>1 DEF LoadActive, TypeOK, Idle
  <2> QED
    BY <1>1, <2>1, FaithfulKept DEF LoadActive
<1>2. ASSUME NEW t \in Threads, NEW s \in Shaders, NEW recompile \in BOOLEAN, Compile(t, s, recompile)
      PROVE  CopiesFaithful' /\ NoShaderLost'
  <2>1. thr'[t].pc = "copy" /\ \A u \in Threads : u # t => thr'[u] = thr[u]
    BY <1>2 DEF Compile, TypeOK, Idle
  <2> QED
    BY <1>2, <2>1, FaithfulKept DEF Compile
<1>3. ASSUME NEW t \in Threads, Find(t) \/ Done(t) \/ SwapFails(t) PROVE CopiesFaithful' /\ NoShaderLost'
  <2>1. \A u \in Threads : u # t => thr'[u] = thr[u]
    BY <1>3 DEF Find, Done, SwapFails, TypeOK
  <2>2. CASE Find(t)
    <3>1. PICK b : thr'[t] = Idle \/ thr'[t] = [thr[t] EXCEPT !.pc = "using", !.build = b]
      BY <2>2 DEF Find, TypeOK
    <3>u. UNCHANGED <<caches, active, installed, overlapped>>
      BY <2>2 DEF Find
    <3>2. CASE thr'[t] = Idle
      <4>1. thr'[t].pc = "idle"
        BY <3>2 DEF Idle
      <4> QED
        BY <2>1, <3>u, <4>1, FaithfulKept
    <3>3. CASE thr'[t] = [thr[t] EXCEPT !.pc = "using", !.build = b]
      <4>1. thr[t] \in Locals(Len(caches))
        BY <1>a
      <4>2. thr'[t].pc = "using"
        BY <3>3, <4>1 DEF Locals
      <4> QED
        BY <2>1, <3>u, <4>2, FaithfulKept
    <3> QED
      BY <3>1, <3>2, <3>3
  <2>3. CASE Done(t) \/ SwapFails(t)
    <3>1. thr'[t].pc = "idle"
      BY <2>3 DEF Done, SwapFails, TypeOK, Idle
    <3> QED
      BY <2>1, <2>3, <3>1, FaithfulKept DEF Done, SwapFails
  <2> QED
    BY <1>3, <2>2, <2>3
<1>4. ASSUME NEW t \in Threads, Copy(t) PROVE CopiesFaithful' /\ NoShaderLost'
  <2> DEFINE old == caches[thr[t].cache].shaders
             new == [build |-> thr[t].build, version |-> NextVersion(thr[t].recompile, old[thr[t].shader])]
             copy == [old EXCEPT ![thr[t].shader] = new]
  <2>1. \A u \in Threads : u # t => thr'[u] = thr[u]
    BY <1>4 DEF Copy, TypeOK
  <2>2. thr'[t] = [thr[t] EXCEPT !.pc = "expect", !.copy = copy]
    BY <1>4 DEF Copy, TypeOK
  <2>3. old \in Contents /\ thr[t].shader \in Shaders
    BY Typed DEF Cache
  <2>4. \A s \in Shaders : copy[s].build = IF s = thr[t].shader THEN thr[t].build ELSE old[s].build
    BY <2>3 DEF Contents
  <2> HIDE DEF copy
  <2>5. /\ thr'[t].copy = copy /\ thr'[t].shader = thr[t].shader
        /\ thr'[t].build = thr[t].build /\ thr'[t].cache = thr[t].cache
    BY <1>a, <2>2 DEF Locals
  <2>6. UNCHANGED <<caches, active, installed, overlapped>>
    BY <1>4 DEF Copy
  <2> QED
    <3>1. Faithful(t)'
      BY <2>4, <2>5, <2>6 DEF Faithful
    <3>2. \A u \in Threads : u # t => Faithful(u)'
      BY <2>1, <2>6 DEF CopiesFaithful, Faithful
    <3> QED
      BY <2>6, <3>1, <3>2 DEF CopiesFaithful, NoShaderLost
<1>5. ASSUME NEW t \in Threads, LoadExpected(t) PROVE CopiesFaithful' /\ NoShaderLost'
  <2>1. \A u \in Threads : u # t => thr'[u] = thr[u]
    BY <1>5 DEF LoadExpected, TypeOK
  <2>2. thr'[t] = [thr[t] EXCEPT !.pc = "swap", !.expected = active] /\ thr[t].pc = "expect"
    BY <1>5 DEF LoadExpected, TypeOK
  <2>3. /\ thr'[t].copy = thr[t].copy /\ thr'[t].shader = thr[t].shader
        /\ thr'[t].build = thr[t].build /\ thr'[t].cache = thr[t].cache
    BY <1>a, <2>2 DEF Locals
  <2>4. UNCHANGED <<caches, active, installed, overlapped>>
    BY <1>5 DEF LoadExpected
  <2> QED
    <3>1. Faithful(t)'
      BY <2>2, <2>3, <2>4 DEF CopiesFaithful, Faithful
    <3>2. \A u \in Threads : u # t => Faithful(u)'
      BY <2>1, <2>4 DEF CopiesFaithful, Faithful
    <3> QED
      BY <2>4, <3>1, <3>2 DEF CopiesFaithful, NoShaderLost
<1>6. ASSUME NEW t \in Threads, Swap(t) PROVE CopiesFaithful' /\ NoShaderLost'
  <2> DEFINE n == Len(caches)
  <2>1. \A c \in 1 .. n : /\ caches'[c].shaders = caches[c].shaders
                          /\ caches'[c].state = "deleted" <=> caches[c].state = "deleted"
    BY <1>6, SwapShape, Typed DEF Retained
  <2>2. \A u \in Threads : thr[u].cache \in 1 .. n
    BY Typed
  <2>3. thr'[t].pc = "idle" /\ \A u \in Threads : u # t => thr'[u] = thr[u]
    BY <1>6 DEF Swap, TypeOK, Idle
  <2>4. CopiesFaithful'
    <3> SUFFICES ASSUME NEW u \in Threads, u # t PROVE Faithful(u)'
      BY <2>3 DEF CopiesFaithful, Faithful
    <3>1. thr'[u] = thr[u] /\ thr[u].cache \in 1 .. n /\ Faithful(u)
      BY <2>2, <2>3 DEF CopiesFaithful
    <3> HIDE DEF n
    <3> QED
      BY <2>1, <3>1 DEF Faithful
  <2>5. active' = n + 1 /\ caches'[n + 1].shaders = thr[t].copy
    BY <1>6, Typed DEF Swap, TypeOK
  <2>6. ASSUME ~overlapped', NEW s \in Shaders PROVE thr[t].copy[s].build = installed'[s]
    <3>1. ~overlapped /\ thr[t].cache = active /\ thr[t].pc = "swap"
      BY <1>6, <2>6 DEF Swap
    <3>2. caches[thr[t].cache].state # "deleted"
      BY <3>1 DEF Retained
    <3>3. thr[t].copy[s].build = IF s = thr[t].shader THEN thr[t].build ELSE caches[active].shaders[s].build
      BY <3>1, <3>2 DEF CopiesFaithful, Faithful
    <3>4. installed'[s] = IF s = thr[t].shader THEN thr[t].build ELSE installed[s]
      BY <1>6 DEF Swap, TypeOK
    <3> QED
      BY <3>1, <3>3, <3>4 DEF NoShaderLost
  <2> QED
    BY <2>4, <2>5, <2>6 DEF NoShaderLost
<1>7. CASE Tick
  <2>1. active' = active /\ installed' = installed /\ overlapped' = overlapped
    BY <1>7 DEF Tick
  <2>2. \A c \in 1 .. Len(caches) : caches'[c].shaders = caches[c].shaders /\ caches'[c].state = caches[c].state
    BY <1>7, TickShape
  <2>3. ASSUME NEW u \in Threads PROVE Faithful(u)'
    <3>1. /\ thr'[u].pc = thr[u].pc /\ thr'[u].cache = thr[u].cache /\ thr'[u].shader = thr[u].shader
          /\ thr'[u].build = thr[u].build /\ thr'[u].copy = thr[u].copy
      BY <1>7, TickShape
    <3>2. thr[u].cache \in 1 .. Len(caches) /\ Faithful(u)
      BY Typed DEF CopiesFaithful
    <3> QED
      BY <2>2, <3>1, <3>2 DEF Faithful
  <2>4. active \in 1 .. Len(caches)
    BY Typed
  <2> QED
    BY <2>1, <2>2, <2>3, <2>4 DEF CopiesFaithful, NoShaderLost
<1>8. ASSUME NEW c \in DOMAIN caches, DeleteOld(c) PROVE CopiesFaithful' /\ NoShaderLost'
  <2>1. c # active /\ c \in 1 .. Len(caches)
    BY <1>8, Typed DEF DeleteOld, Retained
  <2>2. \A d \in 1 .. Len(caches) : d # c => caches'[d] = caches[d]
    BY <1>8, Typed DEF DeleteOld, TypeOK
  <2>3. caches'[c].state = "deleted"
    BY <1>8, <2>1, Typed DEF DeleteOld, TypeOK, Cache
  <2>4. thr' = thr /\ active' = active /\ installed' = installed /\ overlapped' = overlapped
    BY <1>8 DEF DeleteOld
  <2> QED
    <3>1. ASSUME NEW u \in Threads PROVE Faithful(u)'
      <4>1. thr[u].cache \in 1 .. Len(caches) /\ Faithful(u)
        BY Typed DEF CopiesFaithful
      <4> QED
        BY <2>2, <2>3, <2>4, <4>1 DEF Faithful
    <3> QED
      BY <2>1, <2>2, <2>4, <3>1, Typed DEF CopiesFaithful, NoShaderLost
<1>9. CASE UNCHANGED vars
  BY <1>9 DEF vars, CopiesFaithful, Faithful, NoShaderLost
<1> QED
  BY <1>1, <1>2, <1>3, <1>4, <1>5, <1>6, <1>7, <1>8, <1>9 DEF Next

(***************************************************************************)
(* As long as writers do not overlap, what lookup finds is the build that  *)
(* was last reported as installed.                                         *)
(***************************************************************************)
THEOREM ShadersKept == Spec => []NoShaderLost
BY InitFaithful, NextFaithful, InitRetained, NextRetained, ShaderTypeCorrect, PTL DEF Spec

---------------------------------------------------------------------------
\* ModelSwap

LEMMA ModelInitType == Models!Init => Models!TypeOK
<1> SUFFICES ASSUME Models!Init PROVE Models!TypeOK
  OBVIOUS
<1>1. Models!NoModel \in Models!Versions
  BY DEF Models!NoModel, Models!Versions
<1>2. slots \in [0 .. Models!kMaxVersions - 1 -> Models!Versions] /\ holder \subseteq Loaders
  BY <1>1 DEF Models!Init
<1>3. current \in Nat /\ previous \in Nat /\ loads \in Nat
  BY DEF Models!Init
<1>4. loadsOverlapped \in BOOLEAN
  BY DEF Models!Init
<1>5. loader \in [Loaders -> [pc : {"idle", "lock", "write", "writing", "publish"}, new : Models!Versions]]
  BY <1>1 DEF Models!Init
<1>6. reader \in [Readers -> [pc : {"idle", "compare", "current", "read", "follow", "got"},
                             version : Nat, got : Models!Versions]]
  BY <1>1 DEF Models!Init
<1> QED
  BY <1>2, <1>3, <1>4, <1>5, <1>6 DEF Models!TypeOK

\* Every step keeps the slots, the loaders and the readers well formed.
LEMMA ModelNextType == Models!TypeOK /\ [Models!Next]_(Models!vars) => Models!TypeOK'
<1> SUFFICES ASSUME Models!TypeOK, [Models!Next]_(Models!vars) PROVE Models!TypeOK'
  OBVIOUS
<1> USE DEF Models!TypeOK
<1>0. Models!NoModel \in Models!Versions
  BY DEF Models!NoModel, Models!Versions
<1>1. \A v \in Nat : Models!Slot(v) \in 0 .. Models!kMaxVersions - 1
  BY DEF Models!Slot, Models!kMaxVersions
<1>a. \A l \in Loaders : loader[l].new \in Models!Versions /\ loader[l].new.version \in Nat
  BY DEF Models!Versions
<1>2. ASSUME NEW l \in Loaders, Models!NewVersion(l) PROVE Models!TypeOK'
  <2>1. loads + 1 \in Nat /\ [version |-> current + 1, model |-> loads + 1] \in Models!Versions
    BY DEF Models!Versions
  <2> QED
    BY <1>2, <2>1 DEF Models!NewVersion
<1>3. ASSUME NEW l \in Loaders, Models!KeepPrevious(l) PROVE Models!TypeOK'
  <2>1. loadsOverlapped' \in BOOLEAN
    BY <1>3 DEF Models!KeepPrevious
  <2> QED
    BY <1>3, <2>1 DEF Models!KeepPrevious
<1>4. ASSUME NEW l \in Loaders, Models!BeginWrite(l) PROVE Models!TypeOK'
  BY <1>0, <1>1, <1>a, <1>4 DEF Models!BeginWrite
<1>5. ASSUME NEW l \in Loaders, Models!EndWrite(l) PROVE Models!TypeOK'
  BY <1>1, <1>a, <1>5 DEF Models!EndWrite
<1>6. ASSUME NEW l \in Loaders, Models!Publish(l) PROVE Models!TypeOK'
  BY <1>a, <1>6 DEF Models!Publish
<1>7. ASSUME NEW r \in Readers, Models!LoadCurrent(r) \/ Models!LoadPrevious(r) \/ Models!Done(r)
      PROVE  Models!TypeOK'
  <2>1. PICK pc \in {"idle", "compare", "read"}, v \in Nat :
          reader' = [reader EXCEPT ![r] = [pc |-> pc, version |-> v, got |-> Models!NoModel]]
    BY <1>7 DEF Models!LoadCurrent, Models!LoadPrevious, Models!Done
  <2>2. UNCHANGED <<slots, current, previous, holder, loads, loadsOverlapped, loader>>
    BY <1>7 DEF Models!LoadCurrent, Models!LoadPrevious, Models!Done
  <2> QED
    BY <1>0, <2>1, <2>2
<1>8. ASSUME NEW r \in Readers, Models!Compare(r) PROVE Models!TypeOK'
  BY <1>8 DEF Models!Compare
<1>9. ASSUME NEW r \in Readers, Models!ReadSlot(r) PROVE Models!TypeOK'
  <2>1. slots[Models!Slot(reader[r].version)] \in Models!Versions
    BY <1>1
  <2> QED
    BY <1>9, <2>1 DEF Models!ReadSlot
<1>10. CASE UNCHANGED Models!vars
  BY <1>10 DEF Models!vars
<1>11. ASSUME NEW r \in Readers, Models!Dereference(r) PROVE Models!TypeOK'
  <2>1. PICK m \in {reader[r].got, Models!NoModel} :
          reader' = [reader EXCEPT ![r].pc = "got", ![r].got = m]
    BY <1>11 DEF Models!Dereference
  <2>2. m \in Models!Versions
    BY <1>0, <2>1
  <2>3. reader' \in [Readers -> [pc : {"idle", "compare", "current", "read", "follow", "got"},
                                 version : Nat, got : Models!Versions]]
    BY <2>1, <2>2
  <2> QED
    BY <1>11, <2>3 DEF Models!Dereference
<1> QED
  BY <1>2, <1>3, <1>4, <1>5, <1>6, <1>7, <1>8, <1>9, <1>10, <1>11 DEF Models!Next

\* The slots and the versions stay well formed.
THEOREM ModelTypeCorrect == Models!Spec => []Models!TypeOK
BY ModelInitType, ModelNextType, PTL DEF Models!Spec

LEMMA ModelInitFilled == Models!Init => Models!SlotsFilled
<1> SUFFICES ASSUME Models!Init PROVE Models!SlotsFilled
  OBVIOUS
<1>1. holder = {} /\ current = 0 /\ previous = 0 /\ \A l \in Loaders : loader[l].pc = "idle"
  BY DEF Models!Init
<1>2. \A r \in Readers : reader[r].version = 0
  BY DEF Models!Init
<1> QED
  BY <1>1, <1>2 DEF Models!SlotsFilled, Models!Inside, Models!kMaxVersions

\* Different slots for versions less than kMaxVersions apart, the same one for versions that far apart.
LEMMA SlotsApart ==
  ASSUME NEW v \in Nat, NEW w \in Nat
  PROVE  /\ v < w /\ w < v + Models!kMaxVersions => Models!Slot(v) # Models!Slot(w)
         /\ Models!Slot(v) \in 0 .. Models!kMaxVersions - 1
BY DEF Models!Slot, Models!kMaxVersions

\* Every step keeps the slots filled.
LEMMA ModelNextFilled ==
  Models!TypeOK /\ Models!SlotsFilled /\ [Models!Next]_(Models!vars) => Models!SlotsFilled'
<1> SUFFICES ASSUME Models!TypeOK, Models!SlotsFilled, [Models!Next]_(Models!vars) PROVE Models!SlotsFilled'
  OBVIOUS
<1>0. current \in Nat /\ previous \in Nat /\ \A r \in Readers : reader[r].version \in Nat
  BY DEF Models!TypeOK
<1>a. \A l \in Loaders : loader[l].new.version \in Nat
  BY DEF Models!TypeOK, Models!Versions
<1>b. ASSUME NEW l \in Loaders, Models!Inside(l) PROVE holder = {l} /\ \A m \in Loaders : m # l => ~Models!Inside(m)
  <2>1. holder = {l}
    BY <1>b DEF Models!SlotsFilled
  <2> QED
    BY <2>1 DEF Models!SlotsFilled
<1>1. ASSUME NEW l \in Loaders, Models!NewVersion(l) PROVE Models!SlotsFilled'
  <2>1. /\ loader[l].pc = "idle" /\ loader'[l].pc = "lock"
        /\ \A m \in Loaders : m # l => loader'[m] = loader[m]
    BY <1>1 DEF Models!NewVersion, Models!TypeOK
  <2>2. UNCHANGED <<slots, current, previous, holder, loadsOverlapped, reader>>
    BY <1>1 DEF Models!NewVersion
  <2>3. \A m \in Loaders : Models!Inside(m)' <=> Models!Inside(m)
    BY <2>1 DEF Models!Inside
  <2>4. \A m \in Loaders : Models!Inside(m) => m # l
    BY <2>1 DEF Models!Inside
  <2> QED
    BY <2>1, <2>2, <2>3, <2>4 DEF Models!SlotsFilled
<1>2. ASSUME NEW l \in Loaders, Models!KeepPrevious(l) PROVE Models!SlotsFilled'
  <2>1. /\ holder = {} /\ holder' = {l} /\ previous' = current
        /\ ~loadsOverlapped' => ~loadsOverlapped /\ loader[l].new.version = current + 1
    BY <1>2 DEF Models!KeepPrevious
  <2>2. /\ loader[l].pc = "lock" /\ loader'[l].pc = "write" /\ loader'[l].new = loader[l].new
        /\ \A m \in Loaders : m # l => loader'[m] = loader[m]
    BY <1>2 DEF Models!KeepPrevious, Models!TypeOK
  <2>3. UNCHANGED <<slots, current, reader>>
    BY <1>2 DEF Models!KeepPrevious
  <2>4. \A m \in Loaders : m # l => ~Models!Inside(m)
    BY <2>1 DEF Models!SlotsFilled
  <2>5. \A m \in Loaders : Models!Inside(m)' <=> m = l
    BY <2>2, <2>4 DEF Models!Inside
  <2>6. \A m \in Loaders : loader'[m].pc \notin {"writing", "publish"} /\ loader[m].pc \notin {"writing", "publish"}
    BY <2>2, <2>4 DEF Models!Inside
  <2> QED
    BY <1>0, <2>1, <2>2, <2>3, <2>5, <2>6 DEF Models!SlotsFilled
<1>3. ASSUME NEW l \in Loaders, Models!BeginWrite(l) PROVE Models!SlotsFilled'
  <2>1. /\ loader[l].pc = "write" /\ loader'[l].pc = "writing" /\ loader'[l].new = loader[l].new
        /\ \A m \in Loaders : m # l => loader'[m] = loader[m]
    BY <1>3 DEF Models!BeginWrite, Models!TypeOK
  <2>2. UNCHANGED <<current, previous, holder, loadsOverlapped, reader>>
    BY <1>3 DEF Models!BeginWrite
  <2>3. Models!Inside(l) /\ \A m \in Loaders : Models!Inside(m)' <=> Models!Inside(m)
    BY <2>1 DEF Models!Inside
  <2>4. \A m \in Loaders : loader'[m].pc # "publish"
    BY <1>b, <2>1, <2>3 DEF Models!Inside
  <2>5. ~loadsOverlapped => \A v \in Nat : v <= current /\ current < v + Models!kMaxVersions - 1
                                         => slots'[Models!Slot(v)] = slots[Models!Slot(v)]
    <3> SUFFICES ASSUME ~loadsOverlapped, NEW v \in Nat, v <= current, current < v + Models!kMaxVersions - 1
                 PROVE  slots'[Models!Slot(v)] = slots[Models!Slot(v)]
      OBVIOUS
    <3>1. loader[l].new.version = current + 1
      BY <2>3 DEF Models!SlotsFilled
    <3>2. v < current + 1 /\ current + 1 < v + Models!kMaxVersions
      BY <1>0 DEF Models!kMaxVersions
    <3>3. Models!Slot(v) # Models!Slot(current + 1) /\ Models!Slot(v) \in 0 .. Models!kMaxVersions - 1
      BY <1>0, <3>2, SlotsApart
    <3>4. slots' = [slots EXCEPT ![Models!Slot(current + 1)] = Models!NoModel]
      BY <1>3, <3>1 DEF Models!BeginWrite
    <3> QED
      BY <3>3, <3>4 DEF Models!TypeOK
  <2> QED
    BY <1>0, <2>1, <2>2, <2>3, <2>4, <2>5 DEF Models!SlotsFilled
<1>4. ASSUME NEW l \in Loaders, Models!EndWrite(l) PROVE Models!SlotsFilled'
  <2>1. /\ loader[l].pc = "writing" /\ loader'[l].pc = "publish" /\ loader'[l].new = loader[l].new
        /\ \A m \in Loaders : m # l => loader'[m] = loader[m]
    BY <1>4 DEF Models!EndWrite, Models!TypeOK
  <2>2. UNCHANGED <<current, previous, holder, loadsOverlapped, reader>>
    BY <1>4 DEF Models!EndWrite
  <2>3. Models!Inside(l) /\ \A m \in Loaders : Models!Inside(m)' <=> Models!Inside(m)
    BY <2>1 DEF Models!Inside
  <2>4. ASSUME ~loadsOverlapped
        PROVE  /\ slots'[Models!Slot(current + 1)].version = current + 1
               /\ \A v \in Nat : v <= current /\ current < v + Models!kMaxVersions - 1
                                => slots'[Models!Slot(v)] = slots[Models!Slot(v)]
    <3>1. loader[l].new.version = current + 1
      BY <2>3, <2>4 DEF Models!SlotsFilled
    <3>2. slots' = [slots EXCEPT ![Models!Slot(current + 1)] = loader[l].new]
      BY <1>4, <3>1 DEF Models!EndWrite
    <3>3. Models!Slot(current + 1) \in 0 .. Models!kMaxVersions - 1
      BY <1>0, SlotsApart
    <3>4. slots'[Models!Slot(current + 1)].version = current + 1
      BY <3>1, <3>2, <3>3 DEF Models!TypeOK
    <3>5. ASSUME NEW v \in Nat, v <= current, current < v + Models!kMaxVersions - 1
          PROVE  slots'[Models!Slot(v)] = slots[Models!Slot(v)]
      <4>1. v < current + 1 /\ current + 1 < v + Models!kMaxVersions
        BY <1>0, <3>5 DEF Models!kMaxVersions
      <4>2. Models!Slot(v) # Models!Slot(current + 1) /\ Models!Slot(v) \in 0 .. Models!kMaxVersions - 1
        BY <1>0, <4>1, SlotsApart
      <4> QED
        BY <3>2, <4>2 DEF Models!TypeOK
    <3> QED
      BY <3>4, <3>5
  <2> QED
    BY <1>0, <2>1, <2>2, <2>3, <2>4 DEF Models!SlotsFilled
<1>5. ASSUME NEW l \in Loaders, Models!Publish(l) PROVE Models!SlotsFilled'
  <2>1. /\ loader[l].pc = "publish" /\ loader'[l].pc = "idle" /\ holder' = {}
        /\ \A m \in Loaders : m # l => loader'[m] = loader[m]
    BY <1>5 DEF Models!Publish, Models!TypeOK
  <2>2. UNCHANGED <<slots, previous, loadsOverlapped, reader>> /\ current' = loader[l].new.version
    BY <1>5 DEF Models!Publish
  <2>3. Models!Inside(l) /\ \A m \in Loaders : ~Models!Inside(m)'
    BY <1>b, <2>1 DEF Models!Inside
  <2>4. ~loadsOverlapped => current' = current + 1 /\ slots[Models!Slot(current + 1)].version = current + 1
    BY <2>1, <2>2, <2>3 DEF Models!SlotsFilled
  <2>5. ASSUME ~loadsOverlapped, NEW v \in Nat, 1 <= v, v <= current', current' <= v + Models!kMaxVersions - 1
        PROVE  slots[Models!Slot(v)].version = v
    <3>1. CASE v = current + 1
      BY <2>4, <2>5, <3>1
    <3>2. CASE v <= current
      <4>1. current < v + Models!kMaxVersions - 1
        BY <1>0, <2>4, <2>5 DEF Models!kMaxVersions
      <4> QED
        BY <2>5, <3>2, <4>1 DEF Models!SlotsFilled
    <3> QED
      BY <1>0, <2>4, <2>5, <3>1, <3>2
  <2>6. \A m \in Loaders : loader'[m].pc # "publish"
    BY <2>3 DEF Models!Inside
  <2>7. ~loadsOverlapped => previous <= current' /\ \A r \in Readers : reader[r].version <= current'
    BY <1>0, <2>4 DEF Models!SlotsFilled
  <2>8. ~loadsOverlapped => current' \in Nat
    BY <1>0, <2>4
  <2>9. ~loadsOverlapped' =>
           /\ \A v \in Nat : 1 <= v /\ v <= current' /\ current' < v + Models!kMaxVersions - 1
                            => slots'[Models!Slot(v)].version = v
           /\ \A v \in Nat : 1 <= v /\ current' = v + Models!kMaxVersions - 1
                            => slots'[Models!Slot(v)].version = v
    BY <2>2, <2>5, <2>8 DEF Models!kMaxVersions
  <2>10. \A m \in Loaders : holder' # {m}
    BY <2>1
  <2> QED
    BY <2>2, <2>3, <2>6, <2>7, <2>9, <2>10 DEF Models!SlotsFilled
<1>6. ASSUME NEW r \in Readers,
             \/ Models!LoadCurrent(r) \/ Models!LoadPrevious(r) \/ Models!Compare(r)
             \/ Models!ReadSlot(r) \/ Models!Dereference(r) \/ Models!Done(r)
      PROVE  Models!SlotsFilled'
  <2>1. UNCHANGED <<slots, current, previous, holder, loadsOverlapped, loader>>
    BY <1>6 DEF Models!LoadCurrent, Models!LoadPrevious, Models!Compare, Models!ReadSlot, Models!Dereference,
               Models!Done
  <2>2. \A q \in Readers : reader'[q].version \in {reader[q].version, current, previous, 0}
    <3>1. CASE Models!Dereference(r)
      <4>1. \E m : reader' = [reader EXCEPT ![r].pc = "got", ![r].got = m]
        BY <3>1 DEF Models!Dereference
      <4> QED
        BY <4>1 DEF Models!TypeOK
    <3>2. CASE Models!LoadCurrent(r) \/ Models!LoadPrevious(r) \/ Models!Done(r)
      BY <3>2 DEF Models!LoadCurrent, Models!LoadPrevious, Models!Done, Models!TypeOK
    <3>3. CASE Models!Compare(r) \/ Models!ReadSlot(r)
      BY <3>3 DEF Models!Compare, Models!ReadSlot, Models!TypeOK
    <3> QED
      BY <1>6, <3>1, <3>2, <3>3
  <2>3. \A m \in Loaders : Models!Inside(m)' <=> Models!Inside(m)
    BY <2>1 DEF Models!Inside
  <2>4. ~loadsOverlapped => \A q \in Readers : reader'[q].version <= current
    BY <1>0, <2>2 DEF Models!SlotsFilled
  <2> QED
    BY <2>1, <2>3, <2>4 DEF Models!SlotsFilled
<1>7. CASE UNCHANGED Models!vars
  BY <1>7 DEF Models!vars, Models!SlotsFilled, Models!Inside
<1> QED
  BY <1>1, <1>2, <1>3, <1>4, <1>5, <1>6, <1>7 DEF Models!Next

\* A load writes no slot of the last kMaxVersions - 1 versions.
LEMMA WrittenElsewhere ==
  ASSUME Models!TypeOK, Models!SlotsFilled, ~loadsOverlapped,
         NEW l \in Loaders, Models!BeginWrite(l) \/ Models!EndWrite(l),
         NEW v \in Nat, v <= current, current < v + Models!kMaxVersions - 1
  PROVE  slots'[Models!Slot(v)] = slots[Models!Slot(v)]
<1>1. current \in Nat /\ Models!Inside(l)
  BY DEF Models!TypeOK, Models!BeginWrite, Models!EndWrite, Models!Inside
<1>2. loader[l].new.version = current + 1
  BY <1>1 DEF Models!SlotsFilled
<1>3. v < current + 1 /\ current + 1 < v + Models!kMaxVersions
  BY <1>1 DEF Models!kMaxVersions
<1>4. Models!Slot(v) # Models!Slot(current + 1) /\ Models!Slot(v) \in 0 .. Models!kMaxVersions - 1
  BY <1>1, <1>3, SlotsApart
<1>5. PICK m \in {Models!NoModel, loader[l].new} : slots' = [slots EXCEPT ![Models!Slot(current + 1)] = m]
  BY <1>2 DEF Models!BeginWrite, Models!EndWrite
<1> QED
  BY <1>4, <1>5 DEF Models!TypeOK

LEMMA ModelInitHeld == Models!Init => Models!SlotHeld
BY DEF Models!Init, Models!SlotHeld

\* Every step leaves alone the slots that are followed.
LEMMA ModelNextHeld ==
  Models!TypeOK /\ Models!SlotsFilled /\ Models!SlotHeld /\ [Models!Next]_(Models!vars) => Models!SlotHeld'
<1> SUFFICES ASSUME Models!TypeOK, Models!SlotsFilled, Models!SlotHeld, [Models!Next]_(Models!vars)
             PROVE  Models!SlotHeld'
  OBVIOUS
<1>0. current \in Nat /\ \A r \in Readers : reader[r].version \in Nat
  BY DEF Models!TypeOK
<1>1. ASSUME NEW l \in Loaders, Models!NewVersion(l) \/ Models!KeepPrevious(l) PROVE Models!SlotHeld'
  <2>1. UNCHANGED <<reader, slots, current>>
    BY <1>1 DEF Models!NewVersion, Models!KeepPrevious
  <2>2. CASE Models!NewVersion(l)
    BY <2>1, <2>2 DEF Models!NewVersion, Models!SlotHeld
  <2>3. CASE Models!KeepPrevious(l)
    <3>1. loadsOverlapped => loadsOverlapped'
      BY <2>3 DEF Models!KeepPrevious
    <3> QED
      BY <2>1, <3>1 DEF Models!SlotHeld
  <2> QED
    BY <1>1, <2>2, <2>3
<1>2. ASSUME NEW l \in Loaders, Models!BeginWrite(l) \/ Models!EndWrite(l) PROVE Models!SlotHeld'
  <2>1. UNCHANGED <<reader, current, loadsOverlapped>>
    BY <1>2 DEF Models!BeginWrite, Models!EndWrite
  <2>2. ASSUME NEW r \in Readers, ~loadsOverlapped, current < reader[r].version + Models!kMaxVersions - 1
        PROVE  slots'[Models!Slot(reader[r].version)] = slots[Models!Slot(reader[r].version)]
    <3>1. reader[r].version \in Nat /\ reader[r].version <= current
      BY <1>0, <2>2 DEF Models!SlotsFilled
    <3> QED
      BY <1>2, <2>2, <3>1, WrittenElsewhere
  <2> QED
    BY <2>1, <2>2 DEF Models!SlotHeld
<1>3. ASSUME NEW l \in Loaders, Models!Publish(l) PROVE Models!SlotHeld'
  <2>1. UNCHANGED <<reader, slots, loadsOverlapped>> /\ current' = loader[l].new.version
    BY <1>3 DEF Models!Publish
  <2>2. ~loadsOverlapped => current' = current + 1
    BY <1>3, <2>1 DEF Models!Publish, Models!SlotsFilled, Models!Inside
  <2> QED
    BY <1>0, <2>1, <2>2 DEF Models!SlotHeld, Models!kMaxVersions
<1>4. ASSUME NEW r \in Readers,
             \/ Models!LoadCurrent(r) \/ Models!LoadPrevious(r) \/ Models!Compare(r)
             \/ Models!Dereference(r) \/ Models!Done(r)
      PROVE  Models!SlotHeld'
  <2>1. /\ \A q \in Readers : q # r => reader'[q] = reader[q]
        /\ reader'[r].pc # "follow"
        /\ UNCHANGED <<loadsOverlapped, current, slots>>
    BY <1>4 DEF Models!LoadCurrent, Models!LoadPrevious, Models!Compare, Models!Dereference, Models!Done,
               Models!TypeOK
  <2> QED
    BY <2>1 DEF Models!SlotHeld
<1>5. ASSUME NEW r \in Readers, Models!ReadSlot(r) PROVE Models!SlotHeld'
  <2>1. /\ \A q \in Readers : q # r => reader'[q] = reader[q]
        /\ reader'[r].version = reader[r].version /\ reader'[r].got = slots[Models!Slot(reader[r].version)]
        /\ UNCHANGED <<loadsOverlapped, current, slots>>
    BY <1>5 DEF Models!ReadSlot, Models!TypeOK
  <2> QED
    BY <2>1 DEF Models!SlotHeld
<1>6. CASE UNCHANGED Models!vars
  BY <1>6 DEF Models!vars, Models!SlotHeld
<1> QED
  BY <1>1, <1>2, <1>3, <1>4, <1>5, <1>6 DEF Models!Next

\* Every step keeps what the readers got good.
LEMMA ModelNextServed ==
  Models!TypeOK /\ Models!SlotsFilled /\ Models!SlotHeld /\ Models!ModelServed /\ [Models!Next]_(Models!vars)
    => Models!ModelServed'
<1> SUFFICES ASSUME Models!TypeOK, Models!SlotsFilled, Models!SlotHeld, Models!ModelServed,
                    [Models!Next]_(Models!vars)
             PROVE  Models!ModelServed'
  OBVIOUS
<1>0. current \in Nat /\ \A r \in Readers : reader[r].version \in Nat
  BY DEF Models!TypeOK
<1>1. ASSUME NEW l \in Loaders,
             Models!NewVersion(l) \/ Models!KeepPrevious(l) \/ Models!BeginWrite(l) \/ Models!EndWrite(l)
      PROVE  Models!ModelServed'
  <2>1. reader' = reader /\ current' = current
    BY <1>1 DEF Models!NewVersion, Models!KeepPrevious, Models!BeginWrite, Models!EndWrite
  <2>2. CASE Models!KeepPrevious(l)
    <3>1. loadsOverlapped => loadsOverlapped'
      BY <2>2 DEF Models!KeepPrevious
    <3> QED
      BY <2>1, <3>1 DEF Models!ModelServed
  <2>3. CASE Models!NewVersion(l) \/ Models!BeginWrite(l) \/ Models!EndWrite(l)
    <3>1. loadsOverlapped' = loadsOverlapped
      BY <2>3 DEF Models!NewVersion, Models!BeginWrite, Models!EndWrite
    <3> QED
      BY <2>1, <3>1 DEF Models!ModelServed
  <2> QED
    BY <1>1, <2>2, <2>3
<1>2. ASSUME NEW l \in Loaders, Models!Publish(l) PROVE Models!ModelServed'
  <2>1. reader' = reader /\ loadsOverlapped' = loadsOverlapped /\ current' = loader[l].new.version
    BY <1>2 DEF Models!Publish
  <2>2. ~loadsOverlapped => current' = current + 1
    BY <1>2, <2>1 DEF Models!Publish, Models!SlotsFilled, Models!Inside
  <2> QED
    BY <1>0, <2>1, <2>2 DEF Models!ModelServed, Models!kMaxVersions
<1>3. ASSUME NEW r \in Readers, Models!Dereference(r) PROVE Models!ModelServed'
  <2>1. /\ \A q \in Readers : q # r => reader'[q] = reader[q]
        /\ reader[r].pc = "follow" /\ reader'[r].version = reader[r].version
        /\ slots[Models!Slot(reader[r].version)] = reader[r].got => reader'[r].got = reader[r].got
        /\ loadsOverlapped' = loadsOverlapped /\ current' = current
    BY <1>3 DEF Models!Dereference, Models!TypeOK
  <2>2. ASSUME ~loadsOverlapped, reader[r].version >= 1, current < reader[r].version + Models!kMaxVersions - 1
        PROVE  reader'[r].got.version = reader[r].version
    <3>1. slots[Models!Slot(reader[r].version)].version = reader[r].version
      BY <1>0, <2>2 DEF Models!SlotsFilled
    <3>2. reader[r].got = slots[Models!Slot(reader[r].version)]
      BY <2>1, <2>2 DEF Models!SlotHeld
    <3> QED
      BY <2>1, <3>1, <3>2
  <2> QED
    BY <2>1, <2>2 DEF Models!ModelServed
<1>4. ASSUME NEW r \in Readers,
             \/ Models!LoadCurrent(r) \/ Models!LoadPrevious(r) \/ Models!Compare(r)
             \/ Models!ReadSlot(r) \/ Models!Done(r)
      PROVE  Models!ModelServed'
  <2>1. /\ \A q \in Readers : q # r => reader'[q] = reader[q]
        /\ reader'[r].pc # "got"
        /\ loadsOverlapped' = loadsOverlapped /\ current' = current
    BY <1>4 DEF Models!LoadCurrent, Models!LoadPrevious, Models!Compare, Models!ReadSlot, Models!Done,
               Models!TypeOK
  <2> QED
    BY <2>1 DEF Models!ModelServed
<1>5. CASE UNCHANGED Models!vars
  BY <1>5 DEF Models!vars, Models!ModelServed
<1> QED
  BY <1>1, <1>2, <1>3, <1>4, <1>5 DEF Models!Next

(***************************************************************************)
(* As long as no two loads overlap, a reader gets the model of the version *)
(* it loaded, unless it slept through kMaxVersions - 1 further loads.      *)
(***************************************************************************)
THEOREM ModelsServed == Models!Spec => []ModelServed
<1>1. Models!Init => Models!ModelServed
  BY DEF Models!Init, Models!ModelServed
<1>2. Models!ModelServed => ModelServed
  BY DEF ModelServed
<1> QED
  BY <1>1, <1>2, ModelInitFilled, ModelNextFilled, ModelInitHeld, ModelNextHeld, ModelNextServed,
     ModelTypeCorrect, PTL DEF Models!Spec

=============================================================================

-------------------------- MODULE LiveConfigProofs --------------------------
(***************************************************************************)
(* Proofs about LiveConfig, for any threads, profiles and config files,    *)
(* and about ConfigWatcher, which feeds it, for any bounds.                *)
(***************************************************************************)
EXTENDS LiveConfig, WatcherComponent, TLAPS

\* Laying settings over a snapshot gives a snapshot.
LEMMA OverlayType ==
  ASSUME NEW s \in Snapshots, NEW ask \in Asks
  PROVE  Overlay(s, ask) \in Snapshots
BY DEF Overlay, Asks, Snapshots

\* A valid snapshot stays valid under the keys of a config file.
LEMMA OverlayValid ==
  ASSUME NEW s \in Snapshots, Validate(s), NEW ask \in Contents
  PROVE  Validate(Overlay(s, ask))
BY ContentsAssumption DEF Overlay, Validate, Snapshots

\* The default snapshot and the locals of an idle thread are well typed.
LEMMA DefaultsType == Default \in Snapshots /\ Nothing \in Asks /\ Idle \in Locals
<1>1. Default \in Snapshots
  BY ProfilesAssumption DEF Default, Snapshots
<1>2. Nothing \in Asks
  BY DEF Nothing, Asks
<1>3. << >> \in Seq(Features)
  OBVIOUS
<1> QED BY <1>1, <1>2, <1>3 DEF Idle, Locals

\* What a config file asks for is an ask.
LEMMA ContentsAreAsks == Contents \subseteq Asks
BY ContentsAssumption, ProfilesAssumption DEF Asks

\* The initial state is well typed.
LEMMA TypeInitial == Init => TypeOK
<1> SUFFICES ASSUME Init PROVE TypeOK
  OBVIOUS
<1>1. current \in Snapshots /\ booted \in BOOLEAN
  BY DefaultsType, Zenon DEF Init
<1>11. version \in Nat /\ ops \in 0 .. MaxOps
  BY MaxOpsAssumption DEF Init
<1>2. features \in [Features -> FeatureStates]
  BY DEF Init, FeatureStates
<1>3. thr \in [Threads -> Locals]
  BY DefaultsType DEF Init
<1>4. asked \in [profile : Profiles, flags : SUBSET Features]
  BY ProfilesAssumption DEF Init
<1>5. overlapped \in BOOLEAN
  BY Zenon DEF Init
<1> QED BY <1>1, <1>11, <1>2, <1>3, <1>4, <1>5 DEF TypeOK

\* Starting an operation keeps the bookkeeping of threads well typed.
LEMMA BeginType ==
  ASSUME TypeOK, NEW t \in Threads, NEW locals \in Locals, Begin(t, locals)
  PROVE  /\ thr' \in [Threads -> Locals] /\ ops' \in 0 .. MaxOps
         /\ asked' = asked /\ overlapped' \in BOOLEAN
<1>1. thr' \in [Threads -> Locals] /\ ops' \in 0 .. MaxOps
  BY MaxOpsAssumption DEF Begin, TypeOK
<1>2. overlapped' \in BOOLEAN
  BY Zenon DEF Begin, TypeOK
<1>3. asked' = asked
  BY DEF Begin
<1> QED BY <1>1, <1>2, <1>3

\* handle_error leaves every switch in one of the four states.
LEMMA HandleErrorType ==
  ASSUME TypeOK, NEW f \in Features, NEW code \in Nat, HandleError(f, code)
  PROVE  features' \in [Features -> FeatureStates]
BY DEF HandleError, TypeOK, FeatureStates

\* Every step keeps every variable in its type.
LEMMA TypeInductive == TypeOK /\ [Next]_vars => TypeOK'
<1> SUFFICES ASSUME TypeOK, [Next]_vars PROVE TypeOK'
  OBVIOUS
<1> USE DEF history
<1>0. FeatureOrder \in Seq(Features)
  BY DEF FeatureOrder, Features
<1>1. ASSUME NEW ask \in Contents, ApplyContent(ask) PROVE TypeOK'
  <2> DEFINE l == [Idle EXCEPT !.op = "apply", !.pc = "load", !.ask = ask,
                               !.snap = Overlay(current, ask)]
  <2>1. Overlay(current, ask) \in Snapshots /\ ask \in Asks
    BY OverlayType, ContentsAreAsks DEF TypeOK
  <2>2. l \in Locals
    BY <2>1, DefaultsType DEF Locals
  <2>3. Watcher \in Threads /\ Begin(Watcher, l)
    BY <1>1 DEF ApplyContent, Threads
  <2>4. /\ thr' \in [Threads -> Locals] /\ ops' \in 0 .. MaxOps
        /\ asked' = asked /\ overlapped' \in BOOLEAN
    BY <2>2, <2>3, BeginType
  <2> QED BY <1>1, <2>4 DEF TypeOK, ApplyContent
<1>2. ASSUME NEW t \in Callers, NEW p \in Profiles, SyncProfile(t, p) PROVE TypeOK'
  <2> DEFINE l == [Idle EXCEPT !.op = "sync", !.pc = "load", !.ask = [Nothing EXCEPT !.profile = p]]
  <2>1. [Nothing EXCEPT !.profile = p] \in Asks
    BY DEF Nothing, Asks
  <2>2. l \in Locals
    BY <2>1, DefaultsType DEF Locals
  <2>3. t \in Threads /\ Begin(t, l)
    BY <1>2 DEF SyncProfile, Threads
  <2>4. /\ thr' \in [Threads -> Locals] /\ ops' \in 0 .. MaxOps
        /\ asked' = asked /\ overlapped' \in BOOLEAN
    BY <2>2, <2>3, BeginType
  <2> QED BY <1>2, <2>4 DEF TypeOK, SyncProfile
<1>3. ASSUME NEW t \in Callers, JitMiss(t) \/ Recover(t) PROVE TypeOK'
  <2> DEFINE l == [Idle EXCEPT !.op = "jit", !.pc = "degrade"]
             k == [Idle EXCEPT !.op = "recover", !.pc = "degrade"]
  <2>1. l \in Locals /\ k \in Locals
    BY DefaultsType DEF Locals
  <2>2. t \in Threads /\ (Begin(t, l) \/ Begin(t, k))
    BY <1>3 DEF JitMiss, Recover, Threads
  <2>3. /\ thr' \in [Threads -> Locals] /\ ops' \in 0 .. MaxOps
        /\ asked' = asked /\ overlapped' \in BOOLEAN
    BY <2>1, <2>2, BeginType
  <2> QED BY <1>3, <2>3 DEF TypeOK, JitMiss, Recover
<1>4. CASE NothingToRecover
  <2>1. booted' \in BOOLEAN
    BY <1>4, Zenon DEF NothingToRecover
  <2> QED BY <1>4, <2>1 DEF NothingToRecover, TypeOK
<1>5. ASSUME NEW t \in Threads, UpdateLoad(t) PROVE TypeOK'
  BY <1>5 DEF UpdateLoad, TypeOK, Locals
<1>6. ASSUME NEW t \in Threads, UpdateMutate(t) PROVE TypeOK'
  <2>1. thr[t] \in Locals
    BY DEF TypeOK
  <2>2. [thr[t].new EXCEPT !.version = version + 1] \in Snapshots
    <3>1. thr[t].new \in Snapshots /\ version + 1 \in Nat
      BY <2>1 DEF TypeOK, Locals
    <3> QED BY <3>1 DEF Snapshots
  <2>3. Mutated(t) \in Snapshots
    BY <2>1, <2>2, OverlayType DEF Mutated, Locals
  <2>4. /\ [thr[t] EXCEPT !.new = Mutated(t), !.pc = "store"] \in Locals
        /\ [thr[t] EXCEPT !.pc = "flags", !.todo = FeatureOrder] \in Locals
    BY <1>0, <2>1, <2>3 DEF Locals
  <2> QED BY <1>6, <2>4 DEF UpdateMutate, TypeOK
<1>7. ASSUME NEW t \in Threads, UpdateStore(t) PROVE TypeOK'
  <2>0. thr[t] \in Locals
    BY DEF TypeOK
  <2>1. thr[t].new \in Snapshots /\ thr[t].ask \in Asks
    BY <2>0 DEF Locals
  <2>2. asked' \in [profile : Profiles, flags : SUBSET Features]
    BY <1>7, <2>1 DEF UpdateStore, TypeOK, Overlay, Asks
  <2>3. [thr[t] EXCEPT !.pc = "bump"] \in Locals
    BY <2>0 DEF Locals
  <2>4. thr' \in [Threads -> Locals]
    BY <1>7, <2>3 DEF UpdateStore, TypeOK
  <2> QED BY <1>7, <2>1, <2>2, <2>4 DEF UpdateStore, TypeOK
<1>8. ASSUME NEW t \in Threads, UpdateBump(t) PROVE TypeOK'
  <2>1. thr[t] \in Locals
    BY DEF TypeOK
  <2>2. [thr[t] EXCEPT !.pc = "flags", !.todo = FeatureOrder] \in Locals
    BY <1>0, <2>1 DEF Locals
  <2>3. thr' \in [Threads -> Locals]
    BY <1>8, <2>2 DEF UpdateBump, TypeOK
  <2> QED BY <1>8, <2>3 DEF UpdateBump, TypeOK
<1>9. ASSUME NEW t \in Threads, FlagRead(t) PROVE TypeOK'
  <2>1. thr[t] \in Locals
    BY DEF TypeOK
  <2>2. [thr[t] EXCEPT !.snap = current, !.pc = "set"] \in Locals
    BY <2>1 DEF Locals, TypeOK
  <2>3. thr' \in [Threads -> Locals]
    BY <1>9, <2>2 DEF FlagRead, TypeOK
  <2> QED BY <1>9, <2>3 DEF FlagRead, TypeOK
<1>10. ASSUME NEW t \in Threads, FlagSet(t) PROVE TypeOK'
  <2>1. Head(thr[t].todo) \in Features /\ Tail(thr[t].todo) \in Seq(Features)
    BY <1>10 DEF FlagSet, TypeOK, Locals
  <2>2. features' \in [Features -> FeatureStates]
    BY <1>10, <2>1, HandleErrorType DEF FlagSet
  <2>3. thr' \in [Threads -> Locals]
    <3>1. thr[t] \in Locals
      BY DEF TypeOK
    <3>2. [thr[t] EXCEPT !.todo = Tail(thr[t].todo), !.pc = "flags"] \in Locals
      BY <2>1, <3>1 DEF Locals
    <3> QED BY <1>10, <3>2 DEF FlagSet, TypeOK
  <2> QED BY <1>10, <2>2, <2>3 DEF FlagSet, TypeOK
<1>11. ASSUME NEW t \in Threads, FlagsDone(t) PROVE TypeOK'
  BY <1>11, DefaultsType DEF FlagsDone, TypeOK
<1>12. ASSUME NEW t \in Threads, Degrade(t) \/ Restore(t) PROVE TypeOK'
  <2>1. Degradable(t) \in Features
    BY DEF Degradable, Features
  <2>2. features' \in [Features -> FeatureStates]
    BY <1>12, <2>1, HandleErrorType DEF Degrade, Restore
  <2>3. thr' \in [Threads -> Locals]
    <3>1. thr[t] \in Locals
      BY DEF TypeOK
    <3>2. [thr[t] EXCEPT !.pc = "restore"] \in Locals
      BY <3>1 DEF Locals
    <3> QED BY <1>12, <3>2, DefaultsType DEF Degrade, Restore, TypeOK
  <2>4. booted' \in BOOLEAN
    BY <1>12, Zenon DEF Degrade, Restore, TypeOK
  <2> QED BY <1>12, <2>2, <2>3, <2>4 DEF Degrade, Restore, TypeOK
<1>13. CASE UNCHANGED vars
  BY <1>13 DEF vars, TypeOK
<1> QED
  BY <1>1, <1>2, <1>3, <1>4, <1>5, <1>6, <1>7, <1>8, <1>9, <1>10, <1>11, <1>12, <1>13
     DEF Next, Step

\* Type correctness of the configuration and its writers.
THEOREM ConfigTypeCorrect == Spec => []TypeOK
BY TypeInitial, TypeInductive, PTL DEF Spec

---------------------------------------------------------------------------
\* Validity of what readers see

\* Every step keeps current_ and the snapshots held by the threads valid.
LEMMA ValidInductive == TypeOK /\ ConfigInv /\ [Next]_vars => ConfigInv'
<1> SUFFICES ASSUME TypeOK, ConfigInv, [Next]_vars PROVE ConfigInv'
  OBVIOUS
<1> USE DEF ConfigInv, OnlyValidSnapshots, HeldSnapshotsValid, history
<1>0. Validate(Default) /\ Validate(Idle.snap) /\ Idle.pc # "store"
  BY ProfilesAssumption DEF Validate, Default, Idle
<1>1. ASSUME NEW ask \in Contents, ApplyContent(ask) PROVE ConfigInv'
  <2>1. Validate(Overlay(current, ask))
    BY OverlayValid DEF TypeOK
  <2> QED BY <1>1, <2>1 DEF ApplyContent, Begin, TypeOK, Idle, Validate
<1>2. ASSUME NEW t \in Callers, NEW p \in Profiles, SyncProfile(t, p) PROVE ConfigInv'
  BY <1>0, <1>2 DEF SyncProfile, Begin, TypeOK, Idle, Validate
<1>3. ASSUME NEW t \in Callers, JitMiss(t) \/ Recover(t) PROVE ConfigInv'
  <2>1. current' = current /\ t \in Threads
    BY <1>3 DEF JitMiss, Recover, Threads
  <2>2. \A u \in Threads \ {t} : thr'[u] = thr[u]
    BY <1>3 DEF JitMiss, Recover, Begin, TypeOK
  <2>3. thr'[t].snap = Idle.snap /\ thr'[t].pc = "degrade"
    BY <1>3, <2>1 DEF JitMiss, Recover, Begin, TypeOK, Idle
  <2> QED BY <1>0, <2>1, <2>2, <2>3 DEF Validate
<1>4. ASSUME NEW t \in Threads, UpdateLoad(t) \/ UpdateBump(t) \/ FlagRead(t) PROVE ConfigInv'
  <2>1. current' = current /\ \A u \in Threads \ {t} : thr'[u] = thr[u]
    BY <1>4 DEF UpdateLoad, UpdateBump, FlagRead, TypeOK
  <2>2. thr[t] \in Locals
    BY DEF TypeOK
  <2>3. thr'[t].snap \in {thr[t].snap, current} /\ thr'[t].pc # "store"
    BY <1>4, <2>2 DEF UpdateLoad, UpdateBump, FlagRead, TypeOK, Locals
  <2> QED BY <2>1, <2>3 DEF Validate
<1>5. ASSUME NEW t \in Threads, UpdateMutate(t) PROVE ConfigInv'
  <2>1. thr[t] \in Locals
    BY DEF TypeOK
  <2>2. thr'[t].snap = thr[t].snap /\ (thr'[t].pc = "store" => Validate(thr'[t].new))
    BY <1>5, <2>1 DEF UpdateMutate, TypeOK, Locals
  <2>3. current' = current /\ \A u \in Threads \ {t} : thr'[u] = thr[u]
    BY <1>5 DEF UpdateMutate, TypeOK
  <2> QED BY <2>2, <2>3 DEF Validate
<1>6. ASSUME NEW t \in Threads, UpdateStore(t) PROVE ConfigInv'
  BY <1>6 DEF UpdateStore, TypeOK, Locals, Validate
<1>7. ASSUME NEW t \in Threads, FlagSet(t) \/ FlagsDone(t) \/ Degrade(t) \/ Restore(t)
      PROVE ConfigInv'
  <2>1. current' = current /\ \A u \in Threads \ {t} : thr'[u] = thr[u]
    BY <1>7 DEF FlagSet, FlagsDone, Degrade, Restore, TypeOK
  <2>2. thr[t] \in Locals
    BY DEF TypeOK
  <2>3. thr'[t].snap \in {thr[t].snap, Idle.snap} /\ thr'[t].pc # "store"
    BY <1>0, <1>7, <2>2 DEF FlagSet, FlagsDone, Degrade, Restore, TypeOK, Locals
  <2> QED BY <1>0, <2>1, <2>3 DEF Validate
<1>8. CASE NothingToRecover \/ UNCHANGED vars
  BY <1>8 DEF NothingToRecover, vars, Validate
<1> QED
  BY <1>1, <1>2, <1>3, <1>4, <1>5, <1>6, <1>7, <1>8 DEF Next, Step

(***************************************************************************)
(* Whatever operations overlap, and however many threads run them, no      *)
(* reader of AtomicConfig sees a snapshot that validate would refuse.      *)
(***************************************************************************)
THEOREM SnapshotsValid == Spec => []OnlyValidSnapshots
<1>1. Init => ConfigInv
  BY ProfilesAssumption
     DEF Init, ConfigInv, OnlyValidSnapshots, HeldSnapshotsValid, Validate, Default, Idle
<1>2. ConfigInv => OnlyValidSnapshots
  BY DEF ConfigInv
<1> QED BY <1>1, <1>2, ValidInductive, ConfigTypeCorrect, PTL DEF Spec

---------------------------------------------------------------------------
\* Operations that do not overlap

Settings(s) == [profile |-> s.profile, flags |-> s.flags]

\* Only one operation is under way.
Alone == \A t, u \in Threads : thr[t].pc # "idle" /\ thr[u].pc # "idle" => t = u

\* What the one operation under way holds, when nobody came in between.
Known(t) ==
  LET c == thr[t] IN
  /\ c.pc \in {"load", "mutate", "store", "bump", "flags", "set"} => c.op \in {"apply", "sync"}
  /\ c.pc \in {"degrade", "restore"} =>
       c.op \in {"jit", "recover"} /\ Degradable(t) \in current.flags
  /\ c.pc \in {"load", "mutate"} /\ c.op = "apply" =>
       Settings(c.snap) = Settings(Overlay(current, c.ask))
  /\ c.pc = "mutate" => c.new = current
  /\ c.pc = "store" => Settings(c.new) = Settings(Overlay(current, c.ask))
  /\ c.pc = "store" /\ c.op = "apply" => c.snap = c.new
  /\ c.pc \in {"bump", "flags"} /\ c.op = "apply" => c.snap.flags = current.flags
  /\ c.pc = "set" => c.op = "sync" /\ c.snap = current
  /\ c.pc # "idle" /\ ~booted => c.op = "recover"

\* The switches thread t still has to set after its update.
Pending(t) ==
  CASE thr[t].pc = "bump" -> Features
    [] thr[t].pc \in {"flags", "set"} -> {thr[t].todo[i] : i \in 1 .. Len(thr[t].todo)}
    [] OTHER -> {}

Follows(f) == IsAvailable(f) <=> f \in current.flags

SwitchesFollow == \A f \in Features : (\A t \in Threads : f \notin Pending(t)) => Follows(f)

\* Until the device is up nothing has touched the defaults.
DefaultsUntilBooted == ~booted => current.flags = Features

SerialInv ==
  ~overlapped =>
    /\ Alone
    /\ \A t \in Threads : Known(t)
    /\ SwitchesFollow
    /\ DefaultsUntilBooted
    /\ NoLostUpdate

\* What the keys of a config file or a profile do, field by field.
LEMMA OverlaySettings ==
  ASSUME NEW s, NEW r, NEW ask \in Asks,
         s \in Snapshots \/ s \in [profile : Profiles, flags : SUBSET Features],
         r \in Snapshots \/ r \in [profile : Profiles, flags : SUBSET Features]
  PROVE  /\ Settings(s) = Settings(r) <=> s.profile = r.profile /\ s.flags = r.flags
         /\ Settings(s) = Settings(r) => Settings(Overlay(s, ask)) = Settings(Overlay(r, ask))
         /\ Overlay(s, ask).profile = IF ask.profile = Keep THEN s.profile ELSE ask.profile
         /\ Overlay(s, ask).flags = (s.flags \cup ask.on) \ ask.off
<1>1. Overlay(s, ask).profile = IF ask.profile = Keep THEN s.profile ELSE ask.profile
  BY DEF Overlay, Snapshots
<1>2. Overlay(r, ask).profile = IF ask.profile = Keep THEN r.profile ELSE ask.profile
  BY DEF Overlay, Snapshots
<1>3. /\ Overlay(s, ask).flags = (s.flags \cup ask.on) \ ask.off
      /\ Overlay(r, ask).flags = (r.flags \cup ask.on) \ ask.off
  BY DEF Overlay, Snapshots
<1>4. Settings(s) = Settings(r) <=> s.profile = r.profile /\ s.flags = r.flags
  BY DEF Settings
<1>5. ASSUME s.profile = r.profile, s.flags = r.flags
      PROVE  Settings(Overlay(s, ask)) = Settings(Overlay(r, ask))
  BY <1>1, <1>2, <1>3, <1>5 DEF Settings
<1> QED BY <1>1, <1>3, <1>4, <1>5

\* Setting the first switch of a list leaves those of its tail.
LEMMA TodoSplit ==
  ASSUME NEW s \in Seq(Features), s # << >>
  PROVE  {s[i] : i \in 1 .. Len(s)} = {Head(s)} \cup {Tail(s)[i] : i \in 1 .. Len(Tail(s))}
<1>1. Len(s) \in Nat \ {0} /\ Head(s) = s[1] /\ Len(Tail(s)) = Len(s) - 1
      /\ \A i \in 1 .. Len(s) - 1 : Tail(s)[i] = s[i + 1]
  OBVIOUS
<1>2. ASSUME NEW i \in 1 .. Len(s)
      PROVE  s[i] \in {Head(s)} \cup {Tail(s)[j] : j \in 1 .. Len(Tail(s))}
  <2>1. CASE i = 1
    BY <1>1, <2>1
  <2>2. CASE i # 1
    <3>1. i - 1 \in 1 .. Len(Tail(s)) /\ Tail(s)[i - 1] = s[i]
      BY <1>1, <2>2
    <3> QED BY <3>1
  <2> QED BY <2>1, <2>2
<1>3. ASSUME NEW j \in 1 .. Len(Tail(s)) PROVE Tail(s)[j] \in {s[i] : i \in 1 .. Len(s)}
  <2>1. j + 1 \in 1 .. Len(s) /\ Tail(s)[j] = s[j + 1]
    BY <1>1
  <2> QED BY <2>1
<1>4. Head(s) \in {s[i] : i \in 1 .. Len(s)}
  <2>1. 1 \in 1 .. Len(s)
    BY <1>1
  <2> QED BY <1>1, <2>1
<1> QED BY <1>2, <1>3, <1>4

\* After an update every switch is on the list.
LEMMA FeatureOrderComplete == {FeatureOrder[i] : i \in 1 .. Len(FeatureOrder)} = Features
BY DEF FeatureOrder, Features

\* With one thread under way, the invariant is about that thread alone.
LEMMA SoleSuffices ==
  ASSUME NEW t \in Threads, \A u \in Threads \ {t} : thr'[u].pc = "idle", Known(t)',
         \A f \in Features : f \notin Pending(t)' => Follows(f)', DefaultsUntilBooted', NoLostUpdate'
  PROVE  SerialInv'
<1>1. Alone'
  BY DEF Alone
<1>2. \A u \in Threads : Known(u)'
  <2>1. ASSUME NEW u \in Threads \ {t} PROVE Known(u)'
    BY <2>1 DEF Known
  <2> QED BY <2>1
<1>3. SwitchesFollow'
  BY DEF SwitchesFollow
<1> QED BY <1>1, <1>2, <1>3 DEF SerialInv

\* What the invariant says while only thread t may be under way.
LEMMA SoleKnows ==
  ASSUME SerialInv, ~overlapped, NEW t \in Threads, \A u \in Threads \ {t} : thr[u].pc = "idle"
  PROVE  \A f \in Features : f \notin Pending(t) => Follows(f)
<1>1. \A u \in Threads \ {t} : Pending(u) = {}
  BY DEF Pending
<1> QED BY <1>1 DEF SerialInv, SwitchesFollow

\* An operation that starts without an overlap starts on a quiet layer, and the watcher's
\* only once the device is up.
LEMMA BeginAlone ==
  ASSUME TypeOK, SerialInv, NEW t \in Threads, NEW locals, Begin(t, locals), ~overlapped'
  PROVE  /\ ~overlapped /\ (t = Watcher => booted)
         /\ \A u \in Threads : thr[u].pc = "idle"
         /\ \A u \in Threads \ {t} : thr'[u] = thr[u]
         /\ thr'[t] = locals
         /\ asked' = asked
         /\ \A f \in Features : Follows(f)
<1>1. ~overlapped /\ ~Busy(t) /\ thr[t].pc = "idle" /\ asked' = asked
  BY Zenon DEF Begin
<1>2. (t = Watcher => booted) /\ \A u \in Threads : thr[u].pc = "idle"
  BY <1>1 DEF Busy
<1>3. thr'[t] = locals /\ \A u \in Threads \ {t} : thr'[u] = thr[u]
  BY DEF Begin, TypeOK
<1>4. Pending(t) = {}
  BY <1>2 DEF Pending
<1> QED BY <1>1, <1>2, <1>3, <1>4, SoleKnows

\* A thread inside an operation is the only one.
LEMMA StepAlone ==
  ASSUME TypeOK, SerialInv, ~overlapped, NEW t \in Threads, thr[t].pc # "idle"
  PROVE  /\ \A u \in Threads \ {t} : thr[u].pc = "idle"
         /\ Known(t) /\ DefaultsUntilBooted /\ NoLostUpdate
         /\ \A f \in Features : f \notin Pending(t) => Follows(f)
<1>1. \A u \in Threads \ {t} : thr[u].pc = "idle"
  BY DEF SerialInv, Alone
<1> QED BY <1>1, SoleKnows DEF SerialInv

\* A step of t that writes neither the configuration nor a switch.
LEMMA LocalStep ==
  ASSUME TypeOK, SerialInv, ~overlapped, NEW t \in Threads, thr[t].pc # "idle",
         UNCHANGED <<current, features, booted, history>>,
         \A u \in Threads \ {t} : thr'[u] = thr[u], Known(t)', Pending(t) \subseteq Pending(t)'
  PROVE  SerialInv'
<1>1. \A u \in Threads \ {t} : thr'[u].pc = "idle"
  BY StepAlone
<1>2. \A f \in Features : f \notin Pending(t)' => Follows(f)'
  BY StepAlone DEF Follows, IsAvailable
<1>3. DefaultsUntilBooted'
  BY StepAlone DEF DefaultsUntilBooted
<1>4. NoLostUpdate'
  BY StepAlone DEF NoLostUpdate, history
<1> QED BY <1>1, <1>2, <1>3, <1>4, SoleSuffices

\* Starting an operation on a quiet layer.
LEMMA BeginSerial ==
  ASSUME TypeOK, SerialInv, NEW t \in Threads, NEW locals, Begin(t, locals), ~overlapped',
         UNCHANGED <<current, features, booted>>, Known(t)'
  PROVE  SerialInv'
<1>1. /\ \A u \in Threads \ {t} : thr'[u].pc = "idle"
      /\ asked' = asked /\ ~overlapped /\ \A f \in Features : Follows(f)
  BY BeginAlone
<1>2. \A f \in Features : f \notin Pending(t)' => Follows(f)'
  BY <1>1 DEF Follows, IsAvailable
<1>3. DefaultsUntilBooted' /\ NoLostUpdate'
  BY <1>1 DEF DefaultsUntilBooted, NoLostUpdate, SerialInv
<1> QED BY <1>1, <1>2, <1>3, SoleSuffices

\* Every step keeps the invariant of operations that do not overlap.
LEMMA SerialInductive == TypeOK /\ ConfigInv /\ SerialInv /\ [Next]_vars => SerialInv'
<1> SUFFICES ASSUME TypeOK, ConfigInv, SerialInv, [Next]_vars, ~overlapped' PROVE SerialInv'
  BY DEF SerialInv
<1> USE DEF history
<1>1. ASSUME NEW ask \in Contents, ApplyContent(ask) PROVE SerialInv'
  <2> DEFINE l == [Idle EXCEPT !.op = "apply", !.pc = "load", !.ask = ask,
                               !.snap = Overlay(current, ask)]
  <2>1. Watcher \in Threads /\ Begin(Watcher, l)
    BY <1>1 DEF ApplyContent, Threads
  <2>2. UNCHANGED <<current, features, booted>>
    BY <1>1 DEF ApplyContent
  <2>3. l.op = "apply" /\ l.pc = "load" /\ l.ask = ask /\ l.snap = Overlay(current, ask)
    BY DEF Idle
  <2>4. thr'[Watcher] = l /\ booted
    BY <2>1, BeginAlone
  <2>5. Known(Watcher)'
    BY <2>2, <2>3, <2>4 DEF Known
  <2> QED BY <2>1, <2>2, <2>5, BeginSerial
<1>2. ASSUME NEW t \in Callers, NEW p \in Profiles, SyncProfile(t, p) PROVE SerialInv'
  <2> DEFINE l == [Idle EXCEPT !.op = "sync", !.pc = "load", !.ask = [Nothing EXCEPT !.profile = p]]
  <2>1. t \in Threads /\ Begin(t, l)
    BY <1>2 DEF SyncProfile, Threads
  <2>2. UNCHANGED <<current, features, booted>> /\ booted
    BY <1>2 DEF SyncProfile
  <2>3. l.op = "sync" /\ l.pc = "load"
    BY DEF Idle
  <2>4. thr'[t] = l
    BY <2>1, BeginAlone
  <2>5. Known(t)'
    BY <2>2, <2>3, <2>4 DEF Known
  <2> QED BY <2>1, <2>2, <2>5, BeginSerial
<1>3. ASSUME NEW t \in Callers, JitMiss(t) PROVE SerialInv'
  <2> DEFINE l == [Idle EXCEPT !.op = "jit", !.pc = "degrade"]
  <2>1. t \in Threads /\ Begin(t, l)
    BY <1>3 DEF JitMiss, Threads
  <2>2. UNCHANGED <<current, features, booted>> /\ booted /\ IsAvailable("jit")
    BY <1>3 DEF JitMiss
  <2>3. l.op = "jit" /\ l.pc = "degrade"
    BY DEF Idle
  <2>4. thr'[t] = l /\ "jit" \in current.flags
    BY <2>1, <2>2, BeginAlone DEF Follows, Features
  <2>5. Known(t)'
    BY <2>2, <2>3, <2>4 DEF Known, Degradable
  <2> QED BY <2>1, <2>2, <2>5, BeginSerial
<1>4. ASSUME NEW t \in Callers, Recover(t) PROVE SerialInv'
  <2> DEFINE l == [Idle EXCEPT !.op = "recover", !.pc = "degrade"]
  <2>1. t \in Threads /\ Begin(t, l)
    BY <1>4 DEF Recover, Threads
  <2>2. UNCHANGED <<current, features, booted>> /\ ~booted
    BY <1>4 DEF Recover
  <2>3. l.op = "recover" /\ l.pc = "degrade"
    BY DEF Idle
  <2>4. thr'[t] = l /\ ~overlapped
    BY <2>1, BeginAlone
  <2>5. "telemetry" \in current.flags
    BY <2>2, <2>4 DEF SerialInv, DefaultsUntilBooted, Features
  <2>6. Known(t)'
    BY <2>2, <2>3, <2>4, <2>5 DEF Known, Degradable
  <2> QED BY <2>1, <2>2, <2>6, BeginSerial
<1>5. CASE NothingToRecover
  <2>1. UNCHANGED <<current, features, thr, asked, overlapped>> /\ booted'
    BY <1>5 DEF NothingToRecover
  <2>2. ~overlapped
    BY <2>1
  <2>3. Alone' /\ SwitchesFollow' /\ DefaultsUntilBooted' /\ NoLostUpdate'
    BY <2>1, <2>2 DEF SerialInv, Alone, SwitchesFollow, Pending, Follows, IsAvailable,
                      DefaultsUntilBooted, NoLostUpdate
  <2>4. \A t \in Threads : Known(t)'
    BY <2>1, <2>2 DEF SerialInv, Known, Degradable
  <2> QED BY <2>3, <2>4 DEF SerialInv
<1>6. ASSUME NEW t \in Threads, UpdateLoad(t) PROVE SerialInv'
  <2>1. /\ thr[t].pc = "load" /\ thr[t] \in Locals /\ ~overlapped
        /\ UNCHANGED <<current, features, booted, history>>
        /\ \A u \in Threads \ {t} : thr'[u] = thr[u]
    BY <1>6 DEF UpdateLoad, TypeOK
  <2>2. /\ thr'[t].pc = "mutate" /\ thr'[t].new = current /\ thr'[t].op = thr[t].op
        /\ thr'[t].ask = thr[t].ask /\ thr'[t].snap = thr[t].snap
    BY <1>6, <2>1 DEF UpdateLoad, TypeOK, Locals
  <2>3. Known(t)
    BY <2>1, StepAlone
  <2>4. Known(t)'
    BY <2>1, <2>2, <2>3 DEF Known
  <2>5. Pending(t) = {}
    BY <2>1 DEF Pending
  <2> QED BY <2>1, <2>4, <2>5, LocalStep
<1>7. ASSUME NEW t \in Threads, UpdateMutate(t) PROVE SerialInv'
  <2>1. /\ thr[t].pc = "mutate" /\ thr[t] \in Locals /\ ~overlapped
        /\ UNCHANGED <<current, features, booted, history>>
        /\ \A u \in Threads \ {t} : thr'[u] = thr[u]
    BY <1>7 DEF UpdateMutate, TypeOK
  <2>2. Known(t) /\ thr[t].op \in {"apply", "sync"} /\ thr[t].new = current
    BY <2>1, StepAlone DEF Known
  <2>3. Pending(t) = {}
    BY <2>1 DEF Pending
  <2>4. CASE Validate(Mutated(t))
    <3>1. /\ thr'[t].pc = "store" /\ thr'[t].new = Mutated(t) /\ thr'[t].op = thr[t].op
          /\ thr'[t].ask = thr[t].ask /\ thr'[t].snap = thr[t].snap
      BY <1>7, <2>1, <2>4 DEF UpdateMutate, TypeOK, Locals
    <3>2. thr[t].op = "apply" => Mutated(t) = thr[t].snap
      BY DEF Mutated
    <3>3. Settings(Mutated(t)) = Settings(Overlay(current, thr[t].ask))
      <4>1. CASE thr[t].op = "apply"
        BY <2>1, <2>2, <3>2, <4>1 DEF Known
      <4>2. CASE thr[t].op # "apply"
        <5> DEFINE b == [current EXCEPT !.version = version + 1]
        <5>1. Mutated(t) = Overlay(b, thr[t].ask)
          BY <2>2, <4>2 DEF Mutated
        <5>2. current \in Snapshots /\ version + 1 \in Nat /\ thr[t].ask \in Asks
          BY <2>1 DEF TypeOK, Locals
        <5>3. b \in Snapshots /\ b.profile = current.profile /\ b.flags = current.flags
          BY <5>2 DEF Snapshots
        <5> HIDE DEF b
        <5> QED BY <5>1, <5>2, <5>3, OverlaySettings
      <4> QED BY <4>1, <4>2
    <3>4. Known(t)'
      BY <2>1, <2>2, <3>1, <3>2, <3>3 DEF Known
    <3> QED BY <2>1, <2>3, <3>4, LocalStep
  <2>5. CASE ~Validate(Mutated(t))
    <3>1. thr'[t].pc = "flags" /\ thr'[t].op = thr[t].op
      BY <1>7, <2>1, <2>5 DEF UpdateMutate, TypeOK, Locals
    <3>2. thr[t].op # "apply"
      BY <2>5 DEF Mutated, ConfigInv, HeldSnapshotsValid
    <3>3. Known(t)'
      BY <2>1, <2>2, <3>1, <3>2 DEF Known
    <3> QED BY <2>1, <2>3, <3>3, LocalStep
  <2> QED BY <2>4, <2>5
<1>8. ASSUME NEW t \in Threads, UpdateStore(t) PROVE SerialInv'
  <2>1. /\ thr[t].pc = "store" /\ thr[t] \in Locals /\ ~overlapped
        /\ current' = thr[t].new /\ asked' = Overlay(asked, thr[t].ask)
        /\ UNCHANGED <<features, booted>>
        /\ \A u \in Threads \ {t} : thr'[u] = thr[u]
    BY <1>8 DEF UpdateStore, TypeOK
  <2>2. thr'[t].pc = "bump" /\ thr'[t].op = thr[t].op /\ thr'[t].snap = thr[t].snap
    BY <1>8, <2>1 DEF UpdateStore, TypeOK, Locals
  <2>3. /\ Known(t) /\ NoLostUpdate /\ DefaultsUntilBooted
        /\ \A u \in Threads \ {t} : thr'[u].pc = "idle"
    BY <2>1, StepAlone
  <2>4. thr[t].op \in {"apply", "sync"} /\ booted
    BY <2>1, <2>3 DEF Known
  <2>5. Known(t)'
    BY <2>1, <2>2, <2>3, <2>4 DEF Known
  <2>6. NoLostUpdate'
    <3>1. /\ current \in Snapshots /\ asked \in [profile : Profiles, flags : SUBSET Features]
          /\ thr[t].ask \in Asks /\ thr[t].new \in Snapshots
          /\ Overlay(current, thr[t].ask) \in Snapshots
      BY <2>1, OverlayType DEF TypeOK, Locals
    <3>2. Settings(thr[t].new) = Settings(Overlay(current, thr[t].ask))
      BY <2>1, <2>3 DEF Known
    <3>3. Settings(Overlay(current, thr[t].ask)) = Settings(Overlay(asked, thr[t].ask))
      BY <2>1, <2>3, <3>1, OverlaySettings DEF NoLostUpdate
    <3>4. Settings(current') = Settings(asked')
      BY <2>1, <3>2, <3>3
    <3> QED BY <3>4 DEF Settings, NoLostUpdate
  <2>7. \A f \in Features : f \in Pending(t)'
    BY <2>2 DEF Pending
  <2>8. DefaultsUntilBooted'
    BY <2>1, <2>4 DEF DefaultsUntilBooted
  <2> QED BY <2>3, <2>5, <2>6, <2>7, <2>8, SoleSuffices
<1>9. ASSUME NEW t \in Threads, UpdateBump(t) PROVE SerialInv'
  <2>1. /\ thr[t].pc = "bump" /\ thr[t] \in Locals /\ ~overlapped
        /\ UNCHANGED <<current, features, booted, history>>
        /\ \A u \in Threads \ {t} : thr'[u] = thr[u]
    BY <1>9 DEF UpdateBump, TypeOK
  <2>2. /\ thr'[t].pc = "flags" /\ thr'[t].todo = FeatureOrder
        /\ thr'[t].op = thr[t].op /\ thr'[t].snap = thr[t].snap
    BY <1>9, <2>1 DEF UpdateBump, TypeOK, Locals
  <2>3. Known(t)
    BY <2>1, StepAlone
  <2>4. Known(t)'
    BY <2>1, <2>2, <2>3 DEF Known
  <2>5. Pending(t) = Features /\ Pending(t)' = Features
    BY <2>1, <2>2, FeatureOrderComplete DEF Pending
  <2> QED BY <2>1, <2>4, <2>5, LocalStep
<1>10. ASSUME NEW t \in Threads, FlagRead(t) PROVE SerialInv'
  <2>1. /\ thr[t].pc = "flags" /\ thr[t].op = "sync" /\ thr[t] \in Locals /\ ~overlapped
        /\ UNCHANGED <<current, features, booted, history>>
        /\ \A u \in Threads \ {t} : thr'[u] = thr[u]
    BY <1>10 DEF FlagRead, TypeOK
  <2>2. /\ thr'[t].pc = "set" /\ thr'[t].todo = thr[t].todo
        /\ thr'[t].op = thr[t].op /\ thr'[t].snap = current
    BY <1>10, <2>1 DEF FlagRead, TypeOK, Locals
  <2>3. Known(t)
    BY <2>1, StepAlone
  <2>4. Known(t)'
    BY <2>1, <2>2, <2>3 DEF Known
  <2>5. Pending(t) = Pending(t)'
    BY <2>1, <2>2 DEF Pending
  <2> QED BY <2>1, <2>4, <2>5, LocalStep
<1>11. ASSUME NEW t \in Threads, FlagSet(t) PROVE SerialInv'
  <2>1. /\ thr[t].pc \in {"flags", "set"} /\ thr[t] \in Locals /\ ~overlapped
        /\ UNCHANGED <<current, booted, history>> /\ thr[t].todo # << >>
        /\ thr[t].todo \in Seq(Features)
        /\ \A u \in Threads \ {t} : thr'[u] = thr[u]
    BY <1>11 DEF FlagSet, TypeOK, Locals
  <2>11. PICK h \in Features : h = Head(thr[t].todo)
    BY <2>1
  <2>2. /\ thr'[t].pc = "flags" /\ thr'[t].todo = Tail(thr[t].todo)
        /\ thr'[t].op = thr[t].op /\ thr'[t].snap = thr[t].snap
    BY <1>11, <2>1 DEF FlagSet, TypeOK, Locals
  <2>3. /\ Known(t) /\ NoLostUpdate /\ DefaultsUntilBooted
        /\ \A u \in Threads \ {t} : thr'[u].pc = "idle"
        /\ \A f \in Features : f \notin Pending(t) => Follows(f)
    BY <2>1, StepAlone
  <2>4. thr[t].snap.flags = current.flags
    BY <1>11, <2>1, <2>3 DEF Known, FlagSet
  <2>5. Known(t)'
    BY <1>11, <2>1, <2>2, <2>3 DEF Known, FlagSet
  <2>6. Pending(t) = {h} \cup Pending(t)'
    <3>1. Pending(t) = {thr[t].todo[i] : i \in 1 .. Len(thr[t].todo)}
      BY <2>1 DEF Pending
    <3>2. Pending(t)' = {Tail(thr[t].todo)[i] : i \in 1 .. Len(Tail(thr[t].todo))}
      BY <2>2 DEF Pending
    <3> QED BY <2>1, <2>11, <3>1, <3>2, TodoSplit
  <2>7. Follows(h)' /\ \A f \in Features \ {h} : Follows(f) => Follows(f)'
    <3>1. features'[h] = IF h \in current.flags THEN "Enabled" ELSE "Disabled"
      BY <1>11, <2>4, <2>11 DEF FlagSet, HandleError, TypeOK
    <3>2. \A f \in Features \ {h} : features'[f] = features[f]
      BY <1>11, <2>11 DEF FlagSet, HandleError, TypeOK
    <3>3. current' = current
      BY <2>1
    <3> QED BY <3>1, <3>2, <3>3 DEF Follows, IsAvailable
  <2>8. \A f \in Features : f \notin Pending(t)' => Follows(f)'
    <3>1. ASSUME NEW f \in Features, f \notin Pending(t)', f # h PROVE Follows(f)'
      BY <2>3, <2>6, <2>7, <3>1
    <3> QED BY <2>7, <3>1
  <2>9. DefaultsUntilBooted' /\ NoLostUpdate'
    BY <2>1, <2>3 DEF DefaultsUntilBooted, NoLostUpdate
  <2> QED BY <2>3, <2>5, <2>8, <2>9, SoleSuffices
<1>12. ASSUME NEW t \in Threads, FlagsDone(t) PROVE SerialInv'
  <2>1. /\ thr[t].pc = "flags" /\ thr[t].todo = << >> /\ ~overlapped
        /\ UNCHANGED <<current, features, booted, history>>
        /\ \A u \in Threads \ {t} : thr'[u] = thr[u]
    BY <1>12 DEF FlagsDone, TypeOK
  <2>2. thr'[t].pc = "idle"
    BY <1>12 DEF FlagsDone, TypeOK, Idle
  <2>3. Known(t)'
    BY <2>2 DEF Known
  <2>4. Pending(t) = {}
    BY <2>1 DEF Pending
  <2> QED BY <2>1, <2>3, <2>4, LocalStep
<1>13. ASSUME NEW t \in Threads, Degrade(t) \/ Restore(t) PROVE SerialInv'
  <2> DEFINE d == Degradable(t)
  <2>1. /\ thr[t].pc \in {"degrade", "restore"} /\ thr[t] \in Locals /\ ~overlapped
        /\ UNCHANGED <<current, history>> /\ d \in Features
        /\ \A u \in Threads \ {t} : thr'[u] = thr[u]
    BY <1>13 DEF Degrade, Restore, TypeOK, Degradable, Features
  <2>2. /\ Known(t) /\ NoLostUpdate /\ DefaultsUntilBooted
        /\ \A u \in Threads \ {t} : thr'[u].pc = "idle"
        /\ \A f \in Features : f \notin Pending(t) => Follows(f)
    BY <2>1, StepAlone
  <2>3. \A f \in Features : Follows(f)
    BY <2>1, <2>2 DEF Pending
  <2>4. d \in current.flags
    BY <2>1, <2>2 DEF Known
  <2>5. \A f \in Features : Follows(f)'
    BY <1>13, <2>1, <2>3, <2>4 DEF Degrade, Restore, HandleError, Follows, IsAvailable, TypeOK
  <2>6. \/ thr'[t].pc = "idle"
        \/ thr'[t].pc = "restore" /\ thr'[t].op = thr[t].op /\ booted' = booted
    BY <1>13, <2>1 DEF Degrade, Restore, TypeOK, Locals, Idle
  <2>7. Known(t)'
    BY <2>1, <2>2, <2>4, <2>6 DEF Known, Degradable
  <2>8. DefaultsUntilBooted'
    BY <1>13, <2>1, <2>2, Zenon DEF DefaultsUntilBooted, Degrade, Restore
  <2>9. NoLostUpdate'
    BY <2>1, <2>2 DEF NoLostUpdate
  <2> QED BY <2>2, <2>5, <2>7, <2>8, <2>9, SoleSuffices
<1>14. CASE UNCHANGED vars
  <2>1. UNCHANGED <<current, features, thr, booted, asked, overlapped>>
    BY <1>14 DEF vars
  <2> QED BY <2>1 DEF SerialInv, Alone, SwitchesFollow, Pending, Follows, IsAvailable,
                      DefaultsUntilBooted, NoLostUpdate, Known, Degradable
<1> QED
  BY <1>1, <1>2, <1>3, <1>4, <1>5, <1>6, <1>7, <1>8, <1>9, <1>10, <1>11, <1>12, <1>13, <1>14
     DEF Next, Step

\* The invariant of operations that do not overlap holds from the start.
LEMMA SerialHolds == Spec => []SerialInv
<1>1. Init => ConfigInv
  BY ProfilesAssumption
     DEF Init, ConfigInv, OnlyValidSnapshots, HeldSnapshotsValid, Validate, Default, Idle
<1>2. Init => SerialInv
  <2> SUFFICES ASSUME Init PROVE SerialInv
    OBVIOUS
  <2>1. \A t \in Threads : thr[t].pc = "idle"
    BY DEF Init, Idle
  <2>2. Alone /\ \A t \in Threads : Known(t)
    BY <2>1 DEF Alone, Known
  <2>3. \A f \in Features : Follows(f)
    BY DEF Init, Follows, IsAvailable, Default
  <2>4. DefaultsUntilBooted /\ NoLostUpdate
    BY DEF Init, DefaultsUntilBooted, NoLostUpdate, Default
  <2> QED BY <2>2, <2>3, <2>4 DEF SerialInv, SwitchesFollow
<1> QED BY <1>1, <1>2, ValidInductive, SerialInductive, ConfigTypeCorrect, PTL DEF Spec

(***************************************************************************)
(* However many threads there are, updates that do not overlap never lose  *)
(* each other's settings: the watcher's whole-snapshot store included.     *)
(***************************************************************************)
THEOREM UpdatesKept == Spec => []NoLostUpdate
<1>1. SerialInv => NoLostUpdate
  BY DEF SerialInv, NoLostUpdate
<1> QED BY <1>1, SerialHolds, PTL

(***************************************************************************)
(* When no two operations overlapped and none is under way, each switch of *)
(* GracefulDegradation is where the configuration says, after refused      *)
(* profiles, JIT misses and recovery as well.                              *)
(***************************************************************************)
THEOREM SwitchesCorrect == Spec => []FeaturesFollowConfig
<1>1. SerialInv => FeaturesFollowConfig
  BY DEF SerialInv, FeaturesFollowConfig, Quiet, SwitchesFollow, Pending, Follows
<1> QED BY <1>1, SerialHolds, PTL

---------------------------------------------------------------------------
\* ConfigWatcher, which hands the file to apply_config_content

\* Every step of the user, the clock and watch_loop keeps the variables in their types.
LEMMA WatchTypeInductive ==
  Watch!TypeOK /\ [Watch!Next]_(Watch!vars) => Watch!TypeOK'
<1> SUFFICES ASSUME Watch!TypeOK, [Watch!Next]_(Watch!vars) PROVE Watch!TypeOK'
  OBVIOUS
<1> USE WatcherBoundsAssumption DEF Watch!TypeOK, Watch!world
<1>1. CASE Watch!Tick
  BY <1>1 DEF Watch!Tick
<1>2. CASE Watch!Edit
  <2>1. blurred' \in BOOLEAN
    BY <1>2, Zenon DEF Watch!Edit
  <2> QED BY <1>2, <2>1 DEF Watch!Edit
<1>3. CASE Watch!Truncate \/ Watch!Remove
  <2>1. blurred' \in BOOLEAN
    BY <1>3, Zenon DEF Watch!Truncate, Watch!Remove
  <2> QED BY <1>3, <2>1 DEF Watch!Truncate, Watch!Remove
<1>4. CASE Watch!CaptureTime \/ Watch!Poll
  <2>1. blurred' \in BOOLEAN
    BY <1>4, Zenon DEF Watch!CaptureTime, Watch!Poll
  <2>2. \A m \in Watch!MeasuredTimes : m \in 0 .. now + MaxSkew
    BY DEF Watch!MeasuredTimes
  <2> QED BY <1>4, <2>1, <2>2 DEF Watch!CaptureTime, Watch!Poll
<1>5. CASE Watch!Test \/ Watch!Read \/ Watch!Notify
  BY <1>5 DEF Watch!Test, Watch!Read, Watch!Notify
<1>6. CASE Watch!Stop
  BY <1>6 DEF Watch!Stop
<1>7. CASE UNCHANGED Watch!vars
  BY <1>7 DEF Watch!vars
<1> QED
  BY <1>1, <1>2, <1>3, <1>4, <1>5, <1>6, <1>7 DEF Watch!Next, Watch!Loop

\* Type correctness of the watcher, the file and the clock, whatever the bounds.
THEOREM WatchTypeCorrect == WatcherSpec => []WatcherTypeOK
<1>1. ASSUME Watch!Init PROVE Watch!TypeOK
  <2>1. watching \in BOOLEAN /\ blurred \in BOOLEAN
    BY <1>1, Zenon DEF Watch!Init
  <2> QED BY <1>1, <2>1, WatcherBoundsAssumption DEF Watch!Init, Watch!TypeOK
<1> QED BY <1>1, WatchTypeInductive, PTL DEF WatcherSpec, WatcherTypeOK, Watch!Spec

(***************************************************************************)
(* The file is absent or holds the latest edit, and what the watcher has   *)
(* read but not yet passed on is no older than what it last applied.       *)
(***************************************************************************)
FileIsLatest ==
  /\ file \in {0, edits}
  /\ pc = "notify" /\ content # 0 => content >= applied

\* Every step keeps it: contents only move forward from the file to the configuration.
LEMMA LatestInductive ==
  Watch!TypeOK /\ FileIsLatest /\ [Watch!Next]_(Watch!vars) => FileIsLatest'
<1> SUFFICES ASSUME Watch!TypeOK, FileIsLatest, [Watch!Next]_(Watch!vars) PROVE FileIsLatest'
  OBVIOUS
<1> USE DEF Watch!TypeOK, FileIsLatest, Watch!world
<1>1. CASE Watch!Tick \/ Watch!Edit \/ Watch!Truncate \/ Watch!Remove \/ Watch!Stop
  BY <1>1 DEF Watch!Tick, Watch!Edit, Watch!Truncate, Watch!Remove, Watch!Stop
<1>2. CASE Watch!CaptureTime \/ Watch!Test \/ Watch!Poll \/ Watch!Notify
  BY <1>2 DEF Watch!CaptureTime, Watch!Test, Watch!Poll, Watch!Notify
<1>3. CASE Watch!Read
  BY <1>3 DEF Watch!Read
<1>4. CASE UNCHANGED Watch!vars
  BY <1>4 DEF Watch!vars
<1> QED BY <1>1, <1>2, <1>3, <1>4 DEF Watch!Next, Watch!Loop

(***************************************************************************)
(* For any bounds, and however edits, truncations, removals and polls      *)
(* interleave, the configuration never falls back to an older version.     *)
(***************************************************************************)
THEOREM NeverFallsBack == WatcherSpec => NeverOlder
<1>1. Watch!Init => FileIsLatest
  BY DEF Watch!Init, FileIsLatest
<1>2. ASSUME Watch!TypeOK, FileIsLatest, [Watch!Next]_(Watch!vars)
      PROVE  [applied' >= applied]_(Watch!vars)
  BY <1>2 DEF Watch!TypeOK, FileIsLatest, Watch!Next, Watch!Loop, Watch!Tick, Watch!Edit,
              Watch!Truncate, Watch!Remove, Watch!Stop, Watch!CaptureTime, Watch!Test,
              Watch!Poll, Watch!Read, Watch!Notify, Watch!vars
<1> QED BY <1>1, <1>2, LatestInductive, WatchTypeCorrect, PTL
    DEF WatcherSpec, WatcherTypeOK, NeverOlder, Watch!Spec, Watch!NeverOlder

=============================================================================

--------------------------- MODULE PrefetchProofs ---------------------------
(***************************************************************************)
(* Proofs about Prefetch: that its state is well formed, that a render     *)
(* thread is never told to use a texture that is still loading, that the   *)
(* report's predictions add up, and that the cache counts its bytes right. *)
(***************************************************************************)
EXTENDS Prefetch, FiniteSetTheorems, SequenceTheorems, WellFoundedInduction, TLAPS

LEMMA OutsideType ==
  Outside \in [pc : {"outside", "due", "executing"}, res : Resources, overtaken : BOOLEAN]
BY ResourcesAssumption DEF Outside

\* A statistics record with one of its counts replaced.
LEMMA StatsType ==
  ASSUME NEW s \in [total : Nat, accurate : Nat, wasted : Nat], NEW n \in Nat
  PROVE  /\ [s EXCEPT !.total = n] \in [total : Nat, accurate : Nat, wasted : Nat]
         /\ [s EXCEPT !.accurate = n] \in [total : Nat, accurate : Nat, wasted : Nat]
         /\ [s EXCEPT !.wasted = n] \in [total : Nat, accurate : Nat, wasted : Nat]
OBVIOUS

\* The initial state is well formed.
LEMMA InitType == Init => TypeOK
<1>1. Idle \in [pc : {"idle", "use", "mark", "emit"}, queue : Seq(Resources)]
  BY DEF Idle
<1> QED
  BY <1>1, OutsideType, NumbersAssumption DEF Init, TypeOK, Idle

\* Every step keeps the state well formed.
LEMMA NextType == TypeOK /\ [Next]_vars => TypeOK'
<1> SUFFICES ASSUME TypeOK, [Next]_vars PROVE TypeOK'
  OBVIOUS
<1> USE NumbersAssumption DEF TypeOK
<1>1. ASSUME NEW bound \in Bindings, Draw(bound) PROVE TypeOK'
  <2>1. bound \in Seq(Resources)
    BY BindingsAssumption
  <2> QED
    BY <1>1, <2>1 DEF Draw, prediction, cache
<1>2. CASE NextFrame
  BY <1>2 DEF NextFrame, prediction, cache
<1>3. ASSUME NEW r \in Resources, Score(r)
      PROVE /\ active' \in [Resources -> 0 .. MaxFrames + 1]
            /\ stats' \in [total : Nat, accurate : Nat, wasted : Nat]
  <2>1. active' \in [Resources -> 0 .. MaxFrames + 1]
    BY <1>3 DEF Score
  <2>2. CASE active[r] = 0
    BY <1>3, <2>1, <2>2 DEF Score
  <2>3. CASE active[r] # 0
    <3>1. stats.accurate + 1 \in Nat
      OBVIOUS
    <3>2. stats' = [stats EXCEPT !.accurate = stats.accurate + 1]
      BY <1>3, <2>3 DEF Score
    <3> QED
      BY <2>1, <3>1, <3>2, StatsType
  <2> QED
    BY <2>2, <2>3
<1>4. CASE UseResident
  <2>1. Head(engine.queue) \in Resources /\ Tail(engine.queue) \in Seq(Resources)
    BY <1>4 DEF UseResident
  <2>2. Score(Head(engine.queue))
    BY <1>4 DEF UseResident
  <2> QED
    BY <1>3, <1>4, <2>1, <2>2 DEF UseResident
<1>5. CASE UseMissing
  <2>1. Head(engine.queue) \in Resources
    BY <1>5 DEF UseMissing
  <2>2. Score(Head(engine.queue))
    BY <1>5 DEF UseMissing
  <2> QED
    BY <1>3, <1>5, <2>1, <2>2 DEF UseMissing
<1>6. CASE MarkPendingLoad
  <2>1. Head(engine.queue) \in Resources
    BY <1>6 DEF MarkPendingLoad
  <2>2. Target \in Nat
    BY DEF Target
  <2>3. pending' \in [Resources -> [fence : Nat, dirty : BOOLEAN]]
    BY <1>6, <2>1, <2>2 DEF MarkPendingLoad
  <2>4. thr' \in [Threads -> [pc : {"outside", "due", "executing"}, res : Resources, overtaken : BOOLEAN]]
    BY <1>6 DEF MarkPendingLoad, Overtaking
  <2>5. /\ engine' \in [pc : {"idle", "use", "mark", "emit"}, queue : Seq(Resources)]
        /\ engine'.pc = "emit" /\ engine'.queue # << >>
    BY <1>6 DEF MarkPendingLoad
  <2> QED
    BY <1>6, <2>3, <2>4, <2>5 DEF MarkPendingLoad, prediction, cache
<1>7. CASE EmitPrefetch
  <2>1. Head(engine.queue) \in Resources /\ Tail(engine.queue) \in Seq(Resources)
    BY <1>7 DEF EmitPrefetch
  <2>2. emitted' \in [Resources -> Nat]
    <3>1. Target \in Nat
      BY DEF Target
    <3> QED
      BY <1>7, <2>1, <3>1 DEF EmitPrefetch
  <2>3. active' \in [Resources -> 0 .. MaxFrames + 1]
    <3>1. frame + 1 \in 0 .. MaxFrames + 1
      OBVIOUS
    <3> QED
      BY <1>7, <2>1, <3>1 DEF EmitPrefetch
  <2>4. stats' \in [total : Nat, accurate : Nat, wasted : Nat]
    <3>1. stats.total + 1 \in Nat
      OBVIOUS
    <3>2. stats' = [stats EXCEPT !.total = stats.total + 1]
      BY <1>7 DEF EmitPrefetch
    <3> QED
      BY <3>1, <3>2, StatsType
  <2>5. /\ engine' \in [pc : {"idle", "use", "mark", "emit"}, queue : Seq(Resources)]
        /\ engine'.pc = "use"
    BY <1>7, <2>1 DEF EmitPrefetch
  <2> QED
    BY <1>7, <2>2, <2>3, <2>4, <2>5 DEF EmitPrefetch, cache
<1>8. CASE Prune
  <2>1. IsFiniteSet(Stale)
    BY ResourcesAssumption, FS_Subset DEF Stale
  <2>2. Cardinality(Stale) \in Nat
    BY <2>1, FS_CardinalityType
  <2>3. stats' \in [total : Nat, accurate : Nat, wasted : Nat]
    <3>1. stats.wasted + Cardinality(Stale) \in Nat
      BY <2>2
    <3> QED
      BY <1>8, <3>1, StatsType DEF Prune
  <2>4. active' \in [Resources -> 0 .. MaxFrames + 1]
    BY <1>8 DEF Prune
  <2>5. /\ engine' \in [pc : {"idle", "use", "mark", "emit"}, queue : Seq(Resources)]
        /\ engine'.pc = "idle"
    BY <1>8 DEF Prune, Idle
  <2> QED
    BY <1>8, <2>3, <2>4, <2>5 DEF Prune, cache
<1>9. CASE HardwareAdvances
  BY <1>9 DEF HardwareAdvances, prediction, cache
<1>15. ASSUME NEW value \in 0 .. MaxFrames + Window, UpdateHardwareTimeline(value) PROVE TypeOK'
  BY <1>15 DEF UpdateHardwareTimeline, prediction, cache
<1>10. ASSUME NEW r \in Resources, RemoveResource(r) PROVE TypeOK'
  BY <1>10 DEF RemoveResource, prediction
<1>11. ASSUME NEW t \in Threads, NEW r \in Resources, AskClean(t, r) \/ AskDue(t, r) PROVE TypeOK'
  <2>1. PICK pc \in {"due", "executing"} : Asks(t, r, pc)
    BY <1>11 DEF AskClean, AskDue
  <2>2. thr' \in [Threads -> [pc : {"outside", "due", "executing"}, res : Resources, overtaken : BOOLEAN]]
    BY <2>1 DEF Asks
  <2> QED
    BY <2>1, <2>2 DEF Asks, prediction, cache
<1>12. ASSUME NEW t \in Threads, ClearDirty(t) PROVE TypeOK'
  <2>1. thr[t].res \in Resources
    OBVIOUS
  <2>2. (pending[thr[t].res].dirty /\ timeline < pending[thr[t].res].fence) \in BOOLEAN
    OBVIOUS
  <2>3. pending' \in [Resources -> [fence : Nat, dirty : BOOLEAN]]
    <3> DEFINE b == pending[thr[t].res].dirty /\ timeline < pending[thr[t].res].fence
    <3>1. b \in BOOLEAN
      BY <2>2
    <3>2. pending' = [pending EXCEPT ![thr[t].res].dirty = b]
      BY <1>12 DEF ClearDirty
    <3> HIDE DEF b
    <3> QED
      BY <2>1, <3>1, <3>2
  <2>4. thr' \in [Threads -> [pc : {"outside", "due", "executing"}, res : Resources, overtaken : BOOLEAN]]
    BY <1>12 DEF ClearDirty
  <2> QED
    BY <1>12, <2>3, <2>4 DEF ClearDirty, prediction, cache
<1>13. ASSUME NEW t \in Threads, Finish(t) PROVE TypeOK'
  BY <1>13, OutsideType DEF Finish, prediction, cache
<1>14. CASE UNCHANGED vars
  BY <1>14 DEF vars, prediction, cache
<1> QED
  BY <1>1, <1>2, <1>4, <1>5, <1>6, <1>7, <1>8, <1>9, <1>10, <1>11, <1>12, <1>13, <1>14, <1>15
  DEF Next

(***************************************************************************)
(* The state of the engine, its predictions, the sync manager and the      *)
(* render threads stays well formed.                                       *)
(***************************************************************************)
THEOREM PrefetchTypeCorrect == Spec => []TypeOK
BY InitType, NextType, PTL DEF Spec

---------------------------------------------------------------------------

LEMMA InitMarked == Init => LoadsMarked
<1> SUFFICES ASSUME Init PROVE LoadsMarked
  OBVIOUS
<1>1. Trusted = {}
  BY DEF Init, Trusted, Outside
<1>2. Target \in Nat /\ engine.pc = "idle"
  BY NumbersAssumption DEF Init, Target, Idle
<1>3. progress = 0 /\ timeline = 0 /\ \A r \in Resources : emitted[r] = 0
  BY DEF Init
<1> QED
  BY <1>1, <1>2, <1>3 DEF LoadsMarked

\* What the proof needs to know of the types.
LEMMA Typed ==
  ASSUME TypeOK
  PROVE  /\ frame \in Nat /\ progress \in Nat /\ timeline \in Nat /\ Target \in Nat
         /\ \A r \in Resources : emitted[r] \in Nat /\ pending[r].fence \in Nat
         /\ Trusted \subseteq Resources
<1>1. frame \in Nat /\ progress \in Nat /\ timeline \in Nat
  BY NumbersAssumption DEF TypeOK
<1>2. Target \in Nat
  BY <1>1, NumbersAssumption DEF Target
<1>3. \A r \in Resources : emitted[r] \in Nat /\ pending[r].fence \in Nat
  BY DEF TypeOK
<1> QED
  BY <1>1, <1>2, <1>3 DEF Trusted

LEMMA EmitTyped ==
  ASSUME TypeOK, engine.pc \in {"mark", "emit"}
  PROVE  Head(engine.queue) \in Resources
<1>1. engine.queue \in Seq(Resources) /\ engine.queue # << >>
  BY DEF TypeOK
<1> QED
  BY <1>1

\* A step that only takes trust away and leaves alone what LoadsMarked looks at.
LEMMA MarkedKept ==
  ASSUME TypeOK, LoadsMarked,
         frame' = frame, pending' = pending, emitted' = emitted,
         progress' = progress, timeline' = timeline,
         Trusted' \subseteq Trusted, engine'.pc # "emit" \/ engine' = engine
  PROVE  LoadsMarked'
<1>1. Target' = Target /\ Dirty' = Dirty
  BY DEF Target, Dirty
<1> QED
  BY <1>1 DEF LoadsMarked

\* Every step keeps the pending loads marked.
LEMMA NextMarked == TypeOK /\ TypeOK' /\ LoadsMarked /\ [Next]_vars => LoadsMarked'
<1> SUFFICES ASSUME TypeOK, TypeOK', LoadsMarked, [Next]_vars PROVE LoadsMarked'
  OBVIOUS
<1>0. thr' = thr => Trusted' = Trusted
  BY DEF Trusted
<1>1. ASSUME NEW bound \in Bindings, Draw(bound) PROVE LoadsMarked'
  BY <1>0, <1>1, MarkedKept DEF Draw
<1>2. CASE NextFrame
  <2>1. Target' >= Target /\ Dirty' = Dirty /\ Trusted' = Trusted
    BY <1>0, <1>2, Typed, NumbersAssumption DEF NextFrame, Target, Dirty
  <2>2. engine'.pc = "idle"
    BY <1>2 DEF NextFrame
  <2>3. Target' \in Nat
    BY <1>2, Typed, NumbersAssumption DEF NextFrame, Target
  <2>4. emitted' = emitted /\ pending' = pending /\ timeline' = timeline /\ progress' = progress
    BY <1>2 DEF NextFrame
  <2> QED
    BY <2>1, <2>2, <2>3, <2>4, Typed DEF LoadsMarked
<1>3. CASE UseResident
  <2>1. engine'.pc = "use"
    BY <1>3 DEF UseResident, TypeOK
  <2> QED
    BY <1>0, <1>3, <2>1, MarkedKept DEF UseResident
<1>4. CASE UseMissing
  <2>1. engine'.pc = "mark"
    BY <1>4 DEF UseMissing, TypeOK
  <2> QED
    BY <1>0, <1>4, <2>1, MarkedKept DEF UseMissing
<1>5. CASE MarkPendingLoad
  <2> DEFINE q == Head(engine.queue)
  <2>1. q \in Resources
    BY <1>5, EmitTyped DEF MarkPendingLoad
  <2>2. engine'.queue = engine.queue
    BY <1>5 DEF MarkPendingLoad, TypeOK
  <2>3. Target' = Target /\ emitted' = emitted /\ timeline' = timeline /\ progress' = progress
    BY <1>5 DEF MarkPendingLoad, Target
  <2>4. pending'[q].fence = Target /\ q \in Dirty'
    BY <1>5, <2>1 DEF MarkPendingLoad, TypeOK, Dirty
  <2>5. \A r \in Resources : r # q => pending'[r] = pending[r] /\ (r \in Dirty => r \in Dirty')
    BY <1>5 DEF MarkPendingLoad, TypeOK, Dirty
  <2>6. Trusted' \subseteq Trusted \ {q}
    <3> SUFFICES ASSUME NEW t \in Threads, thr'[t].pc # "outside", ~thr'[t].overtaken
                 PROVE  /\ thr'[t].res # q
                        /\ thr[t].pc # "outside" /\ thr'[t].res = thr[t].res /\ ~thr[t].overtaken
      BY DEF Trusted
    <3>1. thr'[t] = IF thr[t].pc # "outside" /\ thr[t].res = q
                    THEN [thr[t] EXCEPT !.overtaken = TRUE] ELSE thr[t]
      BY <1>5 DEF MarkPendingLoad, Overtaking
    <3>2. thr[t] \in [pc : {"outside", "due", "executing"}, res : Resources, overtaken : BOOLEAN]
      BY DEF TypeOK
    <3> QED
      BY <3>1, <3>2
  <2> HIDE DEF q
  <2>7. q = Head(engine'.queue)
    BY <2>2 DEF q
  <2> QED
    BY <2>1, <2>3, <2>4, <2>5, <2>6, <2>7, Typed DEF LoadsMarked
<1>6. CASE EmitPrefetch
  <2> DEFINE q == Head(engine.queue)
  <2>1. q \in Resources /\ engine.pc = "emit"
    BY <1>6, EmitTyped DEF EmitPrefetch
  <2>2. Target' = Target /\ timeline' = timeline /\ progress' = progress /\ pending' = pending /\ engine'.pc = "use"
    BY <1>6 DEF EmitPrefetch, Target
  <2>3. emitted'[q] = Target /\ \A r \in Resources : r # q => emitted'[r] = emitted[r]
    BY <1>6, <2>1 DEF EmitPrefetch, TypeOK
  <2>4. Trusted' = Trusted /\ Dirty' = Dirty
    BY <1>0, <1>6 DEF EmitPrefetch, Dirty
  <2>5. /\ pending[q].fence = Target
        /\ Target > progress => q \in Dirty
        /\ q \in Trusted => Target <= progress
    BY <2>1 DEF LoadsMarked
  <2> HIDE DEF q
  <2> QED
    BY <2>1, <2>2, <2>3, <2>4, <2>5, Typed DEF LoadsMarked
<1>7. CASE Prune
  BY <1>0, <1>7, MarkedKept DEF Prune, Idle
<1>8. CASE HardwareAdvances
  <2>1. Target' = Target /\ Dirty' = Dirty /\ Trusted' = Trusted
    BY <1>0, <1>8 DEF HardwareAdvances, Target, Dirty
  <2>2. /\ engine' = engine /\ emitted' = emitted /\ pending' = pending
        /\ progress' = progress + 1 /\ timeline' = timeline
    BY <1>8 DEF HardwareAdvances
  <2> QED
    BY <2>1, <2>2, Typed DEF LoadsMarked
<1>14. ASSUME NEW value \in 0 .. MaxFrames + Window, UpdateHardwareTimeline(value) PROVE LoadsMarked'
  <2>1. Target' = Target /\ Dirty' = Dirty /\ Trusted' = Trusted
    BY <1>0, <1>14 DEF UpdateHardwareTimeline, Target, Dirty
  <2>2. /\ engine' = engine /\ emitted' = emitted /\ pending' = pending
        /\ progress' = progress /\ timeline' <= progress
    BY <1>14 DEF UpdateHardwareTimeline
  <2> QED
    BY <2>1, <2>2 DEF LoadsMarked
<1>9. ASSUME NEW r \in Resources, RemoveResource(r) PROVE LoadsMarked'
  BY <1>0, <1>9, MarkedKept DEF RemoveResource
<1>10. ASSUME NEW t \in Threads, NEW r \in Resources, AskClean(t, r) \/ AskDue(t, r) PROVE LoadsMarked'
  <2>1. PICK pc \in {"due", "executing"} : Asks(t, r, pc)
    BY <1>10 DEF AskClean, AskDue
  <2>2. Trusted' \subseteq Trusted \union {r}
    BY <2>1 DEF Asks, Trusted, TypeOK
  <2>3. r \notin Dirty \/ timeline >= pending[r].fence
    BY <1>10 DEF AskClean, AskDue, Dirty
  <2>4. Target' = Target /\ Dirty' = Dirty
    BY <2>1 DEF Asks, Target, Dirty
  <2>5. engine' = engine /\ emitted' = emitted /\ pending' = pending /\ timeline' = timeline /\ progress' = progress
    BY <2>1 DEF Asks
  <2>6. engine.pc = "emit" /\ Head(engine.queue) = r => Target <= progress
    BY <2>3, Typed DEF LoadsMarked
  <2>7. emitted[r] <= progress
    BY <2>3, Typed DEF LoadsMarked
  <2> QED
    BY <2>2, <2>4, <2>5, <2>6, <2>7, Typed DEF LoadsMarked
<1>11. ASSUME NEW t \in Threads, ClearDirty(t) PROVE LoadsMarked'
  <2>1. Target' = Target /\ engine' = engine /\ emitted' = emitted /\ timeline' = timeline /\ progress' = progress
    BY <1>11 DEF ClearDirty, Target
  <2>2. Trusted' = Trusted
    <3>1. thr' = [thr EXCEPT ![t].pc = "executing"] /\ thr[t].pc = "due"
      BY <1>11 DEF ClearDirty
    <3>2. \A u \in Threads : /\ thr'[u].res = thr[u].res /\ thr'[u].overtaken = thr[u].overtaken
                             /\ thr'[u].pc = "outside" <=> thr[u].pc = "outside"
      BY <3>1 DEF TypeOK
    <3> QED
      BY <3>2 DEF Trusted
  <2>3. \A s \in Resources : /\ pending'[s].fence = pending[s].fence
                             /\ s \in Dirty /\ timeline < pending[s].fence => s \in Dirty'
    BY <1>11 DEF ClearDirty, TypeOK, Dirty
  <2>4. engine.pc = "emit" => Head(engine.queue) \in Resources
    BY EmitTyped
  <2> QED
    BY <2>1, <2>2, <2>3, <2>4, Typed DEF LoadsMarked
<1>12. ASSUME NEW t \in Threads, Finish(t) PROVE LoadsMarked'
  <2>1. Trusted' \subseteq Trusted
    BY <1>12 DEF Finish, Trusted, TypeOK, Outside
  <2> QED
    BY <1>12, <2>1, MarkedKept DEF Finish
<1>13. CASE UNCHANGED vars
  BY <1>0, <1>13, MarkedKept DEF vars
<1> QED
  BY <1>1, <1>2, <1>3, <1>4, <1>5, <1>6, <1>7, <1>8, <1>9, <1>10, <1>11, <1>12, <1>13, <1>14 DEF Next

(***************************************************************************)
(* A render thread that is_safe_to_execute let through executes while no   *)
(* load of its resource is under way, unless one was announced after it    *)
(* had asked: for any cache, any window and any number of threads.         *)
(***************************************************************************)
THEOREM SafeCorrect == Spec => []SafeToExecute
<1>1. TypeOK /\ LoadsMarked => SafeToExecute
  BY DEF TypeOK, LoadsMarked, SafeToExecute, Trusted
<1> QED
  BY <1>1, InitMarked, NextMarked, PrefetchTypeCorrect, PTL DEF Spec

---------------------------------------------------------------------------

LEMMA OpenFinite == IsFiniteSet(Open) /\ Cardinality(Open) \in Nat
BY ResourcesAssumption, FS_Subset, FS_CardinalityType DEF Open

LEMMA InitAccounted == Init => PredictionsAccounted /\ ScoredFirst
<1> SUFFICES ASSUME Init PROVE PredictionsAccounted /\ ScoredFirst
  OBVIOUS
<1>1. Open = {}
  BY DEF Init, Open
<1>2. Cardinality(Open) = 0
  BY <1>1, FS_EmptySet
<1> QED
  BY <1>2 DEF Init, Idle, PredictionsAccounted, ScoredFirst

\* Scoring a resource moves its prediction, if it has one, from open to accurate.
LEMMA ScoreAccounted ==
  ASSUME TypeOK, PredictionsAccounted, NEW r \in Resources, Score(r)
  PROVE  PredictionsAccounted' /\ active'[r] = 0
<1>1. active' = [active EXCEPT ![r] = 0] /\ active'[r] = 0
  BY DEF Score, TypeOK
<1>2. CASE active[r] = 0
  <2>1. Open' = Open /\ stats' = stats
    BY <1>1, <1>2 DEF Open, Score, TypeOK
  <2> QED
    BY <1>1, <2>1 DEF PredictionsAccounted
<1>3. CASE active[r] # 0
  <2>1. Open' = Open \ {r} /\ r \in Open
    BY <1>1, <1>3 DEF Open, TypeOK
  <2>2. Cardinality(Open') = Cardinality(Open) - 1
    BY <2>1, OpenFinite, FS_RemoveElement
  <2>3. stats' = [stats EXCEPT !.accurate = stats.accurate + 1]
    BY <1>3 DEF Score
  <2>4. stats \in [total : Nat, accurate : Nat, wasted : Nat]
    BY DEF TypeOK
  <2>5. stats'.total = stats.total /\ stats'.accurate = stats.accurate + 1 /\ stats'.wasted = stats.wasted
    BY <2>3, <2>4
  <2> QED
    BY <1>1, <2>2, <2>4, <2>5, OpenFinite DEF PredictionsAccounted
<1> QED
  BY <1>2, <1>3

\* Every step keeps the predictions accounted for.
LEMMA NextAccounted ==
  TypeOK /\ PredictionsAccounted /\ ScoredFirst /\ [Next]_vars => PredictionsAccounted' /\ ScoredFirst'
<1> SUFFICES ASSUME TypeOK, PredictionsAccounted, ScoredFirst, [Next]_vars
             PROVE  PredictionsAccounted' /\ ScoredFirst'
  OBVIOUS
<1>0. prediction' = prediction => PredictionsAccounted'
  BY DEF prediction, PredictionsAccounted, Open
<1>a. prediction' = prediction /\ engine' = engine => ScoredFirst'
  BY DEF prediction, ScoredFirst
<1>1. ASSUME NEW bound \in Bindings, Draw(bound) PROVE PredictionsAccounted' /\ ScoredFirst'
  BY <1>0, <1>1 DEF Draw, ScoredFirst
<1>2. CASE NextFrame
  BY <1>0, <1>a, <1>2 DEF NextFrame
<1>3. CASE UseResident
  <2>1. Head(engine.queue) \in Resources /\ Score(Head(engine.queue))
    BY <1>3 DEF UseResident, TypeOK
  <2>2. engine'.pc = "use"
    BY <1>3 DEF UseResident, TypeOK
  <2> QED
    BY <2>1, <2>2, ScoreAccounted DEF ScoredFirst
<1>4. CASE UseMissing
  <2>1. Head(engine.queue) \in Resources /\ Score(Head(engine.queue))
    BY <1>4 DEF UseMissing, TypeOK
  <2>2. engine'.queue = engine.queue
    BY <1>4 DEF UseMissing, TypeOK
  <2> QED
    BY <2>1, <2>2, ScoreAccounted DEF ScoredFirst
<1>5. CASE MarkPendingLoad
  <2>1. engine.pc = "mark" /\ engine'.queue = engine.queue /\ prediction' = prediction
    BY <1>5 DEF MarkPendingLoad, TypeOK
  <2> QED
    BY <1>0, <2>1 DEF ScoredFirst, prediction
<1>6. CASE EmitPrefetch
  <2> DEFINE q == Head(engine.queue)
  <2>1. q \in Resources /\ active[q] = 0
    BY <1>6, EmitTyped DEF EmitPrefetch, ScoredFirst
  <2>2. active' = [active EXCEPT ![q] = frame + 1] /\ frame + 1 # 0
    BY <1>6, Typed DEF EmitPrefetch
  <2>3. Open' = Open \union {q} /\ q \notin Open
    BY <2>1, <2>2 DEF Open, TypeOK
  <2>4. Cardinality(Open') = Cardinality(Open) + 1
    BY <2>3, OpenFinite, FS_AddElement
  <2>5. stats' = [stats EXCEPT !.total = stats.total + 1]
    BY <1>6 DEF EmitPrefetch
  <2>6. stats \in [total : Nat, accurate : Nat, wasted : Nat]
    BY DEF TypeOK
  <2>7. stats'.total = stats.total + 1 /\ stats'.accurate = stats.accurate /\ stats'.wasted = stats.wasted
    BY <2>5, <2>6
  <2>8. ScoredFirst'
    BY <1>6 DEF EmitPrefetch, ScoredFirst
  <2> QED
    BY <2>4, <2>6, <2>7, <2>8, OpenFinite DEF PredictionsAccounted
<1>7. CASE Prune
  <2>1. Stale \subseteq Open
    BY DEF Stale, Open
  <2>2. Open' = Open \ Stale
    BY <1>7 DEF Prune, Open, Stale, TypeOK
  <2>3. /\ IsFiniteSet(Stale) /\ Cardinality(Stale) \in Nat
        /\ Open \intersect Stale = Stale
    BY <2>1, OpenFinite, FS_Subset, FS_CardinalityType
  <2>4. Cardinality(Open') = Cardinality(Open) - Cardinality(Stale)
    BY <2>2, <2>3, OpenFinite, FS_Difference
  <2>5. stats' = [stats EXCEPT !.wasted = stats.wasted + Cardinality(Stale)]
    BY <1>7 DEF Prune
  <2>6. stats \in [total : Nat, accurate : Nat, wasted : Nat]
    BY DEF TypeOK
  <2>7. stats'.total = stats.total /\ stats'.accurate = stats.accurate /\ stats'.wasted = stats.wasted + Cardinality(Stale)
    BY <2>5, <2>6
  <2>8. ScoredFirst'
    BY <1>7 DEF Prune, Idle, ScoredFirst
  <2> QED
    BY <2>3, <2>4, <2>6, <2>7, <2>8, OpenFinite DEF PredictionsAccounted
<1>8. CASE HardwareAdvances
  BY <1>0, <1>a, <1>8 DEF HardwareAdvances
<1>b. ASSUME NEW value \in 0 .. MaxFrames + Window, UpdateHardwareTimeline(value)
      PROVE  PredictionsAccounted' /\ ScoredFirst'
  BY <1>0, <1>a, <1>b DEF UpdateHardwareTimeline
<1>9. ASSUME NEW r \in Resources, RemoveResource(r) PROVE PredictionsAccounted' /\ ScoredFirst'
  BY <1>0, <1>a, <1>9 DEF RemoveResource
<1>10. ASSUME NEW t \in Threads, NEW r \in Resources, AskClean(t, r) \/ AskDue(t, r)
       PROVE  PredictionsAccounted' /\ ScoredFirst'
  BY <1>0, <1>a, <1>10 DEF AskClean, AskDue, Asks
<1>11. ASSUME NEW t \in Threads, ClearDirty(t) \/ Finish(t) PROVE PredictionsAccounted' /\ ScoredFirst'
  BY <1>0, <1>a, <1>11 DEF ClearDirty, Finish
<1>12. CASE UNCHANGED vars
  BY <1>0, <1>a, <1>12 DEF vars
<1> QED
  BY <1>1, <1>2, <1>3, <1>4, <1>5, <1>6, <1>7, <1>8, <1>9, <1>10, <1>11, <1>12, <1>b DEF Next

(***************************************************************************)
(* Each prediction made is accurate, wasted or still open, for every       *)
(* sequence of draws, frames, evictions and destroyed images.              *)
(***************************************************************************)
THEOREM PredictionsCorrect == Spec => []PredictionsAccounted
BY InitAccounted, NextAccounted, PrefetchTypeCorrect, PTL DEF Spec

---------------------------------------------------------------------------
\* The cache

(***************************************************************************)
(* The list holds each resource once, current_usage_ is their size, and    *)
(* those that fit into the cache fit together, also beside one that is     *)
(* larger than the cache.  The last part is what makes CacheExact survive  *)
(* the removal of such a resource.                                         *)
(***************************************************************************)
CacheInv ==
  /\ lru \in Seq(Resources) /\ IsInjective(lru)
  /\ usage = Bytes(Range(lru))
  /\ Bytes(Range(lru) \ Oversized) <= Capacity

\* The bytes of finitely many resources are finitely many.
LEMMA BytesFinite ==
  ASSUME NEW S \in SUBSET Resources
  PROVE  IsFiniteSet(Cells(S)) /\ Bytes(S) \in Nat
<1> DEFINE f == [r \in S |-> {r} \X (1 .. Size[r])]
           T == {{r} \X (1 .. Size[r]) : r \in S}
<1>1. IsFiniteSet(S)
  BY ResourcesAssumption, FS_Subset
<1>2. f \in Surjection(S, T)
  BY DEF Surjection
<1>3. IsFiniteSet(T)
  <2> HIDE DEF f, T
  <2> QED BY <1>1, <1>2, FS_Surjection
<1>4. ASSUME NEW r \in S PROVE IsFiniteSet({r} \X (1 .. Size[r]))
  <2>1. Size[r] \in Nat
    BY SizeAssumption
  <2>2. 1 \in Int /\ Size[r] \in Int
    BY <2>1
  <2>3. IsFiniteSet(1 .. Size[r])
    BY <2>2, FS_Interval
  <2>4. IsFiniteSet({r})
    BY FS_Singleton
  <2> QED BY <2>3, <2>4, FS_Product
<1>5. \A X \in T : IsFiniteSet(X)
  BY <1>4
<1>6. IsFiniteSet(UNION T)
  <2> HIDE DEF T
  <2> QED BY <1>3, <1>5, FS_UNION
<1>7. Cells(S) = UNION T
  BY DEF Cells
<1> HIDE DEF T
<1> QED BY <1>6, <1>7, FS_CardinalityType DEF Bytes

\* A cell belongs to one resource.
LEMMA CellsOf ==
  ASSUME NEW S, NEW c
  PROVE  c \in Cells(S) <=> \E r \in S : c \in {r} \X (1 .. Size[r])
BY DEF Cells

LEMMA CellsApart ==
  ASSUME NEW S, NEW T, S \cap T = {}
  PROVE  Cells(S) \cap Cells(T) = {} /\ Cells(S \cup T) = Cells(S) \cup Cells(T)
<1>1. ASSUME NEW c \in Cells(S), c \in Cells(T) PROVE FALSE
  <2>1. PICK r \in S : c \in {r} \X (1 .. Size[r])
    BY <1>1, CellsOf
  <2>2. PICK q \in T : c \in {q} \X (1 .. Size[q])
    BY <1>1, CellsOf
  <2>3. c[1] = r /\ c[1] = q
    BY <2>1, <2>2
  <2> QED BY <2>1, <2>2, <2>3
<1>2. \A c : c \in Cells(S \cup T) <=> c \in Cells(S) \/ c \in Cells(T)
  BY CellsOf
<1> QED BY <1>1, <1>2

\* The sizes of two sets of resources add up, and a larger set takes no less.
LEMMA BytesAdd ==
  ASSUME NEW S \in SUBSET Resources, NEW T \in SUBSET Resources, S \cap T = {}
  PROVE  Bytes(S \cup T) = Bytes(S) + Bytes(T)
<1>1. IsFiniteSet(Cells(S)) /\ IsFiniteSet(Cells(T)) /\ Bytes(S) \in Nat /\ Bytes(T) \in Nat
  BY BytesFinite
<1>2. Cells(S) \cap Cells(T) = {} /\ Cells(S \cup T) = Cells(S) \cup Cells(T)
  BY CellsApart
<1>3. Cardinality(Cells(S) \cup Cells(T)) = Cardinality(Cells(S)) + Cardinality(Cells(T)) - Cardinality({})
  BY <1>1, <1>2, FS_Union
<1>4. Cardinality({}) = 0
  BY FS_EmptySet
<1>5. /\ Bytes(S \cup T) = Cardinality(Cells(S) \cup Cells(T))
      /\ Bytes(S) = Cardinality(Cells(S)) /\ Bytes(T) = Cardinality(Cells(T))
  BY <1>2, Zenon DEF Bytes
<1> QED BY <1>1, <1>3, <1>4, <1>5

LEMMA BytesGrow ==
  ASSUME NEW S \in SUBSET Resources, NEW T \in SUBSET S
  PROVE  Bytes(T) <= Bytes(S)
<1>1. T \cap (S \ T) = {} /\ T \cup (S \ T) = S /\ T \in SUBSET Resources /\ S \ T \in SUBSET Resources
  OBVIOUS
<1>2. Bytes(S) = Bytes(T) + Bytes(S \ T) /\ Bytes(T) \in Nat /\ Bytes(S \ T) \in Nat
  BY <1>1, BytesAdd, BytesFinite
<1> QED BY <1>2

LEMMA BytesOfOne ==
  ASSUME NEW r \in Resources
  PROVE  Bytes({r}) = Size[r] /\ Size[r] \in Nat
<1>1. Size[r] \in Nat
  BY SizeAssumption
<1>2. Cells({r}) = {r} \X (1 .. Size[r])
  BY CellsOf
<1>3. IsFiniteSet({r}) /\ Cardinality({r}) = 1
  BY FS_Singleton
<1>4. IsFiniteSet(1 .. Size[r]) /\ Cardinality(1 .. Size[r]) = Size[r]
  <2>1. 1 \in Int /\ Size[r] \in Int
    BY <1>1
  <2>2. /\ IsFiniteSet(1 .. Size[r])
        /\ Cardinality(1 .. Size[r]) = IF 1 > Size[r] THEN 0 ELSE Size[r] - 1 + 1
    BY <2>1, FS_Interval
  <2> QED BY <1>1, <2>2
<1>5. Cardinality({r} \X (1 .. Size[r])) = Cardinality({r}) * Cardinality(1 .. Size[r])
  BY <1>3, <1>4, FS_Product
<1>6. Bytes({r}) = 1 * Size[r]
  BY <1>2, <1>3, <1>4, <1>5, Zenon DEF Bytes
<1> QED BY <1>1, <1>6

LEMMA BytesOfNone == Bytes({}) = 0
<1>1. Cells({}) = {}
  BY CellsOf
<1> QED BY <1>1, FS_EmptySet DEF Bytes

---------------------------------------------------------------------------
\* The list

\* Cutting a list in two parts its resources in two.
LEMMA Cut ==
  ASSUME NEW s \in Seq(Resources), IsInjective(s), NEW n \in 0 .. Len(s)
  PROVE  /\ SubSeq(s, 1, n) \in Seq(Resources) /\ IsInjective(SubSeq(s, 1, n))
         /\ SubSeq(s, n + 1, Len(s)) \in Seq(Resources) /\ IsInjective(SubSeq(s, n + 1, Len(s)))
         /\ Range(SubSeq(s, 1, n)) \cap Range(SubSeq(s, n + 1, Len(s))) = {}
         /\ Range(s) = Range(SubSeq(s, 1, n)) \cup Range(SubSeq(s, n + 1, Len(s)))
<1>0. PICK a, b : a = SubSeq(s, 1, n) /\ b = SubSeq(s, n + 1, Len(s))
  OBVIOUS
<1>1. Len(s) \in Nat /\ n \in Nat /\ n <= Len(s) /\ DOMAIN s = 1 .. Len(s)
  BY LenProperties
<1>2. /\ a \in Seq(Resources) /\ Len(a) = n /\ DOMAIN a = 1 .. n
      /\ \A i \in 1 .. n : a[i] = s[i]
  <2>1. /\ a \in Seq(Resources) /\ Len(a) = (IF 1 <= n THEN n - 1 + 1 ELSE 0)
        /\ \A i \in 1 .. n - 1 + 1 : a[i] = s[1 + i - 1]
    <3>1. 1 \in Int /\ n \in Int /\ \A i \in 1 .. n : s[i] \in Resources
      BY <1>1
    <3> QED BY <1>0, <3>1, SubSeqProperties
  <2> QED BY <1>1, <2>1, LenProperties
<1>3. /\ b \in Seq(Resources) /\ DOMAIN b = 1 .. Len(s) - n
      /\ \A i \in 1 .. Len(s) - n : b[i] = s[n + i]
  <2>1. /\ b \in Seq(Resources) /\ Len(b) = (IF n + 1 <= Len(s) THEN Len(s) - (n + 1) + 1 ELSE 0)
        /\ \A i \in 1 .. Len(s) - (n + 1) + 1 : b[i] = s[(n + 1) + i - 1]
    <3>1. n + 1 \in Int /\ Len(s) \in Int /\ \A i \in n + 1 .. Len(s) : s[i] \in Resources
      BY <1>1
    <3> QED BY <1>0, <3>1, SubSeqProperties
  <2>a. PICK k \in Nat : k = Len(s)
    BY <1>1
  <2>b. /\ Len(s) - (n + 1) + 1 = Len(s) - n
        /\ (IF n + 1 <= Len(s) THEN Len(s) - (n + 1) + 1 ELSE 0) = Len(s) - n
    <3>1. n \in Nat /\ n <= k
      BY <1>1, <2>a
    <3>2. k - (n + 1) + 1 = k - n /\ (IF n + 1 <= k THEN k - (n + 1) + 1 ELSE 0) = k - n
      BY <3>1
    <3> QED BY <2>a, <3>2, Zenon
  <2>2. Len(b) = Len(s) - n
    BY <2>1, <2>b, Zenon
  <2>3. ASSUME NEW i \in 1 .. Len(s) - n PROVE b[i] = s[n + i]
    <3>1. b[i] = s[(n + 1) + i - 1]
      BY <2>1, <2>b, Zenon
    <3>2. (n + 1) + i - 1 = n + i
      BY <1>1
    <3> QED BY <3>1, <3>2, Zenon
  <2> QED BY <2>1, <2>2, <2>3, LenProperties
<1>4. \A i, j \in 1 .. Len(s) : s[i] = s[j] => i = j
  BY <1>1 DEF IsInjective
<1>5. IsInjective(a)
  BY <1>1, <1>2, <1>4 DEF IsInjective
<1>6. IsInjective(b)
  <2> SUFFICES ASSUME NEW i \in 1 .. Len(s) - n, NEW j \in 1 .. Len(s) - n, b[i] = b[j] PROVE i = j
    BY <1>3 DEF IsInjective
  <2>1. n + i \in 1 .. Len(s) /\ n + j \in 1 .. Len(s) /\ s[n + i] = s[n + j]
    BY <1>1, <1>3
  <2>2. n + i = n + j
    BY <1>4, <2>1
  <2> QED BY <1>1, <2>2
<1>7. Range(a) \cap Range(b) = {}
  <2> SUFFICES ASSUME NEW i \in 1 .. n, NEW j \in 1 .. Len(s) - n, a[i] = b[j] PROVE FALSE
    BY <1>2, <1>3 DEF Range
  <2>1. i \in 1 .. Len(s) /\ n + j \in 1 .. Len(s) /\ s[i] = s[n + j] /\ i # n + j
    BY <1>1, <1>2, <1>3
  <2> QED BY <1>4, <2>1
<1>8. Range(s) = Range(a) \cup Range(b)
  <2>1. ASSUME NEW i \in 1 .. Len(s) PROVE s[i] \in Range(a) \cup Range(b)
    <3>1. CASE i <= n
      BY <1>1, <1>2, <3>1 DEF Range
    <3>2. CASE i > n
      <4>1. i - n \in 1 .. Len(s) - n /\ n + (i - n) = i
        BY <1>1, <3>2
      <4>2. b[i - n] = s[i]
        BY <1>3, <4>1
      <4> QED BY <1>3, <4>1, <4>2 DEF Range
    <3> QED BY <1>1, <3>1, <3>2
  <2>2. ASSUME NEW i \in 1 .. n PROVE a[i] \in Range(s)
    <3>1. i \in DOMAIN s
      BY <1>1
    <3> QED BY <1>2, <3>1 DEF Range
  <2>3. ASSUME NEW i \in 1 .. Len(s) - n PROVE b[i] \in Range(s)
    <3>1. n + i \in DOMAIN s
      BY <1>1
    <3> QED BY <1>3, <3>1 DEF Range
  <2>4. Range(s) \subseteq Range(a) \cup Range(b)
    BY <1>1, <2>1 DEF Range
  <2>5. Range(a) \subseteq Range(s) /\ Range(b) \subseteq Range(s)
    BY <1>2, <1>3, <2>2, <2>3 DEF Range
  <2> QED BY <2>4, <2>5
<1> QED BY <1>0, <1>2, <1>3, <1>5, <1>6, <1>7, <1>8

\* Joining two lists with no resource in common.
LEMMA Join ==
  ASSUME NEW a \in Seq(Resources), IsInjective(a), NEW b \in Seq(Resources), IsInjective(b),
         Range(a) \cap Range(b) = {}
  PROVE  /\ a \o b \in Seq(Resources) /\ IsInjective(a \o b)
         /\ Range(a \o b) = Range(a) \cup Range(b)
<1>0. PICK s : s = a \o b
  OBVIOUS
<1>1. /\ s \in Seq(Resources) /\ Len(a) \in Nat /\ Len(b) \in Nat
      /\ DOMAIN a = 1 .. Len(a) /\ DOMAIN b = 1 .. Len(b) /\ DOMAIN s = 1 .. Len(a) + Len(b)
      /\ \A i \in 1 .. Len(a) + Len(b) : s[i] = IF i <= Len(a) THEN a[i] ELSE b[i - Len(a)]
  BY <1>0, ConcatProperties, LenProperties
<1>2. \A i \in DOMAIN a : i \in DOMAIN s /\ s[i] = a[i]
  BY <1>1
<1>3. ASSUME NEW j \in DOMAIN b PROVE Len(a) + j \in DOMAIN s /\ s[Len(a) + j] = b[j]
  <2>1. Len(a) + j \in 1 .. Len(a) + Len(b) /\ ~(Len(a) + j <= Len(a)) /\ (Len(a) + j) - Len(a) = j
    BY <1>1
  <2> QED BY <1>1, <2>1
<1>4. ASSUME NEW i \in DOMAIN s
      PROVE  \/ i \in DOMAIN a /\ s[i] = a[i]
             \/ i - Len(a) \in DOMAIN b /\ s[i] = b[i - Len(a)]
  BY <1>1
<1>5. Range(s) = Range(a) \cup Range(b)
  <2>1. Range(a) \subseteq Range(s)
    BY <1>2 DEF Range
  <2>2. Range(b) \subseteq Range(s)
    BY <1>3 DEF Range
  <2>3. Range(s) \subseteq Range(a) \cup Range(b)
    BY <1>4 DEF Range
  <2> QED BY <2>1, <2>2, <2>3
<1>6. IsInjective(s)
  <2> SUFFICES ASSUME NEW i \in DOMAIN s, NEW j \in DOMAIN s, s[i] = s[j] PROVE i = j
    BY DEF IsInjective
  <2>1. CASE i \in DOMAIN a /\ s[i] = a[i] /\ j \in DOMAIN a /\ s[j] = a[j]
    BY <2>1 DEF IsInjective
  <2>2. CASE /\ i - Len(a) \in DOMAIN b /\ s[i] = b[i - Len(a)]
             /\ j - Len(a) \in DOMAIN b /\ s[j] = b[j - Len(a)]
    <3>1. i - Len(a) = j - Len(a)
      BY <2>2 DEF IsInjective
    <3> QED BY <1>1, <3>1
  <2>3. CASE i \in DOMAIN a /\ s[i] = a[i] /\ j - Len(a) \in DOMAIN b /\ s[j] = b[j - Len(a)]
    BY <2>3 DEF Range
  <2>4. CASE j \in DOMAIN a /\ s[j] = a[j] /\ i - Len(a) \in DOMAIN b /\ s[i] = b[i - Len(a)]
    BY <2>4 DEF Range
  <2> QED BY <1>4, <2>1, <2>2, <2>3, <2>4
<1> QED BY <1>0, <1>1, <1>5, <1>6

\* A resource put in front of a list it is not in.
LEMMA PutFirst ==
  ASSUME NEW s \in Seq(Resources), IsInjective(s), NEW r \in Resources \ Range(s)
  PROVE  /\ <<r>> \o s \in Seq(Resources) /\ IsInjective(<<r>> \o s)
         /\ Range(<<r>> \o s) = {r} \cup Range(s)
<1>0. PICK a : a = <<r>>
  OBVIOUS
<1>1. a \in Seq(Resources) /\ DOMAIN a = {1} /\ a[1] = r
  BY <1>0
<1>2. IsInjective(a) /\ Range(a) = {r}
  BY <1>1 DEF IsInjective, Range
<1>3. Range(a) \cap Range(s) = {}
  BY <1>2
<1>4. /\ a \o s \in Seq(Resources) /\ IsInjective(a \o s) /\ Range(a \o s) = Range(a) \cup Range(s)
  BY <1>1, <1>2, <1>3, Join
<1> QED BY <1>0, <1>2, <1>4

\* Erasing an entry takes its resource, and no other, from the list.
LEMMA EraseOne ==
  ASSUME NEW s \in Seq(Resources), IsInjective(s), NEW r \in Range(s)
  PROVE  /\ Without(s, r) \in Seq(Resources) /\ IsInjective(Without(s, r))
         /\ Range(Without(s, r)) = Range(s) \ {r}
<1>0. PICK i : i = (CHOOSE j \in DOMAIN s : s[j] = r)
  OBVIOUS
<1>1. i \in DOMAIN s /\ s[i] = r
  BY <1>0 DEF Range
<1>2. Len(s) \in Nat /\ DOMAIN s = 1 .. Len(s)
  BY LenProperties
<1>3. PICK a, b, d : /\ a = SubSeq(s, 1, i - 1) /\ b = SubSeq(s, i, Len(s))
                     /\ d = SubSeq(s, i + 1, Len(s))
  OBVIOUS
<1>4. i \in Nat /\ i - 1 \in 0 .. Len(s) /\ i \in 0 .. Len(s) /\ (i - 1) + 1 = i
  BY <1>1, <1>2
<1>5. /\ a \in Seq(Resources) /\ IsInjective(a) /\ Range(a) \cap Range(b) = {}
      /\ Range(s) = Range(a) \cup Range(b)
  <2>1. /\ SubSeq(s, 1, i - 1) \in Seq(Resources) /\ IsInjective(SubSeq(s, 1, i - 1))
        /\ Range(SubSeq(s, 1, i - 1)) \cap Range(SubSeq(s, (i - 1) + 1, Len(s))) = {}
        /\ Range(s) = Range(SubSeq(s, 1, i - 1)) \cup Range(SubSeq(s, (i - 1) + 1, Len(s)))
    BY <1>4, Cut
  <2> QED BY <1>3, <1>4, <2>1, Zenon
<1>6. PICK c : c = SubSeq(s, 1, i)
  OBVIOUS
<1>7. /\ d \in Seq(Resources) /\ IsInjective(d) /\ Range(c) \cap Range(d) = {}
      /\ Range(s) = Range(c) \cup Range(d)
  <2>1. /\ SubSeq(s, i + 1, Len(s)) \in Seq(Resources) /\ IsInjective(SubSeq(s, i + 1, Len(s)))
        /\ Range(SubSeq(s, 1, i)) \cap Range(SubSeq(s, i + 1, Len(s))) = {}
        /\ Range(s) = Range(SubSeq(s, 1, i)) \cup Range(SubSeq(s, i + 1, Len(s)))
    BY <1>4, Cut
  <2> QED BY <1>3, <1>6, <2>1, Zenon
<1>8. Range(c) = Range(a) \cup {r}
  <2>1. /\ Len(c) = i /\ c \in Seq(Resources) /\ \A j \in 1 .. i : c[j] = s[j]
    <3>1. 1 \in Int /\ i \in Int /\ \A j \in 1 .. i : s[j] \in Resources
      BY <1>1, <1>2
    <3>2. /\ c \in Seq(Resources) /\ Len(c) = (IF 1 <= i THEN i - 1 + 1 ELSE 0)
          /\ \A j \in 1 .. i - 1 + 1 : c[j] = s[1 + j - 1]
      BY <1>6, <3>1, SubSeqProperties
    <3> QED BY <1>1, <1>2, <3>2
  <2>2. /\ Len(a) = i - 1 /\ \A j \in 1 .. i - 1 : a[j] = s[j]
    <3>1. 1 \in Int /\ i - 1 \in Int /\ \A j \in 1 .. i - 1 : s[j] \in Resources
      BY <1>1, <1>2
    <3>2. /\ Len(a) = (IF 1 <= i - 1 THEN (i - 1) - 1 + 1 ELSE 0)
          /\ \A j \in 1 .. (i - 1) - 1 + 1 : a[j] = s[1 + j - 1]
      BY <1>3, <3>1, SubSeqProperties
    <3> QED BY <1>1, <1>2, <3>2
  <2>3. DOMAIN c = 1 .. i /\ DOMAIN a = 1 .. i - 1 /\ i >= 1
    BY <1>1, <1>2, <1>5, <2>1, <2>2, LenProperties
  <2>4. \A j \in 1 .. i : j = i \/ j \in 1 .. i - 1
    BY <1>4
  <2>5. Range(c) \subseteq Range(a) \cup {r}
    BY <1>1, <2>1, <2>2, <2>3, <2>4 DEF Range
  <2>6. Range(a) \subseteq Range(c) /\ r \in Range(c)
    <3>1. \A j \in 1 .. i - 1 : j \in 1 .. i
      BY <1>4
    <3>2. i \in 1 .. i
      BY <1>4, <2>3
    <3> QED BY <1>1, <2>1, <2>2, <2>3, <3>1, <3>2 DEF Range
  <2> QED BY <2>5, <2>6
<1>9. r \notin Range(a)
  <2>1. r \in Range(b)
    <3>1. /\ b \in Seq(Resources) /\ Len(b) = (IF i <= Len(s) THEN Len(s) - i + 1 ELSE 0)
          /\ \A j \in 1 .. Len(s) - i + 1 : b[j] = s[i + j - 1]
      <4>1. i \in Int /\ Len(s) \in Int /\ \A j \in i .. Len(s) : s[j] \in Resources
        BY <1>1, <1>2
      <4> QED BY <1>3, <4>1, SubSeqProperties
    <3>2. 1 \in 1 .. Len(s) - i + 1 /\ i + 1 - 1 = i /\ i <= Len(s)
      BY <1>1, <1>2
    <3>3. b[1] = r
      BY <1>1, <3>1, <3>2
    <3>4. 1 \in DOMAIN b
      BY <3>1, <3>2, LenProperties
    <3> QED BY <3>3, <3>4 DEF Range
  <2> QED BY <1>5, <2>1
<1>10. Range(a) \cap Range(d) = {} /\ Range(a) \cup Range(d) = Range(s) \ {r}
  BY <1>7, <1>8, <1>9
<1>11. a \o d \in Seq(Resources) /\ IsInjective(a \o d) /\ Range(a \o d) = Range(a) \cup Range(d)
  BY <1>5, <1>7, <1>10, Join
<1>12. Without(s, r) = a \o d
  BY <1>0, <1>3, Zenon DEF Without, RemoveAt
<1> QED BY <1>10, <1>11, <1>12

\* A nonempty bounded set of naturals has a largest element.
LEMMA LargestOf ==
  ASSUME NEW N \in Nat, NEW S \in SUBSET (0 .. N), S # {}
  PROVE  \E m \in S : \A k \in S : k <= m
<1> DEFINE T == {N - m : m \in S}
<1>0. \A m \in S : N - m \in Nat
  OBVIOUS
<1>1. T \in SUBSET Nat /\ T # {}
  BY <1>0
<1>2. PICK x \in T : \A y \in T : ~(<<y, x>> \in OpToRel(<, Nat))
  <2> HIDE DEF T
  <2> QED BY <1>1, NatLessThanWellFounded, WFMin, Zenon
<1>3. ASSUME NEW y \in T PROVE x <= y
  <2>1. x \in Nat /\ y \in Nat /\ <<y, x>> \in Nat \X Nat
    BY <1>1
  <2>2. y < x => <<y, x>> \in OpToRel(<, Nat)
    BY <2>1, Zenon DEF OpToRel
  <2>3. ~(y < x)
    BY <1>2, <2>2, Zenon
  <2> QED BY <2>1, <2>3
<1>4. PICK m \in S : x = N - m
  BY <1>2
<1>5. ASSUME NEW k \in S PROVE k <= m
  <2>1. x <= N - k
    BY <1>3
  <2> QED BY <1>4, <2>1
<1> QED BY <1>5

LEMMA CacheTyped ==
  ASSUME CacheInv
  PROVE  /\ Range(lru) \in SUBSET Resources /\ Len(lru) \in Nat /\ DOMAIN lru = 1 .. Len(lru)
         /\ usage \in Nat /\ Capacity \in Nat
<1>1. lru \in Seq(Resources)
  BY DEF CacheInv
<1>2. Len(lru) \in Nat /\ DOMAIN lru = 1 .. Len(lru)
  BY <1>1, LenProperties
<1>3. Range(lru) \in SUBSET Resources
  BY <1>1, <1>2 DEF Range
<1> QED BY <1>2, <1>3, BytesFinite, NumbersAssumption DEF CacheInv

\* What is left of current_usage_ is the size of the entries that are left.
LEMMA UsageLeft ==
  ASSUME CacheInv, NEW n \in 0 .. Len(lru)
  PROVE  UsageAt(n) = Bytes(Range(SubSeq(lru, 1, n)))
<1>1. PICK A, B : A = Range(SubSeq(lru, 1, n)) /\ B = Range(SubSeq(lru, n + 1, Len(lru)))
  OBVIOUS
<1>2. A \cap B = {} /\ Range(lru) = A \cup B
  BY <1>1, Cut DEF CacheInv
<1>3. A \in SUBSET Resources /\ B \in SUBSET Resources
  BY <1>2, CacheTyped
<1>4. usage = Bytes(A) + Bytes(B) /\ Bytes(A) \in Nat /\ Bytes(B) \in Nat
  BY <1>2, <1>3, BytesAdd, BytesFinite DEF CacheInv
<1>5. UsageAt(n) = usage - Bytes(B)
  BY <1>1, Zenon DEF UsageAt
<1> QED BY <1>1, <1>4, <1>5

\* ensure_capacity_locked makes room for whatever fits into the cache, and evicts nothing
\* for what does not.
LEMMA RoomMade ==
  ASSUME CacheInv, NEW r \in Resources
  PROVE  /\ Kept(Size[r]) \in 0 .. Len(lru)
         /\ Size[r] <= Capacity => UsageAt(Kept(Size[r])) + Size[r] <= Capacity
         /\ Size[r] > Capacity => Kept(Size[r]) = Len(lru)
<1>1. Size[r] \in Nat /\ Capacity \in Nat /\ Len(lru) \in Nat
  BY BytesOfOne, CacheTyped
<1>2. CASE Size[r] > Capacity
  <2>1. Kept(Size[r]) = Len(lru)
    BY <1>2, Zenon DEF Kept
  <2> QED BY <1>1, <1>2, <2>1
<1>3. CASE ~(Size[r] > Capacity)
  <2> DEFINE fitting == {n \in 0 .. Len(lru) : UsageAt(n) + Size[r] <= Capacity}
  <2>1. 0 \in fitting
    <3>1. SubSeq(lru, 1, 0) = << >>
      BY SubSeqEmpty
    <3>2. Range(SubSeq(lru, 1, 0)) = {}
      BY <3>1 DEF Range
    <3>3. 0 \in 0 .. Len(lru)
      BY <1>1
    <3>4. UsageAt(0) = 0
      BY <3>2, <3>3, UsageLeft, BytesOfNone
    <3> QED BY <1>1, <1>3, <3>3, <3>4
  <2>2. fitting \in SUBSET (0 .. Len(lru)) /\ fitting # {}
    BY <2>1
  <2>3. Kept(Size[r]) = CHOOSE n \in fitting : \A k \in fitting : k <= n
    BY <1>3, <2>2, Zenon DEF Kept
  <2>4. Kept(Size[r]) \in fitting
    <3> HIDE DEF fitting
    <3>1. \E n \in fitting : \A k \in fitting : k <= n
      BY <1>1, <2>2, LargestOf
    <3> QED BY <2>3, <3>1
  <2> QED BY <1>1, <1>3, <2>4
<1> QED BY <1>2, <1>3

\* A miss: what is not evicted stays, in its order, behind the new entry.
LEMMA InsertKeepsCache ==
  ASSUME CacheInv, NEW r \in Resources \ Range(lru), Insert(r)
  PROVE  CacheInv'
<1>1. PICK n : n = Kept(Size[r])
  OBVIOUS
<1>2. lru' = <<r>> \o SubSeq(lru, 1, n) /\ usage' = UsageAt(n) + Size[r]
  BY <1>1 DEF Insert
<1>3. /\ n \in 0 .. Len(lru) /\ Size[r] \in Nat /\ Capacity \in Nat
      /\ Size[r] <= Capacity => UsageAt(n) + Size[r] <= Capacity
      /\ Size[r] > Capacity => n = Len(lru)
  BY <1>1, RoomMade, BytesOfOne, CacheTyped
<1>4. PICK a : a = SubSeq(lru, 1, n)
  OBVIOUS
<1>5. a \in Seq(Resources) /\ IsInjective(a) /\ Range(a) \subseteq Range(lru)
  BY <1>3, <1>4, Cut DEF CacheInv
<1>6. Range(a) \in SUBSET Resources /\ r \notin Range(a) /\ {r} \in SUBSET Resources
  BY <1>5, CacheTyped
<1>7. lru' \in Seq(Resources) /\ IsInjective(lru') /\ Range(lru') = {r} \cup Range(a)
  BY <1>2, <1>4, <1>5, <1>6, PutFirst
<1>8. usage' = Bytes(Range(a)) + Size[r] /\ Bytes(Range(a)) \in Nat
  BY <1>2, <1>3, <1>4, <1>6, UsageLeft, BytesFinite
<1>9. Bytes(Range(lru')) = Bytes({r}) + Bytes(Range(a))
  <2>1. {r} \cap Range(a) = {}
    BY <1>6
  <2> QED BY <1>6, <1>7, <2>1, BytesAdd
<1>10. usage' = Bytes(Range(lru'))
  BY <1>3, <1>8, <1>9, BytesOfOne
<1>11. Bytes(Range(lru') \ Oversized) <= Capacity
  <2>1. CASE Size[r] <= Capacity
    <3>1. Range(lru') \in SUBSET Resources /\ Range(lru') \ Oversized \in SUBSET Range(lru')
      BY <1>6, <1>7
    <3>2. Bytes(Range(lru') \ Oversized) <= Bytes(Range(lru'))
      BY <3>1, BytesGrow
    <3>3. Bytes(Range(lru')) \in Nat /\ Bytes(Range(lru') \ Oversized) \in Nat
      BY <3>1, BytesFinite
    <3>4. Bytes(Range(lru')) <= Capacity
      BY <1>2, <1>3, <1>10, <2>1
    <3> QED BY <1>3, <3>2, <3>3, <3>4
  <2>2. CASE Size[r] > Capacity
    <3>1. r \in Oversized
      BY <2>2 DEF Oversized
    <3>2. Range(lru') \ Oversized \in SUBSET (Range(lru) \ Oversized)
      BY <1>5, <1>7, <3>1
    <3>3. Range(lru) \ Oversized \in SUBSET Resources
      BY CacheTyped
    <3>4. Bytes(Range(lru') \ Oversized) <= Bytes(Range(lru) \ Oversized)
      BY <3>2, <3>3, BytesGrow
    <3>5. Bytes(Range(lru') \ Oversized) \in Nat /\ Bytes(Range(lru) \ Oversized) \in Nat
      <4>1. Range(lru') \ Oversized \in SUBSET Resources
        BY <3>2, <3>3
      <4> QED BY <3>3, <4>1, BytesFinite
    <3> QED BY <1>3, <3>4, <3>5 DEF CacheInv
  <2> QED BY <1>3, <2>1, <2>2
<1>12. Oversized' = Oversized
  BY DEF Oversized
<1> QED BY <1>7, <1>10, <1>11, <1>12 DEF CacheInv

\* A hit: the entry moves to the front.
LEMMA TouchKeepsCache ==
  ASSUME CacheInv, NEW r \in Range(lru), Touch(r)
  PROVE  CacheInv'
<1>1. PICK a : a = Without(lru, r)
  OBVIOUS
<1>2. a \in Seq(Resources) /\ IsInjective(a) /\ Range(a) = Range(lru) \ {r}
  BY <1>1, EraseOne DEF CacheInv
<1>3. r \in Resources \ Range(a)
  BY <1>2, CacheTyped
<1>4. lru' = <<r>> \o a /\ usage' = usage
  BY <1>1 DEF Touch
<1>5. lru' \in Seq(Resources) /\ IsInjective(lru') /\ Range(lru') = {r} \cup Range(a)
  BY <1>2, <1>3, <1>4, PutFirst
<1>6. Range(lru') = Range(lru) /\ Oversized' = Oversized
  BY <1>2, <1>5 DEF Oversized
<1> QED BY <1>4, <1>5, <1>6 DEF CacheInv

\* A destroyed image takes its bytes with it.
LEMMA RemoveKeepsCache ==
  ASSUME CacheInv, NEW r \in Resources, RemoveResource(r)
  PROVE  CacheInv'
<1>1. r \in Range(lru) /\ lru' = Without(lru, r) /\ usage' = usage - Size[r]
  BY DEF RemoveResource
<1>2. lru' \in Seq(Resources) /\ IsInjective(lru') /\ Range(lru') = Range(lru) \ {r}
  BY <1>1, EraseOne DEF CacheInv
<1>3. Range(lru) \in SUBSET Resources /\ Capacity \in Nat /\ Oversized' = Oversized
  BY CacheTyped DEF Oversized
<1>4. usage' = Bytes(Range(lru'))
  <2>1. {r} \cap Range(lru') = {} /\ {r} \cup Range(lru') = Range(lru)
    BY <1>1, <1>2
  <2>2. Range(lru') \in SUBSET Resources /\ {r} \in SUBSET Resources
    BY <1>2, <1>3
  <2>3. Bytes(Range(lru)) = Bytes({r}) + Bytes(Range(lru')) /\ Bytes(Range(lru')) \in Nat
    BY <2>1, <2>2, BytesAdd, BytesFinite
  <2>4. Bytes({r}) = Size[r] /\ Size[r] \in Nat
    BY BytesOfOne
  <2> QED BY <1>1, <2>3, <2>4 DEF CacheInv
<1>5. Bytes(Range(lru') \ Oversized) <= Capacity
  <2> DEFINE A == Range(lru') \ Oversized
             B == Range(lru) \ Oversized
  <2>1. A \in SUBSET B /\ B \in SUBSET Resources /\ A \in SUBSET Resources
    BY <1>2, <1>3
  <2>2. Bytes(B) <= Capacity
    BY DEF CacheInv
  <2> HIDE DEF A, B
  <2>3. Bytes(A) <= Bytes(B) /\ Bytes(A) \in Nat /\ Bytes(B) \in Nat
    BY <2>1, BytesGrow, BytesFinite
  <2>4. Bytes(A) <= Capacity
    BY <1>3, <2>2, <2>3
  <2> QED BY <2>4 DEF A
<1> QED BY <1>2, <1>3, <1>4, <1>5 DEF CacheInv

\* Every step keeps the cache exact.
LEMMA CacheInductive == TypeOK /\ CacheInv /\ [Next]_vars => CacheInv'
<1> SUFFICES ASSUME TypeOK, CacheInv, [Next]_vars PROVE CacheInv'
  OBVIOUS
<1>1. ASSUME UNCHANGED cache PROVE CacheInv'
  BY <1>1 DEF cache, CacheInv, Oversized
<1>2. ASSUME engine.pc = "use", engine.queue # << >> PROVE Head(engine.queue) \in Resources
  BY <1>2 DEF TypeOK
<1>3. CASE UseResident
  <2>1. UNCHANGED cache \/ (Head(engine.queue) \in Range(lru) /\ Touch(Head(engine.queue)))
    BY <1>3 DEF UseResident
  <2> QED BY <1>1, <2>1, TouchKeepsCache
<1>4. CASE UseMissing
  <2>1. /\ Head(engine.queue) \in Resources \ Range(lru) /\ Insert(Head(engine.queue))
    BY <1>2, <1>4 DEF UseMissing
  <2> QED BY <2>1, InsertKeepsCache
<1>5. ASSUME NEW r \in Resources, RemoveResource(r) PROVE CacheInv'
  BY <1>5, RemoveKeepsCache
<1>6. CASE NextFrame \/ MarkPendingLoad \/ EmitPrefetch \/ Prune \/ HardwareAdvances \/ UNCHANGED vars
  BY <1>1, <1>6 DEF NextFrame, MarkPendingLoad, EmitPrefetch, Prune, HardwareAdvances, vars
<1>7. ASSUME NEW bound \in Bindings, Draw(bound) PROVE CacheInv'
  BY <1>1, <1>7 DEF Draw
<1>8. ASSUME NEW t \in Threads, ClearDirty(t) \/ Finish(t) PROVE CacheInv'
  BY <1>1, <1>8 DEF ClearDirty, Finish
<1>9. ASSUME NEW t \in Threads, NEW r \in Resources, AskClean(t, r) \/ AskDue(t, r) PROVE CacheInv'
  BY <1>1, <1>9 DEF AskClean, AskDue, Asks
<1>10. ASSUME NEW value \in 0 .. MaxFrames + Window, UpdateHardwareTimeline(value) PROVE CacheInv'
  BY <1>1, <1>10 DEF UpdateHardwareTimeline
<1> QED BY <1>3, <1>4, <1>5, <1>6, <1>7, <1>8, <1>9, <1>10 DEF Next

(***************************************************************************)
(* current_usage_ is what the resources in the list take, each once, and   *)
(* exceeds the capacity only while a resource that alone is larger than    *)
(* the cache is in it: for any sizes, capacity and order of hits, misses,  *)
(* evictions and destroyed images.                                         *)
(***************************************************************************)
THEOREM CacheCorrect == Spec => []CacheExact
<1>1. Init => CacheInv
  <2> SUFFICES ASSUME Init PROVE CacheInv
    OBVIOUS
  <2>1. lru = << >> /\ usage = 0
    BY DEF Init
  <2>2. lru \in Seq(Resources) /\ DOMAIN lru = {}
    BY <2>1
  <2>3. IsInjective(lru) /\ Range(lru) = {} /\ Range(lru) \ Oversized = {}
    BY <2>2 DEF IsInjective, Range
  <2>4. Bytes(Range(lru)) = 0 /\ Bytes(Range(lru) \ Oversized) = 0
    BY <2>3, BytesOfNone
  <2>5. 0 <= Capacity
    BY NumbersAssumption
  <2> QED BY <2>1, <2>2, <2>3, <2>4, <2>5 DEF CacheInv
<1>2. CacheInv => CacheExact
  <2> SUFFICES ASSUME CacheInv, Range(lru) \cap Oversized = {} PROVE usage <= Capacity
    BY DEF CacheInv, CacheExact
  <2>1. Range(lru) \ Oversized = Range(lru)
    OBVIOUS
  <2> QED BY <2>1 DEF CacheInv
<1> QED BY <1>1, <1>2, CacheInductive, PrefetchTypeCorrect, PTL DEF Spec

=============================================================================

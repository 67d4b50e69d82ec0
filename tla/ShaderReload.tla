---------------------------- MODULE ShaderReload ----------------------------
(***************************************************************************)
(* ShaderHotReload (hotreload/shader_hotreload.h): compiled shaders in an  *)
(* immutable cache behind an atomic pointer.  A writer copies the cache,   *)
(* changes the copy and swaps the pointer; the old cache is deleted after  *)
(* a grace period, by which its readers must be done.                      *)
(*                                                                         *)
(* Time passes in ticks.  Nothing in the code stops a reader from being    *)
(* slower than the grace period; that it is not (Stay < Grace) is what the *)
(* design rests on, and the assumption made here.  A compilation that      *)
(* fails changes nothing.  Use counts are not modelled.                    *)
(***************************************************************************)
EXTENDS Naturals, Sequences

CONSTANTS
  Threads,    \* threads that look shaders up and compile them
  Shaders,    \* shader hashes
  Grace,      \* ticks before an old cache is deleted; 5 seconds in the code
  Stay,       \* ticks that a thread works with a pointer it got
  MaxBuilds   \* bound: compilations

ASSUME TicksAssumption == Grace \in Nat /\ Stay \in Nat /\ Stay < Grace
ASSUME BoundAssumption == MaxBuilds \in Nat
ASSUME ShadersAssumption == Shaders # {}

VARIABLES
  caches,      \* every ShaderCache that was ever published, the first one empty
  active,      \* active_cache_
  builds,      \* compilations so far, which number the ShaderVersions
  installed,   \* the build of each shader that was last swapped in with success
  overlapped,  \* whether a swap ever replaced a cache other than the one it had copied
  thr          \* per thread: where it is, with its locals

vars == <<caches, active, builds, installed, overlapped, thr>>

NoEntry == [build |-> 0, version |-> 0]
Empty == [s \in Shaders |-> NoEntry]

\* shader: the hash; cache: the pointer loaded first, and age: ticks since then;
\* build, version: of the ShaderVersion made or found; copy: new_cache; expected: swap_cache's
Idle == [pc |-> "idle", shader |-> CHOOSE s \in Shaders : TRUE, recompile |-> FALSE, cache |-> 1,
         age |-> 0, build |-> 0, copy |-> Empty, expected |-> 1]

Init ==
  /\ caches = <<[shaders |-> Empty, state |-> "live", age |-> 0]>>
  /\ active = 1
  /\ builds = 0
  /\ installed = [s \in Shaders |-> 0]
  /\ overlapped = FALSE
  /\ thr = [t \in Threads |-> Idle]

---------------------------------------------------------------------------
\* lookup, and what the caller does with the result

LoadActive(t, s) ==
  /\ thr[t].pc = "idle"
  /\ thr' = [thr EXCEPT ![t] = [Idle EXCEPT !.pc = "find", !.shader = s, !.cache = active]]
  /\ UNCHANGED <<caches, active, builds, installed, overlapped>>

Find(t) ==
  LET entry == caches[thr[t].cache].shaders[thr[t].shader] IN
  /\ thr[t].pc = "find"
  /\ thr' = [thr EXCEPT ![t] = IF entry = NoEntry
                               THEN Idle
                               ELSE [@ EXCEPT !.pc = "using", !.build = entry.build]]
  /\ UNCHANGED <<caches, active, builds, installed, overlapped>>

Done(t) ==
  /\ thr[t].pc = "using"
  /\ thr' = [thr EXCEPT ![t] = Idle]
  /\ UNCHANGED <<caches, active, builds, installed, overlapped>>

---------------------------------------------------------------------------
\* compile_and_add, and recompile_shader in a thread of recompile_async

\* The shader has been compiled and the pointer is loaded.
Compile(t, s, recompile) ==
  /\ thr[t].pc = "idle"
  /\ builds < MaxBuilds
  /\ builds' = builds + 1
  /\ thr' = [thr EXCEPT ![t] = [Idle EXCEPT !.pc = "copy", !.shader = s, !.recompile = recompile,
                                            !.cache = active, !.build = builds']]
  /\ UNCHANGED <<caches, active, installed, overlapped>>

\* compile_and_add leaves the version at 0.
NextVersion(recompile, entry) ==
  CASE ~recompile -> 0
    [] recompile /\ entry = NoEntry -> 1
    [] recompile /\ entry # NoEntry -> entry.version + 1

\* Variant: the new cache starts out empty.
CopyNothing(t) ==
  LET l == thr[t] IN
  /\ l.pc = "copy"
  /\ thr' = [thr EXCEPT ![t].pc = "expect",
                        ![t].copy = [Empty EXCEPT ![l.shader] = [build |-> l.build, version |-> 0]]]
  /\ UNCHANGED <<caches, active, builds, installed, overlapped>>

Copy(t) ==
  LET l == thr[t]
      entry(e) == [build |-> l.build, version |-> NextVersion(l.recompile, e)] IN
  /\ l.pc = "copy"
  /\ thr' = [thr EXCEPT ![t].pc = "expect",
                        ![t].copy = [caches[l.cache].shaders EXCEPT ![l.shader] = entry(@)]]
  /\ UNCHANGED <<caches, active, builds, installed, overlapped>>

---------------------------------------------------------------------------
\* swap_cache

LoadExpected(t) ==
  /\ thr[t].pc = "expect"
  /\ thr' = [thr EXCEPT ![t].pc = "swap", ![t].expected = active]
  /\ UNCHANGED <<caches, active, builds, installed, overlapped>>

\* What the exchange compares are addresses: the memory of a deleted cache may have become
\* that of the active one.
SameAddress(c) == c = active \/ caches[c].state = "deleted"

\* The exchange succeeds; the old cache waits for its deletion.
Swap(t) ==
  LET l == thr[t] IN
  /\ l.pc = "swap" /\ SameAddress(l.expected)
  /\ caches' = Append([caches EXCEPT ![active].state = "retired"],
                      [shaders |-> l.copy, state |-> "live", age |-> 0])
  /\ active' = Len(caches) + 1
  /\ installed' = [installed EXCEPT ![l.shader] = l.build]
  /\ overlapped' = (overlapped \/ l.cache # active)
  /\ thr' = [thr EXCEPT ![t] = Idle]
  /\ UNCHANGED builds

\* The exchange fails; the copy is deleted and false is returned.
SwapFails(t) ==
  /\ thr[t].pc = "swap" /\ active # thr[t].expected
  /\ thr' = [thr EXCEPT ![t] = Idle]
  /\ UNCHANGED <<caches, active, builds, installed, overlapped>>

---------------------------------------------------------------------------
\* Time

\* The threads that may follow a pointer they have loaded.
Following == {t \in Threads : thr[t].pc \in {"find", "using", "copy"}}

Tick ==
  /\ \A t \in Following : thr[t].age < Stay
  /\ thr' = [t \in Threads |-> IF t \in Following THEN [thr[t] EXCEPT !.age = @ + 1] ELSE thr[t]]
  /\ caches' = [c \in DOMAIN caches |->
                  IF caches[c].state = "retired" /\ caches[c].age < Grace
                  THEN [caches[c] EXCEPT !.age = @ + 1] ELSE caches[c]]
  /\ UNCHANGED <<active, builds, installed, overlapped>>

\* Variant: the thread does not sleep before it deletes.
DeleteAtOnce(c) ==
  /\ caches[c].state = "retired"
  /\ caches' = [caches EXCEPT ![c].state = "deleted", ![c].shaders = Empty]
  /\ UNCHANGED <<active, builds, installed, overlapped, thr>>

\* The detached thread has slept through the grace period.
DeleteOld(c) ==
  /\ caches[c].state = "retired" /\ caches[c].age = Grace
  /\ caches' = [caches EXCEPT ![c].state = "deleted", ![c].shaders = Empty]
  /\ UNCHANGED <<active, builds, installed, overlapped, thr>>

Next ==
  \/ \E t \in Threads :
       \/ \E s \in Shaders : \/ LoadActive(t, s)
                             \/ \E recompile \in BOOLEAN : Compile(t, s, recompile)
       \/ Find(t) \/ Done(t) \/ Copy(t) \/ LoadExpected(t) \/ Swap(t) \/ SwapFails(t)
  \/ Tick
  \/ \E c \in DOMAIN caches : DeleteOld(c)

Spec == Init /\ [][Next]_vars

---------------------------------------------------------------------------
\* Properties

Contents == [Shaders -> [build : Nat, version : Nat]]

Cache == [shaders : Contents, state : {"live", "retired", "deleted"}, age : 0 .. Grace]
Locals(n) == [pc : {"idle", "find", "using", "copy", "expect", "swap"}, shader : Shaders, recompile : BOOLEAN,
              cache : 1 .. n, age : 0 .. Stay, build : Nat, copy : Contents, expected : 1 .. n]

TypeOK ==
  /\ caches \in Seq(Cache)
  /\ active \in 1 .. Len(caches)
  /\ builds \in Nat
  /\ installed \in [Shaders -> Nat]
  /\ overlapped \in BOOLEAN
  /\ thr \in [Threads -> Locals(Len(caches))]

\* A ShaderVersion lives as long as a cache, published or not, shares it.
Shared(build) ==
  \/ \E c \in DOMAIN caches : caches[c].state # "deleted" /\ \E s \in Shaders : caches[c].shaders[s].build = build
  \/ \E t \in Threads : thr[t].pc \in {"expect", "swap"} /\ \E s \in Shaders : thr[t].copy[s].build = build

(***************************************************************************)
(* "Schedule old cache cleanup after grace period": whoever follows a      *)
(* pointer for less than the grace period finds what it points to, be it   *)
(* the cache in lookup, the cache being copied, or the ShaderVersion that  *)
(* lookup returned, however many swaps happen meanwhile.                   *)
(***************************************************************************)
NoUseAfterFree ==
  \A t \in Threads :
    /\ thr[t].pc \in {"find", "copy"} => caches[thr[t].cache].state # "deleted"
    /\ thr[t].pc = "using" => Shared(thr[t].build)

(***************************************************************************)
(* A compilation that reported success is what lookup finds until the next *)
(* one of the same shader, as long as writers do not overlap.  (When they  *)
(* do, the second swap silently drops what the first one installed.)       *)
(***************************************************************************)
NoShaderLost ==
  ~overlapped => \A s \in Shaders : caches[active].shaders[s].build = installed[s]

\* What the two rest on: only the active cache is live, a cache that someone follows has not
\* been retired for longer than it was followed, and a copy is its original but for one shader.
Retained ==
  /\ caches[active].state = "live"
  /\ \A c \in DOMAIN caches : caches[c].state = "live" => c = active /\ caches[c].age = 0
  /\ \A t \in Following :
       LET c == caches[thr[t].cache] IN
       /\ c.state # "deleted" /\ c.age <= thr[t].age
       /\ thr[t].pc = "using" => c.shaders[thr[t].shader].build = thr[t].build

Faithful(t) ==
  thr[t].pc \in {"expect", "swap"} /\ caches[thr[t].cache].state # "deleted" =>
    \A s \in Shaders :
      thr[t].copy[s].build = IF s = thr[t].shader THEN thr[t].build ELSE caches[thr[t].cache].shaders[s].build

CopiesFaithful == \A t \in Threads : Faithful(t)

=============================================================================

--------------------------------- MODULE Boot ---------------------------------
(***************************************************************************)
(* What a process builds up before a particle answers its first call, and  *)
(* takes down again: bootParticle of cmd/particle/runtime.go (ping, run,   *)
(* serve-mcp) and wacogo.NewWithOptions with IntrospectParticle (build),   *)
(* both over newParticleInternal and Particle.Close of runtime/particle.go.*)
(*                                                                         *)
(* A layer is a resource somebody has to release.  Layers are built in one *)
(* order; any of them may fail; every failure has a list of its own of     *)
(* what it releases, and each release is a step.                           *)
(***************************************************************************)
EXTENDS Naturals, Sequences, SequencesExt, FiniteSets

CONSTANT Programs   \* [command: {"boot", "build"}, runtime: {"js", "python", "wasm"}]

ASSUME ProgramsAssumption ==
  Programs \subseteq [command: {"boot", "build"}, runtime: {"js", "python", "wasm"}]

VARIABLES
  program,    \* the command and the kind of particle
  stage,      \* booting, up, closing, over
  rung,       \* the layer to build next, as an index into Rungs
  held,       \* the layers built and not released
  releasing,  \* what is still to be released, in order
  opened,     \* history: every layer built
  broken      \* history: the rung that failed, or "none"

bootVars == <<program, stage, rung, held, releasing, opened, broken>>

When(condition, layers) == IF condition THEN layers ELSE <<>>

Factories == <<"credentials.fac", "oauth.fac", "signing.fac">>
Mounts    == <<"root", "temp.dir", "temp.root">>

\* The host instances of a particle, in the order newParticleInternal appends.
HostInsts(rt) ==
  When(rt = "js", <<"logging">>) \o <<"credentials", "oauth", "signing", "kv">>
  \o When(rt = "python", <<"dyld", "libffi">>)

ParticleRungs(rt) ==
  <<"component", "world">> \o When(rt = "js", <<"logging">>)
  \o <<"credentials", "oauth", "signing", "kv">>
  \o When(rt = "python", <<"dyld.fac", "dyld", "libffi.fac", "libffi">>)
  \o <<"instance">>

\* The stores of bootParticle come first; failing there leaves nothing to release.
Rungs ==
  <<"cache", "engine">> \o Factories \o <<"kv.fac", "runtime">>
  \o When(program.command = "boot", Mounts)
  \o ParticleRungs(program.runtime)

\* The layers of a list that are held: Close is called on what was set.
HeldOf(layers) ==
  FlattenSeq([i \in DOMAIN layers |-> When(layers[i] \in held, <<layers[i]>>)])

\* closeAll and Particle.Close: the instance, the host instances in reverse, the world.
CloseParticle ==
  HeldOf(<<"instance">> \o Reverse(HostInsts(program.runtime)) \o <<"world">>)

\* Mutant: the temp directory itself is forgotten.
CloseMountRoots == HeldOf(<<"temp.root", "root">>)

\* resolveMounts' cleanups, in reverse.
CloseMounts == HeldOf(Reverse(Mounts))

\* NewManager closes the factories it has when a later one fails; Manager.Close
\* closes all three in this order.
CloseManager == HeldOf(Factories)

\* Mutant: the engine before the managers that live in it.
CloseEngineFirst ==
  <<"runtime", "engine", "kv.fac">> \o Factories \o HeldOf(<<"cache">>)

\* bootParticle's own list for what comes after the runtime, and its lists for what
\* comes before: those do not know of the cache.
CloseBoot ==
  <<"runtime", "kv.fac">> \o Factories \o <<"engine">> \o HeldOf(<<"cache">>)
CloseEarly == HeldOf(<<"kv.fac">>) \o CloseManager \o <<"engine">>

\* Components.Close over the fields that are set, then the cache, which the command
\* defers.
CloseBuild ==
  HeldOf(<<"runtime">>) \o CloseManager
  \o HeldOf(<<"kv.fac", "engine", "cache">>)

Unwind ==
  CloseParticle \o
  IF program.command = "build" THEN CloseBuild
  ELSE IF "runtime" \in held THEN CloseMounts \o CloseBoot
  ELSE CloseEarly

\* What goes with a layer: loaded components and the runtime's two lazy factories
\* are the engine's, and closing it closes them.
With(layer) ==
  {layer} \union IF layer = "engine" THEN {"component", "dyld.fac", "libffi.fac"} ELSE {}

-----------------------------------------------------------------------------
BootInit ==
  /\ program \in Programs
  /\ stage = "booting" /\ rung = 1 /\ broken = "none"
  /\ held = {} /\ opened = {} /\ releasing = <<>>

Build ==
  /\ stage = "booting"
  /\ held' = held \union {Rungs[rung]} /\ opened' = opened \union {Rungs[rung]}
  /\ rung' = rung + 1
  /\ stage' = IF rung = Len(Rungs) THEN "up" ELSE "booting"
  /\ UNCHANGED <<program, releasing, broken>>

\* A run that cannot open the cache goes on without one.
GoesWithout ==
  /\ stage = "booting" /\ Rungs[rung] = "cache"
  /\ rung' = rung + 1
  /\ UNCHANGED <<program, stage, held, releasing, opened, broken>>

\* NewEngine returns no error; runtime.New has none to return here.
Fail ==
  /\ stage = "booting" /\ Rungs[rung] \notin {"cache", "engine", "runtime"}
  /\ stage' = "closing" /\ broken' = Rungs[rung] /\ releasing' = Unwind
  /\ UNCHANGED <<program, rung, held, opened>>

\* The teardown of bootParticle; the deferred Closes of a build.
TearDown ==
  /\ stage = "up"
  /\ stage' = "closing" /\ releasing' = Unwind
  /\ UNCHANGED <<program, rung, held, opened, broken>>

Release ==
  /\ stage = "closing" /\ releasing # <<>>
  /\ held' = held \ With(Head(releasing)) /\ releasing' = Tail(releasing)
  /\ UNCHANGED <<program, stage, rung, opened, broken>>

Ended ==
  /\ stage = "closing" /\ releasing = <<>>
  /\ stage' = "over"
  /\ UNCHANGED <<program, rung, held, releasing, opened, broken>>

BootNext == Build \/ GoesWithout \/ Fail \/ TearDown \/ Release \/ Ended

-----------------------------------------------------------------------------
\* What each layer is used through.  A host instance stays valid without the manager
\* it came from (Manager.Close says so), not without the engine.
BuiltOn(layer) ==
  IF layer = "runtime" THEN {"engine", "kv.fac"} \union ToSet(Factories)
  ELSE IF layer = "engine" THEN {"cache"}
  ELSE IF layer = "temp.root" THEN {"temp.dir"}
  ELSE IF layer = "world" THEN {"engine"} \union ToSet(Mounts)
  ELSE IF layer = "instance"
       THEN {"world", "component"} \union ToSet(HostInsts(program.runtime))
  ELSE IF layer \in {"root", "temp.dir", "cache"} THEN {}
  ELSE {"engine"}

\* Whatever fails and whenever, no layer is released under one that is still held,
\* and none is released that is not held: what the lists of the returns are for.
LayersNest ==
  /\ \A layer \in held : BuiltOn(layer) \intersect opened \subseteq held
  /\ releasing # <<>> => Head(releasing) \in held

\* When it is over nothing is left, with one exception: bootParticle's returns
\* before the runtime leave the compilation cache open.
NothingIsLeft ==
  stage = "over" =>
    held = IF program.command = "boot" /\ broken \in ToSet(Factories) \union {"kv.fac"}
             THEN opened \intersect {"cache"}
             ELSE {}
=============================================================================

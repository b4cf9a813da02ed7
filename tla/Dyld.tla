--------------------------------- MODULE Dyld ---------------------------------
(***************************************************************************)
(* The runtime's dynamic loader: internal/runtime/dyld, with the dlopen    *)
(* handle table of components/dyld-libdl on top of it.                     *)
(*                                                                         *)
(* load recurses over NEEDED entries, so loads in progress form a stack;   *)
(* the loading map lets a library be on it once, and the stack is kept as  *)
(* a linked list (top, below).  A library's constructors are guest code    *)
(* that runs inside load and may call the loader again.                    *)
(***************************************************************************)
EXTENDS Integers, Sequences, FiniteSets

CONSTANTS
  Libs,           \* names of libraries that are not part of libc
  MainSatisfied,  \* mainSatisfiedNeeded: names main provides statically
  Needed,         \* Libs -> the NEEDED entries of its dylink.0 section
  Imports,        \* Libs -> for each imported function, the libraries exporting it
  Composed,       \* the libraries composed into main at build time
  Reentrant,      \* libraries whose constructors call the loader
  EarlyFailing,   \* libraries whose load can fail before NEEDED is processed
  LateFailing,    \* libraries whose load can fail after NEEDED is processed
  HandleIds,      \* slots of dyld-libdl's LIBS
  None,
  MaxLost         \* bound: references lost per library

ASSUME LibsAssumption == IsFiniteSet(Libs) /\ Libs \intersect MainSatisfied = {}
ASSUME HandlesAssumption == IsFiniteSet(HandleIds)
ASSUME NoneAssumption == None \notin Libs \union HandleIds
ASSUME NeededAssumption == Needed \in [Libs -> Seq(Libs \union MainSatisfied)]
ASSUME ImportsAssumption == Imports \in [Libs -> SUBSET SUBSET Libs]
ASSUME ComposedAssumption == Composed \subseteq Libs

VARIABLES
  preloaded,  \* entries of a.loaded registered by SetLibraries
  registry,   \* entries of a.loaded registered by load
  refs,       \* loadedLibrary.refCount
  deps,       \* loadedLibrary.neededDeps, in load a local: indices into Needed
  binds,      \* libraries whose instances its env shim imports from
  handle,     \* dyld-libdl's LIBS: the library an open handle denotes
  stage,      \* where load(name) is
  next,       \* its place in the NEEDED loop
  below,      \* the load it was called from
  slot,       \* the handle its caller waits for; None when called for NEEDED
  top,        \* the innermost load in progress
  closing,    \* libraries whose neededDeps are being unref'd
  failed,     \* a NEEDED load has returned an error to top
  lost        \* history: references no variable of the program holds any more

entry == <<registry, refs, deps, binds>>
frame == <<stage, next, below, slot, top>>
vars == <<preloaded, entry, handle, frame, closing, failed, lost>>

Stages == {"none", "read", "needed", "build", "ctors"}

TypeOK ==
  /\ preloaded \subseteq Libs /\ registry \subseteq Libs
  /\ refs \in [Libs -> Nat] /\ lost \in [Libs -> Nat]
  /\ deps \in [Libs -> SUBSET Nat] /\ \A l \in Libs : deps[l] \subseteq DOMAIN Needed[l]
  /\ binds \in [Libs -> SUBSET Libs]
  /\ handle \in [HandleIds -> Libs \union {None}]
  /\ stage \in [Libs -> Stages] /\ next \in [Libs -> Nat \ {0}]
  /\ below \in [Libs -> Libs \union {None}] /\ slot \in [Libs -> HandleIds \union {None}]
  /\ top \in Libs \union {None}
  /\ closing \subseteq Libs /\ failed \in BOOLEAN

-----------------------------------------------------------------------------
(* References.                                                             *)

\* The references to c that some handle or neededDeps list holds.
HandlesTo(c) == {h \in HandleIds : handle[h] = c}
Positions == UNION {DOMAIN Needed[l] : l \in Libs}
EdgesTo(c) == {e \in Libs \X Positions : e[2] \in deps[e[1]] /\ Needed[e[1]][e[2]] = c}
Held(c) == Cardinality(HandlesTo(c)) + Cardinality(EdgesTo(c))

\* Mutant: an entry is dropped without its count going down.
ReleasedKept(c) == refs
\* unref: count down, and at zero close the instances, drop the entry and go on
\* with its own NEEDED references.
Released(c) == [refs EXCEPT ![c] = @ - 1]
Closes(c) == refs[c] <= 1

-----------------------------------------------------------------------------
(* Loads.                                                                  *)

\* The guest is running: no load is in progress, or the innermost one runs the
\* library's constructors.
GuestRuns ==
  /\ closing = {} /\ ~failed
  /\ top # None => stage[top] = "ctors" /\ top \in Reentrant
LoaderRuns(s) == closing = {} /\ ~failed /\ top # None /\ stage[top] = s

Begin(l, h) ==
  /\ stage' = [stage EXCEPT ![l] = "read"]
  /\ next' = [next EXCEPT ![l] = 1]
  /\ below' = [below EXCEPT ![l] = top]
  /\ slot' = [slot EXCEPT ![l] = h]
  /\ top' = l

\* The innermost load returns.
Pop ==
  /\ stage' = [stage EXCEPT ![top] = "none"]
  /\ next' = [next EXCEPT ![top] = 1]
  /\ below' = [below EXCEPT ![top] = None]
  /\ slot' = [slot EXCEPT ![top] = None]
  /\ top' = below[top]

Fail == Pop /\ failed' = (slot[top] = None)

\* SetLibraries, once, before any load.
SetLibraries ==
  /\ GuestRuns /\ \A l \in Libs : stage[l] = "none"
  /\ registry = {} /\ \A h \in HandleIds : handle[h] = None
  /\ preloaded' = Composed
  /\ UNCHANGED <<entry, handle, frame, closing, failed, lost>>

\* Mutant: opening a library again does not count the new handle.
ReopenUncounted(l, h) ==
  /\ GuestRuns /\ stage[l] = "none"
  /\ handle[h] = None /\ \A m \in Libs : slot[m] # h
  /\ IF l \in registry \union preloaded
       THEN /\ handle' = [handle EXCEPT ![h] = l]
            /\ UNCHANGED <<entry, frame>>
       ELSE Begin(l, h) /\ UNCHANGED <<entry, handle>>
  /\ UNCHANGED <<preloaded, closing, failed, lost>>

\* dlopen(l): a new handle on a known library, or a load.  A library that is
\* being loaded is refused ("cycle detected"), which changes nothing.
Load(l, h) ==
  /\ GuestRuns /\ stage[l] = "none"
  /\ handle[h] = None /\ \A m \in Libs : slot[m] # h
  /\ IF l \in registry \union preloaded
       THEN /\ handle' = [handle EXCEPT ![h] = l]
            /\ refs' = IF l \in registry THEN [refs EXCEPT ![l] = @ + 1] ELSE refs
            /\ UNCHANGED <<registry, deps, binds, frame>>
       ELSE Begin(l, h) /\ UNCHANGED <<entry, handle>>
  /\ UNCHANGED <<preloaded, closing, failed, lost>>

\* The file is missing or malformed, or main gives no memory or table room.
ReadFails ==
  /\ LoaderRuns("read") /\ top \in EarlyFailing
  /\ Fail
  /\ UNCHANGED <<preloaded, entry, handle, closing, lost>>

\* Read and parse the file, take memory and table room from main.
Allocate ==
  /\ LoaderRuns("read")
  /\ stage' = [stage EXCEPT ![top] = "needed"]
  /\ UNCHANGED <<preloaded, entry, handle, next, below, slot, top, closing, failed, lost>>

\* One entry of the NEEDED loop.
NeededEntry == Needed[top][next[top]]
MoreNeeded == LoaderRuns("needed") /\ next[top] <= Len(Needed[top])
Advance == next' = [next EXCEPT ![top] = @ + 1]

\* Main provides it: no reference.
SkipNeeded ==
  /\ MoreNeeded /\ NeededEntry \in MainSatisfied \union preloaded
  /\ Advance
  /\ UNCHANGED <<preloaded, entry, handle, stage, below, slot, top, closing, failed, lost>>

\* Mutant: a NEEDED library that is loaded already is recorded, not counted.
ShareUncounted ==
  /\ MoreNeeded /\ NeededEntry \in registry
  /\ deps' = [deps EXCEPT ![top] = @ \union {next[top]}]
  /\ Advance
  /\ UNCHANGED <<preloaded, registry, refs, binds, handle, stage, below, slot, top,
                 closing, failed, lost>>

\* It is loaded already: one more reference on it.
ShareNeeded ==
  /\ MoreNeeded /\ NeededEntry \in registry
  /\ refs' = [refs EXCEPT ![NeededEntry] = @ + 1]
  /\ deps' = [deps EXCEPT ![top] = @ \union {next[top]}]
  /\ Advance
  /\ UNCHANGED <<preloaded, registry, binds, handle, stage, below, slot, top,
                 closing, failed, lost>>

\* Give back the references the innermost load has collected, and return its error.
RollBack ==
  /\ Fail
  /\ closing' = {top}
  /\ UNCHANGED <<preloaded, entry, handle, lost>>

Unknown == MoreNeeded /\ NeededEntry \in Libs \ (registry \union preloaded)

\* Load it first.
LoadNeeded ==
  /\ Unknown /\ stage[NeededEntry] = "none"
  /\ Begin(NeededEntry, None)
  /\ UNCHANGED <<preloaded, entry, handle, closing, failed, lost>>

\* Mutant: a load waits for the one already in progress.
CycleWaits == Unknown /\ stage[NeededEntry] # "none" /\ UNCHANGED vars

\* It is being loaded further down the stack: the NEEDED entries are circular.
Cycle == Unknown /\ stage[NeededEntry] # "none" /\ RollBack

\* The NEEDED library failed to load.
NeededFails == closing = {} /\ failed /\ RollBack

\* Mutant: the imports are resolved before the NEEDED libraries are loaded.
BuildEager ==
  /\ LoaderRuns("needed")
  /\ stage' = [stage EXCEPT ![top] = "build"]
  /\ UNCHANGED <<preloaded, entry, handle, next, below, slot, top, closing, failed, lost>>

NeededDone ==
  /\ LoaderRuns("needed") /\ next[top] > Len(Needed[top])
  /\ stage' = [stage EXCEPT ![top] = "build"]
  /\ UNCHANGED <<preloaded, entry, handle, next, below, slot, top, closing, failed, lost>>

\* resolveEnvFuncSources: an import comes from any loaded library that exports
\* it (the order is a map's), from main otherwise.
Sources(l) ==
  LET loaded == {P \in Imports[l] : P \intersect registry # {}}
  IN {{choice[P] : P \in loaded} : choice \in {f \in [loaded -> registry] : \A P \in loaded : f[P] \in P}}

\* Build the shims and instantiate the library; its constructors come next.
Instantiate ==
  /\ LoaderRuns("build")
  /\ \E sources \in Sources(top) : binds' = [binds EXCEPT ![top] = sources]
  /\ stage' = [stage EXCEPT ![top] = "ctors"]
  /\ UNCHANGED <<preloaded, registry, refs, deps, handle, next, below, slot, top,
                 closing, failed, lost>>

\* Building, instantiating, a constructor or the post-load shim fails: load
\* returns without giving back what NEEDED collected.
LateFails ==
  /\ LoaderRuns("build") \/ LoaderRuns("ctors")
  /\ top \in LateFailing
  /\ \A c \in Libs : lost[c] < MaxLost
  /\ Fail
  /\ lost' = [c \in Libs |-> lost[c] + Cardinality({e \in EdgesTo(c) : e[1] = top})]
  /\ deps' = [deps EXCEPT ![top] = {}]
  /\ binds' = [binds EXCEPT ![top] = {}]
  /\ UNCHANGED <<preloaded, registry, refs, handle, closing>>

\* The library is ready: it enters the registry with its caller's reference.
Register ==
  /\ LoaderRuns("ctors")
  /\ registry' = registry \union {top}
  /\ refs' = [refs EXCEPT ![top] = 1]
  /\ IF slot[top] # None
       THEN /\ handle' = [handle EXCEPT ![slot[top]] = top]
            /\ next' = [next EXCEPT ![top] = 1]
            /\ UNCHANGED deps
       ELSE LET parent == below[top] IN
            /\ deps' = [deps EXCEPT ![parent] = @ \union {next[parent]}]
            /\ next' = [next EXCEPT ![top] = 1, ![parent] = @ + 1]
            /\ UNCHANGED handle
  /\ stage' = [stage EXCEPT ![top] = "none"]
  /\ below' = [below EXCEPT ![top] = None]
  /\ slot' = [slot EXCEPT ![top] = None]
  /\ top' = below[top]
  /\ UNCHANGED <<preloaded, binds, closing, failed, lost>>

-----------------------------------------------------------------------------
(* Closing.                                                                *)

Unref(c) ==
  /\ refs' = Released(c)
  /\ registry' = IF Closes(c) THEN registry \ {c} ELSE registry
  /\ binds' = IF Closes(c) THEN [binds EXCEPT ![c] = {}] ELSE binds

\* dlclose: the handle's slot is emptied and the resource dropped.
Drop(h) ==
  /\ GuestRuns /\ handle[h] # None
  /\ handle' = [handle EXCEPT ![h] = None]
  /\ IF handle[h] \in preloaded
       THEN UNCHANGED <<entry, closing>>
       ELSE /\ Unref(handle[h])
            /\ closing' = IF Closes(handle[h]) THEN {handle[h]} ELSE {}
            /\ UNCHANGED deps
  /\ UNCHANGED <<preloaded, frame, failed, lost>>

\* The cascade: one reference of a closed or failed library is released.
Cascade(l, i) ==
  LET dep == Needed[l][i] IN
  /\ l \in closing /\ i \in deps[l]
  /\ Unref(dep)
  /\ deps' = [deps EXCEPT ![l] = @ \ {i}]
  /\ closing' = closing \union (IF Closes(dep) THEN {dep} ELSE {})
  /\ UNCHANGED <<preloaded, handle, frame, failed, lost>>

CascadeDone(l) ==
  /\ l \in closing /\ deps[l] = {}
  /\ closing' = closing \ {l}
  /\ UNCHANGED <<preloaded, entry, handle, frame, failed, lost>>

-----------------------------------------------------------------------------
Init ==
  /\ preloaded = {} /\ registry = {}
  /\ refs = [l \in Libs |-> 0] /\ lost = [l \in Libs |-> 0]
  /\ deps = [l \in Libs |-> {}] /\ binds = [l \in Libs |-> {}]
  /\ handle = [h \in HandleIds |-> None]
  /\ stage = [l \in Libs |-> "none"] /\ next = [l \in Libs |-> 1]
  /\ below = [l \in Libs |-> None] /\ slot = [l \in Libs |-> None]
  /\ top = None /\ closing = {} /\ failed = FALSE

LoaderStep ==
  \/ ReadFails \/ Allocate \/ SkipNeeded \/ ShareNeeded \/ LoadNeeded \/ Cycle
  \/ NeededFails \/ NeededDone \/ Instantiate \/ LateFails \/ Register
  \/ \E l \in Libs : CascadeDone(l) \/ \E i \in DOMAIN Needed[l] : Cascade(l, i)

Next ==
  \/ LoaderStep
  \/ SetLibraries
  \/ \E h \in HandleIds : Drop(h) \/ \E l \in Libs : Load(l, h)

Spec == Init /\ [][Next]_vars

\* load runs on the guest's own goroutine: it is never suspended.  Constructors
\* come to an end, even those that open and close libraries.
FairSpec ==
  /\ Spec /\ WF_vars(LoaderStep)
  /\ \A l \in Reentrant : SF_vars(top = l /\ (Register \/ LateFails))

-----------------------------------------------------------------------------
\* What an open handle, or a library's NEEDED list, refers to is loaded: no
\* dlsym, and no call of a dependency, reaches an instance that was closed.
NoDangling ==
  /\ \A h \in HandleIds : handle[h] # None => handle[h] \in registry \union preloaded
  /\ \A l \in Libs : \A i \in deps[l] : Needed[l][i] \in registry

\* A loaded library's NEEDED libraries are all there, loaded before it.
NeededIsLoaded ==
  \A l \in registry : \A i \in DOMAIN Needed[l] :
    Needed[l][i] \in registry \union preloaded \union MainSatisfied

\* The count covers every reference once; only failed loads make it too high.
RefCountIsAccounted == \A c \in Libs \ preloaded : refs[c] = Held(c) + lost[c]

\* When every handle is closed every library is unloaded, however its
\* dependencies were shared, unless a failed load has lost references.
LastCloseUnloads ==
  (GuestRuns /\ top = None /\ (\A h \in HandleIds : handle[h] = None)
     /\ \A c \in Libs : lost[c] = 0) => registry = {}

\* The libraries l brings with it: l and what it NEEDS, what those NEED and so on, but
\* not what a library composed into main needs, since main has that.
Brings(l) ==
  {t \in Libs : \A D \in SUBSET Libs :
     /\ l \in D
     /\ \A m \in D \ Composed : \A i \in DOMAIN Needed[m] :
          Needed[m][i] \in Libs => Needed[m][i] \in D
     => t \in D}

\* A library's functions come from libraries it brings (and from main).
ImportsAreNeeded == \A l \in Libs : \A P \in Imports[l] : P \subseteq Brings(l)

\* A library's function imports stay bound to instances that are open.
BindingsStayOpen == \A l \in registry : binds[l] \subseteq registry

\* dlopen returns, with a handle or an error, even over circular NEEDED entries.
LoadReturns == \A l \in Libs : stage[l] # "none" ~> stage[l] = "none"
=============================================================================

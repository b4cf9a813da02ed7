# TLA+ verification of particles

This directory models the parts of `particles` whose correctness depends on
order: what happens when goroutines, processes, guest callbacks and failures
fall between two steps of the code. Every definition is translated from `src/`
(`PROJECT.json`, `map`, names the lines). TLC checks the modules on small
instances; TLAPS proves the most important facts for every value of the
constants.

- [The system](#the-system)
- [Modules](#modules)
- [Runs](#runs)
- [Bounds and fairness](#bounds-and-fairness)
- [Proofs](#proofs)
- [What disagrees with the documentation](#what-disagrees-with-the-documentation)
- [What is not modelled](#what-is-not-modelled)
- [Plan](#plan)

## The system

A *particle* is a bundle of JavaScript, Python or wasm with a manifest of tools
and capabilities. The host builds it, imports it into a registry, provisions
its credentials, boots it as a wasm component and serves its tools.

| Component | State it keeps | Operations | What is hard | What makes it correct |
|---|---|---|---|---|
| CPU limiter (`runtime/limiter.go`, `internal/hostmeter`) | clock (`running`, `runStart`, `elapsed`), `tripped`, `stopped`, a watchdog goroutine | Start, Stop, Pause, Resume, Used, Tripped; BeforeCall, AfterCall | the watchdog reads and decides in two critical sections; host functions re-enter the guest | a tripped call used its budget; host time is free; a guest over budget is stopped |
| Entry points (`runtime/particle.go`) | the instance, compiled schemas | CallTool, ListTools, GetManifest, Ping, Close | calls queue on one instance; the verdict is asked after the call returned | a budget error means a budget used up |
| Temp mount quota (`quotafs`) | one counter per mount | Open, OpenAt, UnlinkAt, WriteAt, Write, Truncate, Close | only the counter is locked: sizes are read before and used after | the bytes stay under the cap; the counter is their sum |
| Host directories (`internal/osmount`) | the directory tree | the WASI file operations | names, links and open files part company | what the guest sees is what the host has |
| Dynamic loader (`internal/runtime/dyld`, `components/dyld-libdl`) | loaded libraries, reference counts, NEEDED edges, handles, guest memory | Load, Sym, Drop, SetLibraries | recursion over NEEDED, constructors that call the loader, failure at each stage | nothing used is closed, nothing unused stays |
| Key/value store (`kv`, `kv/memory`, `kv/sqlite`) | entries and a byte counter per particle | Set, Get, Delete, List | transactions of several processes; bytes and characters | every call is atomic; the quota holds; the counter is the sum |
| Credentials (`credentials`, `credentials/sqlite`) | entries (name, method, metadata), secrets by role | Put, Delete, ReadSecret, WriteSecrets, DeleteSecret | method switch and rotation in two processes | no secret of one method under another |
| OAuth rotation (`credentials/oauth.go`) | none of its own | rotateAccessToken | network between the read and the write | the newest tokens are what is stored |
| Secret sealing (`credentials/sqlite/keyring.go`) | the key in the OS keyring | NewKeyringSealer, Seal, Open | first use in two processes | what was sealed can be opened |
| HTTP policy (`runtime/policy.go`) | declared hosts and credentials | Do, CheckRedirect, refresh before expiry | redirects; expiry during the call | secrets go only to allowed hosts |
| Importer (`importer`, `builder_mcp.go`) | rows in the three stores | Import, Reconfigure, ReauthOAuth; the build_particle tool | several stores, no common transaction; the silent reinstall compares with a version others may replace | nothing is installed unasked; an imported particle is provisioned |
| Registry (`registry/sqlite`) | versions and their files | Put, Get, List, Delete | a running particle reads its files while they are replaced; Get is two queries | a particle runs on the files of one Put |
| Mount mappings (`mounts`, `cmd/particle/mounts.go`) | one row per mount | Set, Delete, Get; resolveMounts | the manifest is read again after the mounts were resolved by it | a particle has the mounts its manifest needs and no other |
| Boot and teardown (`runtime/runtime.go`, `cmd/particle/runtime.go`, `internal/build/wacogo`, `internal/embedzstd`) | engine, managers, runtime, mounts, component, host instances, instance | bootParticle, NewWithOptions, Close | each failure has a release list of its own | everything built is released once, and never under something built on it |
| libffi (`internal/runtime/libffi`, `components/libffi-wasi-bridge`) | the call cache, the function table, closure structs, the shadow stack | prep_trampoline, closure_alloc, prep_closure, ffi_call | a slot is taken before the trampoline is made; calls nest through closures; several layouts computed apart | a slot holds the trampoline it was taken for; arguments, results and the stack pointer survive |
| Host bindings (`internal/host/gen`, generated) | the guest's memory and handle table during a call | lift, call, allocate, lower, per function | thousands of literals; guest code runs between the writes of a result | what one side sends the other gets; the host writes only into its blocks |
| Build pipeline, bundles, linking, manifests, CLI, guest components | output files | sequential | data, not order | outside this project |

How they interact: an entry point arms the limiter and calls into wasm; wasm
calls host functions (kv, credentials, oauth, signing, http, files, dyld,
libffi), each between BeforeCall and AfterCall of the meter; dyld and libffi
call back into the guest (`malloc`, `__grow_table`, constructors). The stores
are SQLite tables in one database file in WAL mode (`openStateDB`), shared by
every `particle` process on the machine.

## Modules

| Module | Models | State and actions |
|---|---|---|
| `Limiter` | limiter, host meter, the metered part of the entry points | One call from Start to Stop. The call stack is its depth: odd, wasm on top; even, a host function. `Pause`, `Resume`, `StopClock` are the methods of the same names; `EnterHost`/`LeaveHost` are BeforeCall/AfterCall; `EnterGuest`/`LeaveGuest` a host function's call into the guest; `Poll` and `Trip` the watchdog's two critical sections; `Judge` the question `Tripped()` after `fn.Call`; `Interrupt` is wazero's CloseOnContextDone. |
| `QuotaFS` | `quotafs` over `osmount` | `file`, `link`, `size`, `open` are the host directory; `used` the counter; `op[p]` the operation caller `p` is in. Each metered operation is the chain of its critical sections: read the size (`WriteAt`, `Truncate`, `OpenTrunc`, `Unlink`), `Reserve`, the backing call (`BackingWrite`, ..., or `BackingRefuses`, its error return), `Release`. `Allowed` says what a guest does besides using its own files one operation at a time, so that a run can say under which use a property holds. |
| `Dyld` | the loader and the shim's handle table | `registry`, `refs`, `deps` are `a.loaded` and the fields of an entry; the loads in progress are a stack (`top`, `below`, `stage`, `next`). One action per stage of `load` and per way it fails; `Drop`, `Cascade`, `CascadeDone` are `unref` and its recursion. Constructors are guest code inside `load`: while the innermost load is in `ctors`, a library of `Reentrant` may open and close others. |
| `Totals` | | The sum of a table of numbers (`Total`), as a cardinality so that it can be proved about; the usage of a namespace and the bytes of a mount are such sums. |
| `KVTexts` | | The texts, sizes and requests that the two KV modules share. A text is a value with two sizes: bytes (Go) and characters (SQLite's LENGTH). |
| `KV` | the contract of `kv/kv.go`; also `kv/memory` as it stands | A call is started (`Call`), takes effect in one step, and has returned. |
| `KVSqlite` | `kv/sqlite` | The same calls as transactions: `SetRead` (snapshot, the SELECTs, the quota check), `Lock` (the first write takes the write lock, unless somebody committed since the snapshot), `SetCommit`; `DeleteRead`, `Lock`, `DeleteCommit`; `Rollback` for every error. `Contract == INSTANCE KV WITH entries <- rows`. |
| `CredentialStore` | the contract of `credentials.Store`, with `credentials/sqlite` and `credentials/memory`, for one credential name | `entry` is the name's row, `secret` the secrets by id and role, `lastId` counts the ids given out. `Put` (create, update, method switch), `WriteSecrets`, `DeleteSecret`, `Delete` are one step each: a transaction in sqlite, a critical section in memory. |
| `Credentials` | the callers of that name: HTTP substitution, getRaw and signing, `rotateAccessToken`, `Reconfigure` and the importer's set-up, `ReauthOAuth`; and the OAuth provider | `op[p]` is what caller `p` is in the middle of: the descriptor it read, the token in hand and the step it is at. `Use`, `Refresh`, `Reauth`, `Setup` begin; `Read` and `Missing` are ReadSecret's two queries; `Due`, `Lookup`, `Exchange`, `Write` are a rotation; `Kept`, `Authorize`, `SetupPut`, `Clear` a set-up; `Abandon` is every error return, cancellation or crash. `grants` and `live` are the provider: what it authorised, and the refresh token it takes. |
| `Install` | the commands over registry, credentials and mount mappings, for one particle name | `row`, `files`, `configured`, `mapped` are the tables; `op[p]` is the command process `p` is in. Each statement or transaction is one action: `Latest` (List), `Get` and `Snapshot` (Get's two queries), `ReadManifest`, `Silent`/`Accept`, `SetUp`, `SetUpMount`, `RegistryPut`, `Delete`, `ResolveMount`, `NewParticle`, `ReadFile` (dbFS). `Abandon` is a refused prompt, an error or a crash at any of them. `accepted` and `imported` are history. |
| `HostBindings` | the generated bindings of the seven host interfaces | No state: a codec per WIT type and a descriptor per host function, with the literal offsets, strides, alignments, sizes and slots of the generated code. |
| `HostABI` | one call of a guest through those bindings, again and again | A `Call` makes a list of what is to be written (`todo`); the guest lowers it write by write as the canonical ABI says, onto the stack (`Push`) and into memory (the `Write...` actions). The binding lifts the arguments (`Lift`), the `Implementation` answers, `AllocateOut` asks for the result's block, and the same actions lower the result with the host's layout (`Side`), `BindHandle` registers an owned resource, `Return` reads the result as the canonical ABI says. Wherever a block is needed guest code runs and may trap (`ReallocFails`). A byte is a pair of the number stored and its place in it, so a read at a wrong offset gives nothing sensible. |
| `Boot` | construction and release: bootParticle, wacogo.NewWithOptions, newParticleInternal, Close | `held` is what is built, `Rungs` the order of building, `releasing` the list a failure or a teardown works off. `Fail` may happen at any rung that has an error return; `Unwind` is the list of that return. |
| `Trampolines` | the layouts of libffi | No state: C types, how a signature becomes a descriptor (`encode_type`), what it lowers to, the layout of variadic buffers and closure frames. |
| `Libffi` | the adapter and the guest that uses it | `table`, `callCache`, `closure` are where trampolines are; `mem`, `sp`, `calls` the shadow stack and the calls on it. `PrepTrampoline`, `ClosureAlloc`, `PrepClosure` may fail half-way; `Dispatch` runs a trampoline up to its target (and, for a closure, on to the closure's function); `TargetReturns` and `CallerGoesOn` unwind. |
| `PythonParticle` | `Boot` and `Libffi` composed | libffi is used while its layer is held; teardown takes the trampolines and the stack with it. |
| `MCQuotaFS`, `MCDyld`, `MCKVSqlite`, `MCCredentials`, `MCInstall`, `MCHostABI`, `MCPythonParticle` | | Values and symmetry for TLC. |
| `LimiterProofs`, `QuotaFSProofs`, `DyldProofs`, `KVSqliteProofs`, `CredentialsProofs`, `InstallProofs`, `PythonParticleProofs`, `HostABIProofs` | | Theorems and proofs. |

Operators whose comment begins with "Mutant" are deliberate errors, each in
the place of the definition that follows it; they show that a property can
fail and are used by nothing else.

## Runs

| Run | Configuration | Shows |
|---|---|---|
| `limiter` | re-entry allowed, hard limit, depth 4 | the clock charges exactly the time outside host functions, as long as none re-entered the guest; the watchdog acts within one interval; a tripped limiter used its budget and a budget error reports at least the budget; Used never decreases and is final after Stop; a call over budget ends even if the guest never does |
| `quotafs_files` | two callers on different files, short writes | the counter covers the bytes at every step and is exact when nothing is in progress; the bytes stay under the cap |
| `quotafs_any_use` | two callers, any use | the counter stays between zero and the cap |
| `dyld` | three handles; a diamond, a circle, an entry main provides; re-entrant constructors; two libraries that may fail late | nothing dangles; every count is held or lost references; the last close unloads all; dependencies and bindings stay; dlopen returns |
| `kvsqlite` | two callers, one-byte texts | no update from an overtaken snapshot, counter in sync and within quota, refinement of `KV` |
| `credentials` | two callers; an API key and an OAuth method | the stored refresh token is the one the provider takes, or its successor is about to be written, unless an answer or a write failed; no secret without its entry; "not set" was true of a real entry; only a late write leaves another method's secret behind |
| `install` | two processes; two builds of version 1, one that needs a credential and a mount; a version 2 with other credentials (642,336 states) | nothing is registered whose permissions nobody accepted; an imported version has its required credentials; what runs is one Put's files, unless overtaken, with the mounts it needs and no other |
| `host_abi` | every function of the seven interfaces, strings and lists of each length up to the bound (346,044 states) | arguments and results arrive; a side writes into the blocks it was given and nowhere else; flat forms are as wide as the guest's |
| `python_particle` | boot and build of each kind of particle; five C signatures (31,345 states) | layers nest and nothing is left but the compilation cache; slots are served; targets get their arguments, passed by the bridge's convention, at any depth; calls come back with result and stack pointer |

The other runs (`expect: violation`) each check one statement of the
documentation that the code does not meet; they are
[listed below](#what-disagrees-with-the-documentation).

## Bounds and fairness

- `Limiter`: `Budget` 3, `Interval` 2, `MaxTime` 8, `MaxDepth` 4. The budget
  is not a multiple of the interval, time runs past budget plus two intervals,
  and depth 4 holds a host function below a re-entrant guest call that calls the
  host again, the smallest stack on which Pause and Resume nest.
  `MaxTime` is a multiple of `Interval` so that the ticker's last period ends.
- `QuotaFS`: two callers, two names, two handles, three inodes (a name may be
  reused while its old file is open), `SizeLimit` 2 with `Cap` 3 (two full files
  do not fit, one and a half do), or 1 with 1.
- `Dyld`: six libraries: a diamond with an entry that main provides, a circle,
  one composed library; three handles (two on one library and one on
  another). `MaxLost` 2 bounds the references failed loads lose per library.
- `KVSqlite`: two callers, one particle, two keys and three values (the empty text
  among both, so that an entry may be of no byte), a quota two entries of the larger size
  pass. Particles do not share rows, so a second one adds only products of states.
- `Credentials`: two callers that are alike (each may be a request, a
  rotation, a set-up or a re-authorisation, one after the other), two ids (an
  entry is deleted and made again), three grants, each renewed once: enough for
  two rotations of one token, a re-authorisation and a switch to overlap. The
  proof's invariant holds with two renewals as well.
- `Install`: two processes that are alike, each of which may be any command, one
  after the other, so that every statement of one falls between any two of the
  other. Two builds share version 1 (a re-Put with other files, credentials and
  mounts; one has a file the other lacks), a third is version 2 with the
  capabilities of the second and other credentials: the smallest set in which
  a reinstall may compare with an equal, a smaller or a vanished version. One
  credential and one mount: each is configured on its own.
- `HostABI`: strings of length 0 and 3 (after which the next block is unaligned),
  lists of up to two elements, numbers 0 and 1, 192 bytes of memory (the largest call
  fits), two libraries.
- `PythonParticle`: all six programs; signatures with scalars of both widths,
  a boxed struct, a struct passed and returned, a long double, a struct with
  padding, and two variadic ones: arguments of either alignment with a long double
  where C looks for it, and, with no fixed argument and no result, a long double on an
  odd multiple of 8, where C does not (excused by `AlignKept`); one closure, three
  table slots (fewer than the trampolines there are to make), calls two deep, the
  smallest in which an inner call could disturb an outer one; 288 bytes of stack, which
  the two largest calls fill. A call that would not fit on the stack is not made
  (`Dispatch`): in a program it overwrites what lies below.
- Sizes, offsets and ticks are small naturals: none of the code's arithmetic
  comes near the width of its integers.

Fairness. `Limiter`'s liveness property needs: goroutines that can run do (`Poll`,
`Trip`, `Judge`, `Stop`, `Enter`), a host function returns once cancelled
(`LeaveHost`), and wazero's check at loop back-edges and calls halts a
cancelled guest (`SF` on `Interrupt`, which is enabled only while wasm is on top).
Nothing obliges the guest to return or to call the host. `Tick` stops while the
watchdog has something to do: this is the promptness the code's comment on the
overshoot relies on. `Dyld`'s `LoadReturns` needs that `load`,
which runs on the guest's own goroutine, keeps going, and that a constructor that
may open libraries itself comes to an end at last (`SF` on its `Register`/`LateFails`):
a constructor that opens and closes for ever keeps `dlopen` for ever, in the code too. `CHECK_DEADLOCK FALSE` is said for `Limiter`,
where the call ends, and for `PythonParticle`, where the process does.

## Proofs

| Theorem | For all | Argument |
|---|---|---|
| `LimiterProofs!TypeCorrect`, `TripIsSound`, `BudgetErrorIsSound`, `UsedNeverLost`, `MeteringIsSound`, `OvershootIsSmall` | budgets, intervals, depths, flags | The verdict is taken from a reading of Used() that may be old; it stays right because no step lowers Used, and after Stop none changes it. `MeteringIsSound` needs that the clock runs exactly while wasm is on top, which holds until a host function re-enters the guest (the history variable `reentered`). `OvershootIsSmall`: while the watchdog polls, the clock has gained at most what the ticker counted since a reading below the budget (`PollInv`). |
| `QuotaFSProofs!TypeCorrect`, `CapIsKept` | callers, files, caps, any use | The check and the addition are one step; releases only lower the counter. The type invariant carries the arithmetic: an operation that reserved has a credit that fits its type only because of how its range and old size relate at each stage. |
| `QuotaFSProofs!CounterCovers`, `CapCapsBytes`, `CounterIsExact` | callers, files, caps, sequential use | The counter is the bytes that can be reached plus what the operations in progress owe: reserved and not yet written, or still to be given back (`Accounted`; an equality unless a write of nothing is allowed). It is inductive because an operation finds its file as it was when it read the size (`Ready`, `Apart`: no two operations work on one file, no file has two names, an open one has a name). The hypothesis `Sequential` (files are not shared, linked, unlinked while open or removed by Rmdir) is what the code needs: each other use is in `Allowed`, and [breaks it](#what-disagrees-with-the-documentation). |
| `DyldProofs!ReferencesAreCounted`, `NothingDangles` | libraries, NEEDED graphs, handles, failures, constructors | Counting: each action changes the set of handles and edges to a library by the same number as the count. `NoDangling` follows since a library leaves the registry only at count zero, with the shape of the stack of loads in progress as strengthening. |
| `DyldProofs!LibrariesHaveWhatTheyNeed`, `NothingStaysLoaded`, `BoundInstancesStayOpen` | the same | What the NEEDED loop has passed is referenced or main's (`Passed`). References among loaded libraries run in no circle, because a new one refers to older ones and nobody refers to it (`Acyclic`; the loads in progress are a stack, `Stacked`); so when no handle is left some library has no reference at all, contradicting its count. An import is bound to a library the importer brings with it (`Bound`), and what a library brings stays while it stays (`BringsStay`). The last theorem assumes `ImportsAreNeeded`: an import satisfied by an unrelated library is held open by nothing, in the code too. |
| `KVSqliteProofs!NoLostUpdate`, `QuotaIsKept` | clients, particles, keys, texts, quota | One writer at a time, and a snapshot that is not stale still agrees with the database; a commit makes every other snapshot stale. The counter is never below the entries (`Covered`: what SQLite's LENGTH takes off is at most the bytes that go), and a Set in progress was found to fit (`Passed`), so the quota holds for any alphabet. |
| `KVSqliteProofs!CounterIsExact`, `BackendImplementsContract` | the same, texts of one-byte characters | With `OneByteTexts` the counter is the sum, which makes the quota check the contract's. The refinement maps each commit, each read and each refused Set to one step of `KV`, each rollback to its error, and every other step to a stutter. Both hypotheses are those of the implementation: with wider characters the counter is too high (`kvsqlite_refusal`), and LIKE is HasPrefix only without case (`LikeIsPrefix`). |
| `CredentialsProofs!Typed`, `NothingLeftBehind`, `RotationKeepsTheCredential`, `NotSetWasTrue`, `SwitchLeavesNothing` | callers, methods and kinds, ids, grants, renewals | The strengthening `Inv` says who may hold what: a grant not stored yet is nobody else's (`FreshIsUnshared`), while a rotation brings a new token every other token of the grant is spent (`OthersAreSpent`), and the tokens of a grant are of one entry (`OneEntryPerGrant`). So the provider can take a token only from the caller whose answer will replace it. Steps are proved in three kinds: those that only move one caller (`GoesKeepsInv`), only take away (`ShrinkKeepsInv`), or store what a caller holds (`StoringKeepsInv`). |
| `InstallProofs!NothingIsInstalledUnasked`, `ImportProvisions`, `OnePutPerParticle`, `MountsAreRight` | processes, versions, bundles, files, credentials, mounts | The strengthening `Good` says what a command in progress may rely on: whatever it has read was trusted when it was read and trust is never taken back (`Asked`), an import's credentials still to do are the only required ones missing (`Provisioned`), the index of a boot is what the version holds until a write marks it overtaken (`Current`), and the mounts were checked against the manifest it runs under (`Fits`). `RegistryIsWhole`: a version is one bundle's files or none. Steps are proved in two kinds: those that move one command and take nothing from the stores (`MoveKeepsInv`), and the two that replace a version (`ReplaceKeepsInv`). |
| `PythonParticleProofs!SlotsServe`, `SlotsHaveOneOwner` | signatures, closures, failures | A slot was handed out once, to a descriptor or to a closure (`SlotsAreApart`), and an unprepared closure's is empty: so filling a closure's slot overwrites no trampoline. |
| `PythonParticleProofs!CallsReturn`, `StackBalances` | signatures, closures, depths, stack sizes | Each call in progress starts where the one outside it has the stack pointer (`CallsNest`), and its record says where the target puts the result (`CallOK`). It rests on facts about the layouts, for every C type and signature: pieces of a value do not overlap and end within it (`CValue`), frames and buffers are multiples of sixteen and hold what is put in them (`CallerFrameOK`, `ClosureFrameOK`, `VarargsOK`), a descriptor has a direct result exactly when the C result is one scalar (`Returned`). |
| `PythonParticleProofs!ArgumentsReachTargets` | the same, nesting to any depth | `ArgsStay`: what each target in progress has, in its operands, the variadic buffer or a closure's frame (`HasArgs`), is what its caller's frame holds. A new call's stores put each piece where its target reads it, since values are laid apart (`Delivered`, `PointerStored`) and the descriptor lays them out as C does when it keeps their sizes (`SamePieces`, `SameBuffer`); operands are the flattened pieces (`CallOperands`). The outer targets keep theirs, since a call writes nothing at or above where its caller has the stack pointer (`CallerPuts`, `PackedBelow`, `FrameBelow`, `ReturnsBelow`, `KeepsArgs`). A struct whose size the descriptor understates (padding, or above 16 bytes) is excluded by the property itself where it is laid in memory, since there the code delivers something else (`SizesKept`), and so is a variadic signature that C would lay out otherwise with its sixteen-byte alignment of a long double (`AlignKept`; beside it, eight is the most any type has, `AtMost8`). Both conditions speak of the C types alone, so no error in the descriptor or the layouts can hide behind them. In the operands of a plain call padding is harmless, and that is proved too. |
| `PythonParticleProofs!TeardownNests`, `TeardownIsWhole` | programs, runtimes, failures | `BootInv`: on the way up all that was opened is held (`Rising`); on the way down what is held is on the list of releases, goes with the engine that is on it or is the excused cache, the list is in the order of the layers, and what is gone came after all that is held (`Falling`). So it suffices that the list of every error return, and teardown's, is whole and in that order. |
| `HostABIProofs!ArgumentsReach`, `ResultsReach`, `WritesAreInBlocks`, `FlatFormsAlwaysFit` | memory sizes, texts, numbers, list lengths, libraries, traps of the allocator | First the literals, declaration by declaration: each codec's host layout is its canonical one, its components lie inside it and apart (`CodecsSound`), each function's parameters have their own slots and its block the result's size (`FunctionsSound`). Then the invariant (`IInv`): what is still to be written lies in blocks the side was given, no two items in one place (`BlocksOK`), and *however* the writing is completed, a reader of the completed memory finds what was meant (`Arriving`, `Answered`). A step writes the first item and puts its components in its place, which are enough for a reader of it (`WriteStep`). Nothing is assumed of the allocator but that its blocks are fresh and aligned. The layouts are compared with each other, so a wrong literal makes the first part fail. |

Data of any length: `Ends` and `FlattenSeq` are recursive functions, and what they compute
for every input is proved by induction stated on sets (`Least`, `Induction` of
`PythonParticleProofs`, from the well-foundedness of the natural numbers). Sums are
cardinalities (`Totals`), so that the library's theorems on finite sets apply; the lemmas on
sums stand in both modules that need them. The readers and the values of `HostABI` are
recursive functions on codecs; WIT declarations nest to depth six at most, so six unfoldings
give each its fixpoint (`FindsAre`, `ValuesAre`), and the same six prove things of every codec
(`CodecInduction`).

Assumptions are the named ASSUMEs of the modules; TLC evaluates them in every run.

Only model-checked: the liveness properties `OverBudgetCallEnds` and `LoadReturns`, which are
beyond the prover. Each other property of a passing run is a theorem.

## What disagrees with the documentation

Shown by a run each; `PROJECT.json` quotes the line it contradicts:

| Run | The code |
|---|---|
| `quotafs_unlinked` | an unlinked open file is credited twice, and the bytes pass the cap |
| `credentials_stray` | a rotation (or re-authorisation) under way during a method switch writes OAuth tokens into the entry of the new method, where they stay |
| `kvsqlite_refusal` | the counter adds bytes and subtracts characters: writes that fit are refused |

Met while modelling, without a run of their own:

- `runtime/limiter.go:163`: Pause and Resume keep a flag and no depth, so when a
  host function re-enters the guest and the guest calls the host again, the
  outer function's remaining time is charged (`MeteringIsExact` holds up to
  `reentered`); `limiter.go:42-46` says host time is free.
- `internal/runtime/dyld/loader.go:1453-1632`: the error returns after the NEEDED loop
  drop `neededDeps` without unref, so a load that fails late keeps references on its
  dependencies (the term `lost` of `RefCountIsAccounted`); `loader.go:1436-1438` says
  a failure leaks none.
- `importer/oauth.go:174`: the device-code flow leaves the client secret's choice
  at "keep"; on a fresh credential the set-up then fails for want of an entry
  (`Kept` in `Credentials`).
- `registry/sqlite/sqlite.go:200-203` says a running particle does not see a re-Put of its
  version; its files are read live, so it does (the exception `overtaken` of
  `RunsOnOnePut`). A Delete between Get's two queries gives an entry with an
  empty index.
- `cmd/particle/builder_mcp.go:245-247` calls the installation atomic: credentials, mounts
  and registry are transactions of their own, and a failure after the first ones leaves
  their rows. `importer/importer.go:4-7` says every credential is provisioned: optional ones may
  be skipped, and build_particle registers a version without required ones.
- delete's help says the choice of authentication is cleared; no command deletes a
  credential's rows.
- `importer/setup_simple.go:43`: a cleared secret is removed in a second transaction
  after Put, so a crash between them leaves it.
- `cmd/particle/runtime.go:130-151`: the returns before the runtime is built leave the
  compilation cache open (the exception of `NothingIsLeft`).
- `internal/embedzstd/lazy.go`: the first error of a lazily loaded component is kept for
  the life of the process, that of a cancelled caller too.
- `runtime/particle.go:472-479` says dyld gets the preopens that wasi:filesystem gets; it
  gets the built-in file system alone.
- `internal/runtime/libffi/sig.go:88-91`: a struct counts as the sum of its fields, so
  one with padding overlaps what follows it in a variadic buffer or a closure's frame,
  and a struct above 16 bytes, encoded as an i32, is loaded instead of
  passed by pointer (`SizesKept` and `ByPointer` in `TargetsGetArguments`).
- `internal/runtime/libffi/tramp_call.go:375-380`: `naturalAlign` "returns the C natural
  alignment" and gives a long double 8, where the C ABI of wasm32-wasi has 16. In a
  variadic buffer a long double on an odd multiple of 8 is looked for by `va_arg` eight
  bytes further on (`AlignKept`: without it `TargetsGetArguments` fails in the run).
- `components/libffi-wasi-bridge/src/lib.rs` ("ABI lowering rules") flattens a struct of
  several fields up to 16 bytes, and its tests expect that. Clang's basic C ABI passes
  such a struct by pointer. The model's C functions follow the bridge's rule, so the run
  and the theorems show that caller, trampoline and closure agree on this
  convention, not that a C compiler shares it.
- `components/libffi-wasi-bridge/src/lib.rs:271-274`, `tramp_call.go:193`: integers of one and
  two bytes become an i32, and the trampoline loads four bytes where the caller
  stored fewer. No C type of the model is that narrow.
- `internal/runtime/libffi/adapter.go:175`: a trampoline that fails after `__grow_table` leaves its slot
  unused for good; `__grow_table`'s -1 is not checked, and `table-full` of host.wit is never
  returned. `tramp_closure.go` says a variadic closure fails when it is made; it is made, and
  traps when called.
- `runtime/particle.go:721`: a trip seen after the result has arrived replaces it
  by a budget error (`Judge` in `Limiter`).
- `runtime/limiter.go:109`: the time a call waits for the instance is charged.
- `quotafs/quotafs.go`: two operations on one file use sizes read before the
  other's change, so the counter drifts and the cap may be passed; unlinking a
  symlink credits the size of its target; a write of no byte past the end keeps
  its reservation; removing a file with rmdir gives no credit. Each is an element
  of `Allowed` (`"share_file"`, `"symlink"`, `"empty_write"`, `"rmdir_file"` in `QuotaFS`), so adding it in
  `QuotaFSFiles.cfg` shows the trace.
- `internal/runtime/dyld/adapter.go:313`: closing a library's instance does not give
  its part of the guest's memory and table back.
- `kv/sqlite/sqlite.go:222`: a Delete that brings the counter to zero prunes the usage row, also when
  an entry of no byte (an empty key and value) is left; harmless, since no row counts as zero.
- `kv/sqlite/sqlite.go:237`: List's LIKE ignores the case of ASCII letters.

## What is not modelled

- Data without order: scanners, bundlers and solvers of the build pipeline, manifest decoding,
  schema validation, permissions texts, the wasm bytes that trampolines and shims are
  encoded as (their effect is modelled). Of the generated bindings, the forms for a call from one
  component to another: they share the literals, and this program composes none.
- The guests. Models take what they may do as nondeterminism: calls in any
  order, sizes within the bound, constructors that call the loader.
- Stateless or external: the HTTP policy's host matching and redirects, sealing (one branch
  over the OS keychain), executables that carry a bundle, tracing.
- Cryptography, terminals, browsers, HTTP and the file system below `os.Root`.
- In `QuotaFS`: directories, renames, hard links, appends, and short writes that
  report a length without an error. In `Dyld`: symbol lookup beyond which
  instance a function import binds to. In `KVSqlite`: a second `Backend` with another
  quota on the same database. In `Credentials`: more than one name (they share no
  row), the metadata beyond the method and its kind, and the clock (a token may be
  due at any read). The descriptor and the secret are read separately, as in the code.
  In `Install`: more than one particle name (they share no row), and the value of a
  credential (that is `Credentials`). In `Libffi`: results above 16 bytes, whose call type
  is wrong in the code, and integers of one and two bytes. In `PythonParticle`: what get-manifest runs during a build.

## Plan

1. Done: `Limiter`, `QuotaFS`, `Dyld`, `KV` and `KVSqlite`, `CredentialStore` and
   `Credentials`, `Install`, `Boot`, `Trampolines`, `Libffi` and `PythonParticle`,
   `HostBindings` and `HostABI`, all with proofs.
2. The keyring's first use in two processes, if the keychain's own behaviour is
   ever pinned down; the HTTP policy's redirect hops, should they come to keep state.

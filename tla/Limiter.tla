------------------------------- MODULE Limiter -------------------------------
(***************************************************************************)
(* The per-call CPU clock of runtime/limiter.go, the host-call listener of *)
(* internal/hostmeter that pauses it, and the entry points of              *)
(* runtime/particle.go (CallTool, ListTools, GetManifest, Ping) that arm   *)
(* it and decide what the caller sees.                                     *)
(*                                                                         *)
(* One call is followed from Start to Stop.  Time is a count of ticks;     *)
(* runTime is time.Since(runStart).  The call stack alternates wasm and    *)
(* host frames, so its depth says who is on top: odd is wasm, even is a    *)
(* host function.  The watchdog is a goroutine of its own: reading Used()  *)
(* and setting tripped are two critical sections, with anything between.   *)
(***************************************************************************)
EXTENDS Naturals

CONSTANTS
  Budget,     \* WithCPUBudget, in ticks
  Interval,   \* watchdogInterval, in ticks
  MaxTime,    \* bound: ticks of one behaviour
  MaxDepth,   \* bound: frames on the call stack
  Reentrant,  \* host functions call back into wasm (dyld.load, prep-trampoline)
  HardLimit   \* WasmOptions.CloseOnContextDone

ASSUME BudgetAssumption == Budget \in Nat \ {0}
ASSUME IntervalAssumption == Interval \in Nat \ {0}
ASSUME BoundsAssumption ==
  MaxTime \in Nat /\ MaxDepth \in Nat /\ MaxTime % Interval = 0
ASSUME FlagsAssumption == Reentrant \in BOOLEAN /\ HardLimit \in BOOLEAN

VARIABLES
  phase,      \* idle, queued, called, returned, judged, done
  depth,      \* frames on the call stack
  failed,     \* fn.Call returned an error
  outcome,    \* none, ok, err, budget: what the entry point returns
  reported,   \* BudgetExceededError.Used
  running,    \* limiter.running
  runTime,    \* time.Since(limiter.runStart)
  elapsed,    \* limiter.elapsed
  stopped,    \* limiter.stopped; limiter.done is closed
  tripped,    \* limiter.tripped
  ctxDone,    \* the call's context is cancelled
  watchdog,   \* off, polling, over, exited
  sincePoll,  \* ticks since the ticker last fired
  now,        \* ticks so far
  wasmTime,   \* history: ticks with wasm on top of the stack
  queueTime,  \* history: ticks between Start and entering wasm
  tailTime,   \* history: ticks between fn.Call returning and Stop
  reentered   \* history: a host function has called the guest back

clock    == <<running, runTime, elapsed, stopped>>
history  == <<now, wasmTime, queueTime, tailTime, reentered>>
entry    == <<phase, depth, failed, outcome, reported>>
guard    == <<tripped, ctxDone, watchdog, sincePoll>>
vars     == <<entry, clock, guard, history>>

InWasm == depth % 2 = 1
InHost == depth # 0 /\ depth % 2 = 0

\* Used() without stopping the clock.
Used == elapsed + (IF running THEN runTime ELSE 0)

LabelsOK ==
  /\ phase \in {"idle", "queued", "called", "returned", "judged", "done"}
  /\ outcome \in {"none", "ok", "err", "budget"}
  /\ watchdog \in {"off", "polling", "over", "exited"}
FlagsOK ==
  /\ failed \in BOOLEAN /\ running \in BOOLEAN /\ stopped \in BOOLEAN
  /\ tripped \in BOOLEAN /\ ctxDone \in BOOLEAN /\ reentered \in BOOLEAN
CountersOK ==
  /\ depth \in Nat /\ reported \in Nat /\ runTime \in Nat /\ elapsed \in Nat
  /\ sincePoll \in 0..Interval /\ now \in Nat
  /\ wasmTime \in Nat /\ queueTime \in Nat /\ tailTime \in Nat
TypeOK == LabelsOK /\ FlagsOK /\ CountersOK

Init ==
  /\ phase = "idle" /\ outcome = "none" /\ watchdog = "off"
  /\ failed = FALSE /\ running = FALSE /\ stopped = FALSE
  /\ tripped = FALSE /\ ctxDone = FALSE /\ reentered = FALSE
  /\ depth = 0 /\ reported = 0 /\ runTime = 0 /\ elapsed = 0
  /\ sincePoll = 0 /\ now = 0 /\ wasmTime = 0 /\ queueTime = 0
  /\ tailTime = 0

-----------------------------------------------------------------------------
(* The limiter's methods: what each does to the clock.                     *)

Freeze == elapsed' = Used /\ running' = FALSE /\ runTime' = 0

\* Mutants: plausible bugs of the methods below.
PauseForgetsRun == running' = FALSE /\ runTime' = 0 /\ UNCHANGED <<elapsed, stopped>>
PauseKeepsClock == UNCHANGED clock

Pause ==
  /\ IF running THEN Freeze ELSE UNCHANGED <<running, runTime, elapsed>>
  /\ UNCHANGED stopped

Resume ==
  /\ IF ~stopped /\ ~running
       THEN running' = TRUE /\ runTime' = 0
       ELSE UNCHANGED <<running, runTime>>
  /\ UNCHANGED <<elapsed, stopped>>

StopClock ==
  /\ stopped' = TRUE
  /\ IF running THEN Freeze ELSE UNCHANGED <<running, runTime, elapsed>>

-----------------------------------------------------------------------------
(* The entry point.                                                        *)

\* armLimit: Start the clock and the watchdog, attach the meter to the context.
Arm ==
  /\ phase = "idle"
  /\ phase' = "queued"
  /\ running' = TRUE /\ runTime' = 0
  /\ watchdog' = "polling" /\ sincePoll' = 0
  /\ UNCHANGED <<depth, failed, outcome, reported, elapsed, stopped,
                 tripped, ctxDone, history>>

\* The instance is free: fn.Call enters wasm (calls on one instance queue).
Enter ==
  /\ phase = "queued"
  /\ phase' = "called" /\ depth' = 1
  /\ UNCHANGED <<failed, outcome, reported, clock, guard, history>>

\* wasm calls a host function: the listener's BeforeCall pauses the clock.
EnterHost ==
  /\ InWasm /\ depth < MaxDepth
  /\ depth' = depth + 1
  /\ Pause
  /\ UNCHANGED <<phase, failed, outcome, reported, guard, history>>

\* The host function returns: AfterCall resumes the clock.
LeaveHost ==
  /\ InHost
  /\ depth' = depth - 1
  /\ Resume
  /\ UNCHANGED <<phase, failed, outcome, reported, guard, history>>

\* A host function calls an export of the guest (__grow_table, malloc, a
\* library's constructors): no listener event marks this crossing.  With the
\* hard limit wazero refuses a call whose context is done.
EnterGuest ==
  /\ Reentrant /\ InHost /\ depth < MaxDepth
  /\ ~(HardLimit /\ ctxDone)
  /\ depth' = depth + 1
  /\ reentered' = TRUE
  /\ UNCHANGED <<phase, failed, outcome, reported, clock, guard,
                 now, wasmTime, queueTime, tailTime>>

LeaveGuest ==
  /\ InWasm /\ depth > 1
  /\ depth' = depth - 1
  /\ UNCHANGED <<phase, failed, outcome, reported, clock, guard, history>>

\* fn.Call comes back, with a result or with an error.
Return ==
  /\ depth = 1
  /\ phase' = "returned" /\ depth' = 0
  /\ failed' \in BOOLEAN
  /\ UNCHANGED <<outcome, reported, clock, guard, history>>

\* Mutant: the interrupted frame takes its caller's frame with it.
InterruptUnwindsTwo ==
  /\ HardLimit /\ ctxDone /\ InWasm
  /\ depth' = depth - 2
  /\ phase' = "returned" /\ failed' = TRUE
  /\ UNCHANGED <<outcome, reported, clock, guard, history>>

\* CloseOnContextDone: wazero halts the cancelled wasm; frames below see a
\* failed call and unwind through LeaveHost.
Interrupt ==
  /\ HardLimit /\ ctxDone /\ InWasm
  /\ depth' = depth - 1
  /\ IF depth = 1 THEN phase' = "returned" /\ failed' = TRUE
                  ELSE UNCHANGED <<phase, failed>>
  /\ UNCHANGED <<outcome, reported, clock, guard, history>>

\* Mutants: BudgetExceededError without its Tripped() guard.
JudgeBlamesBudgetOnAnyError ==
  /\ phase = "returned"
  /\ phase' = "judged"
  /\ IF failed THEN outcome' = "budget" /\ reported' = Used
               ELSE outcome' = "ok" /\ UNCHANGED reported
  /\ UNCHANGED <<depth, failed, clock, guard, history>>

\* Tripped() is asked before the error and the results are looked at.
Judge ==
  /\ phase = "returned"
  /\ phase' = "judged"
  /\ IF tripped
       THEN outcome' = "budget" /\ reported' = Used
       ELSE outcome' = (IF failed THEN "err" ELSE "ok") /\ UNCHANGED reported
  /\ UNCHANGED <<depth, failed, clock, guard, history>>

\* The deferred stop(): freeze the clock, close done, cancel the context.
Stop ==
  /\ phase = "judged"
  /\ phase' = "done"
  /\ StopClock
  /\ ctxDone' = TRUE
  /\ UNCHANGED <<depth, failed, outcome, reported, tripped, watchdog, sincePoll,
                 history>>

\* The caller's own context is cancelled.
CancelParent ==
  /\ phase # "idle" /\ ~ctxDone
  /\ ctxDone' = TRUE
  /\ UNCHANGED <<entry, clock, tripped, watchdog, sincePoll, history>>

-----------------------------------------------------------------------------
(* The watchdog goroutine.                                                 *)

\* Mutants: the budget compared wrongly, and a watchdog that polls once.
PollTripsEarly ==
  /\ watchdog = "polling" /\ sincePoll = Interval
  /\ sincePoll' = 0
  /\ watchdog' = (IF Used + Interval >= Budget THEN "over" ELSE "polling")
  /\ UNCHANGED <<entry, clock, tripped, ctxDone, history>>
PollOnlyOnce ==
  /\ watchdog = "polling" /\ sincePoll = Interval
  /\ sincePoll' = 0
  /\ watchdog' = (IF Used >= Budget THEN "over" ELSE "exited")
  /\ UNCHANGED <<entry, clock, tripped, ctxDone, history>>
PollStrictly ==
  /\ watchdog = "polling" /\ sincePoll = Interval
  /\ sincePoll' = 0
  /\ watchdog' = (IF Used > Budget + 1 THEN "over" ELSE "polling")
  /\ UNCHANGED <<entry, clock, tripped, ctxDone, history>>

\* The ticker fired and select took its case, which it may do even when done
\* is closed as well.
Poll ==
  /\ watchdog = "polling" /\ sincePoll = Interval
  /\ sincePoll' = 0
  /\ watchdog' = (IF Used >= Budget THEN "over" ELSE "polling")
  /\ UNCHANGED <<entry, clock, tripped, ctxDone, history>>

\* The budget was seen exhausted: mark it and cancel the call's context.
Trip ==
  /\ watchdog = "over"
  /\ watchdog' = "exited"
  /\ tripped' = TRUE /\ ctxDone' = TRUE
  /\ UNCHANGED <<entry, clock, sincePoll, history>>

WatchdogDone ==
  /\ watchdog = "polling" /\ stopped
  /\ watchdog' = "exited"
  /\ UNCHANGED <<entry, clock, tripped, ctxDone, sincePoll, history>>

-----------------------------------------------------------------------------
\* Time passes.  The watchdog is scheduled when its ticker fires and between
\* its two critical sections (the promptness its comment relies on).
Tick ==
  /\ phase # "idle" /\ now < MaxTime
  /\ watchdog = "polling" => sincePoll < Interval
  /\ watchdog # "over"
  /\ now' = now + 1
  /\ runTime' = IF running THEN runTime + 1 ELSE runTime
  /\ sincePoll' = IF watchdog = "polling" THEN sincePoll + 1 ELSE sincePoll
  /\ wasmTime' = IF InWasm THEN wasmTime + 1 ELSE wasmTime
  /\ queueTime' = IF phase = "queued" THEN queueTime + 1 ELSE queueTime
  /\ tailTime' = IF phase \in {"returned", "judged"} THEN tailTime + 1 ELSE tailTime
  /\ UNCHANGED <<entry, running, elapsed, stopped, tripped, ctxDone, watchdog,
                 reentered>>

Next ==
  \/ Arm \/ Enter \/ EnterHost \/ LeaveHost \/ EnterGuest \/ LeaveGuest
  \/ Return \/ Interrupt \/ Judge \/ Stop \/ CancelParent
  \/ Poll \/ Trip \/ WatchdogDone \/ Tick

\* Goroutines that can run do; a cancelled host function returns; wazero's
\* check at every loop back-edge and call eventually halts a cancelled guest.
\* Nothing obliges the guest to return or to call the host.
Fairness ==
  /\ WF_vars(Tick) /\ WF_vars(Poll) /\ WF_vars(Trip)
  /\ WF_vars(Enter) /\ WF_vars(LeaveHost) /\ WF_vars(Judge) /\ WF_vars(Stop)
  /\ SF_vars(Interrupt)

Spec == Init /\ [][Next]_vars
FairSpec == Spec /\ Fairness

-----------------------------------------------------------------------------
\* A tripped limiter really used its budget, whatever the call did between
\* the watchdog's reading and its verdict.
TripMeansOverBudget == tripped \/ watchdog = "over" => Used >= Budget

\* BudgetExceededError.Used: "Always >= Budget by construction".
BudgetErrorIsJustified == outcome = "budget" => reported >= Budget

\* Accumulated time never goes backwards and is final once Stop has run, so
\* that neither Pause, Resume nor Stop loses or double-counts a run.
UsedIsMonotone == [][Used' >= Used /\ (stopped => Used' = Used)]_vars

\* In a call whose host functions do not call the guest back, the clock charges
\* exactly the ticks wasm was on top of the stack, plus those before the call
\* entered wasm and after it left.
MeteringIsExact == ~reentered => Used = wasmTime + queueTime + tailTime

\* "a worst-case ~10ms overshoot past the budget": until the watchdog acts, the
\* overshoot is below one interval.
OvershootIsBounded == watchdog = "polling" => Used < Budget + Interval

\* A guest that has used up its budget is stopped under the hard limit: the
\* call ends, even when the guest never returns and never calls the host.
OverBudgetCallEnds ==
  (HardLimit /\ phase = "called" /\ Used >= Budget) ~> (phase = "done")
=============================================================================

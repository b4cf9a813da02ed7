---------------------------- MODULE LimiterProofs ----------------------------
(***************************************************************************)
(* Theorems about the CPU clock of module Limiter, for every budget, poll  *)
(* interval and bound.                                                     *)
(***************************************************************************)
EXTENDS Limiter, TLAPS

\* Flags stay Booleans.
LEMMA FlagsStep == FlagsOK /\ [Next]_vars => FlagsOK'
<1> SUFFICES ASSUME FlagsOK, [Next]_vars PROVE FlagsOK'
  OBVIOUS
<1> USE DEF FlagsOK, entry, clock, guard, history
<1>1. CASE Arm BY <1>1, Zenon DEF Arm
<1>2. CASE Enter BY <1>2, Zenon DEF Enter
<1>3. CASE EnterHost BY <1>3, Zenon DEF EnterHost, Pause, Freeze
<1>4. CASE LeaveHost BY <1>4, Zenon DEF LeaveHost, Resume
<1>5. CASE EnterGuest BY <1>5, Zenon DEF EnterGuest
<1>6. CASE LeaveGuest BY <1>6, Zenon DEF LeaveGuest
<1>7. CASE Return BY <1>7, Zenon DEF Return
<1>8. CASE Interrupt BY <1>8, Zenon DEF Interrupt
<1>9. CASE Judge BY <1>9, Zenon DEF Judge
<1>10. CASE Stop BY <1>10, Zenon DEF Stop, StopClock, Freeze
<1>11. CASE CancelParent BY <1>11, Zenon DEF CancelParent
<1>12. CASE Poll BY <1>12, Zenon DEF Poll
<1>13. CASE Trip BY <1>13, Zenon DEF Trip
<1>14. CASE WatchdogDone BY <1>14, Zenon DEF WatchdogDone
<1>15. CASE Tick BY <1>15, Zenon DEF Tick
<1>16. CASE UNCHANGED vars BY <1>16, Zenon DEF vars
<1>17. QED
  BY <1>1, <1>2, <1>3, <1>4, <1>5, <1>6, <1>7, <1>8, <1>9, <1>10, <1>11,
     <1>12, <1>13, <1>14, <1>15, <1>16, Zenon DEF Next

\* Phases, outcomes and the watchdog's state keep their types, and so do the
\* counters: the ticker never runs more than one interval ahead of the watchdog.
LEMMA CountersStep ==
  LabelsOK /\ CountersOK /\ [Next]_vars => LabelsOK' /\ CountersOK'
<1> SUFFICES ASSUME LabelsOK, CountersOK, [Next]_vars
             PROVE  LabelsOK' /\ CountersOK'
  OBVIOUS
<1> USE IntervalAssumption
    DEF LabelsOK, CountersOK, entry, clock, guard, history, Used
<1>1. CASE Arm BY <1>1 DEF Arm
<1>2. CASE Enter BY <1>2 DEF Enter
<1>3. CASE EnterHost BY <1>3 DEF EnterHost, Pause, Freeze
<1>4. CASE LeaveHost BY <1>4 DEF LeaveHost, Resume, InHost
<1>5. CASE EnterGuest BY <1>5 DEF EnterGuest
<1>6. CASE LeaveGuest BY <1>6 DEF LeaveGuest
<1>7. CASE Return BY <1>7 DEF Return
<1>8. CASE Interrupt
  <2>1. depth # 0 BY <1>8 DEF Interrupt, InWasm
  <2>2. QED BY <1>8, <2>1 DEF Interrupt
<1>9. CASE Judge BY <1>9 DEF Judge
<1>10. CASE Stop BY <1>10 DEF Stop, StopClock, Freeze
<1>11. CASE CancelParent BY <1>11 DEF CancelParent
<1>12. CASE Poll BY <1>12 DEF Poll
<1>13. CASE Trip BY <1>13 DEF Trip
<1>14. CASE WatchdogDone BY <1>14 DEF WatchdogDone
<1>15. CASE Tick BY <1>15 DEF Tick
<1>16. CASE UNCHANGED vars BY <1>16 DEF vars
<1>17. QED
  BY <1>1, <1>2, <1>3, <1>4, <1>5, <1>6, <1>7, <1>8, <1>9, <1>10, <1>11,
     <1>12, <1>13, <1>14, <1>15, <1>16, Zenon DEF Next

\* The type invariant.
THEOREM TypeCorrect == Spec => []TypeOK
<1>1. Init => LabelsOK BY Zenon DEF Init, LabelsOK
<1>2. Init => FlagsOK BY Zenon DEF Init, FlagsOK
<1>3. Init => CountersOK BY IntervalAssumption DEF Init, CountersOK
<1>4. TypeOK /\ [Next]_vars => TypeOK'
  BY FlagsStep, CountersStep DEF TypeOK
<1>5. QED BY <1>1, <1>2, <1>3, <1>4, PTL DEF Spec, TypeOK

-----------------------------------------------------------------------------
(* The accumulated time.                                                   *)

\* There are frames on the stack exactly while fn.Call runs.
StackInv == depth # 0 <=> phase = "called"

LEMMA StackStep ==
  LabelsOK /\ CountersOK /\ StackInv /\ [Next]_vars => StackInv'
<1> SUFFICES ASSUME LabelsOK, CountersOK, StackInv, [Next]_vars PROVE StackInv'
  OBVIOUS
<1> USE DEF LabelsOK, CountersOK, StackInv, entry, InWasm, InHost
<1>1. CASE Arm BY <1>1 DEF Arm
<1>2. CASE Enter BY <1>2 DEF Enter
<1>3. CASE EnterHost BY <1>3 DEF EnterHost
<1>4. CASE LeaveHost BY <1>4 DEF LeaveHost
<1>5. CASE EnterGuest BY <1>5 DEF EnterGuest
<1>6. CASE LeaveGuest BY <1>6 DEF LeaveGuest
<1>7. CASE Return BY <1>7 DEF Return
<1>8. CASE Interrupt BY <1>8 DEF Interrupt
<1>9. CASE Judge BY <1>9 DEF Judge
<1>10. CASE Stop BY <1>10 DEF Stop
<1>11. CASE CancelParent BY <1>11 DEF CancelParent
<1>12. CASE Poll BY <1>12 DEF Poll
<1>13. CASE Trip BY <1>13 DEF Trip
<1>14. CASE WatchdogDone BY <1>14 DEF WatchdogDone
<1>15. CASE Tick BY <1>15 DEF Tick
<1>16. CASE UNCHANGED vars BY <1>16 DEF vars
<1>17. QED
  BY <1>1, <1>2, <1>3, <1>4, <1>5, <1>6, <1>7, <1>8, <1>9, <1>10, <1>11,
     <1>12, <1>13, <1>14, <1>15, <1>16, Zenon DEF Next

\* The clock is off before Start and after Stop.
ClockInv ==
  /\ phase = "idle" => ~running /\ ~stopped
  /\ stopped => ~running

LEMMA ClockStep == StackInv /\ ClockInv /\ [Next]_vars => ClockInv'
<1> SUFFICES ASSUME StackInv, ClockInv, [Next]_vars PROVE ClockInv'
  OBVIOUS
<1> USE DEF ClockInv, entry, clock, guard
<1>1. CASE Arm BY <1>1 DEF Arm
<1>2. CASE Enter BY <1>2 DEF Enter
<1>3. CASE EnterHost BY <1>3 DEF EnterHost, Pause, Freeze
<1>4. CASE LeaveHost
  <2>1. phase' = phase /\ stopped' = stopped BY <1>4 DEF LeaveHost, Resume
  <2>2. CASE ~stopped /\ ~running
    <3>1. phase # "idle" BY <1>4 DEF LeaveHost, InHost, StackInv
    <3>2. QED BY <2>1, <2>2, <3>1
  <2>3. CASE ~(~stopped /\ ~running)
    <3>1. running' = running BY <1>4, <2>3 DEF LeaveHost, Resume
    <3>2. QED BY <2>1, <3>1
  <2>4. QED BY <2>2, <2>3
<1>5. CASE EnterGuest BY <1>5 DEF EnterGuest
<1>6. CASE LeaveGuest BY <1>6 DEF LeaveGuest
<1>7. CASE Return BY <1>7 DEF Return
<1>8. CASE Interrupt BY <1>8 DEF Interrupt
<1>9. CASE Judge BY <1>9 DEF Judge
<1>10. CASE Stop BY <1>10 DEF Stop, StopClock, Freeze
<1>11. CASE CancelParent BY <1>11 DEF CancelParent
<1>12. CASE Poll BY <1>12 DEF Poll
<1>13. CASE Trip BY <1>13 DEF Trip
<1>14. CASE WatchdogDone BY <1>14 DEF WatchdogDone
<1>15. CASE Tick BY <1>15 DEF Tick
<1>16. CASE UNCHANGED vars BY <1>16 DEF vars
<1>17. QED
  BY <1>1, <1>2, <1>3, <1>4, <1>5, <1>6, <1>7, <1>8, <1>9, <1>10, <1>11,
     <1>12, <1>13, <1>14, <1>15, <1>16, Zenon DEF Next

\* No step takes accumulated time back, and none adds to it after Stop.
LEMMA UsedStep ==
  ASSUME CountersOK, ClockInv, [Next]_vars
  PROVE  /\ Used \in Nat /\ Used' \in Nat /\ Used' >= Used
         /\ stopped => Used' = Used
<1> USE DEF CountersOK, ClockInv, Used, entry, clock, guard
<1>1. CASE Arm BY <1>1 DEF Arm
<1>2. CASE Enter BY <1>2 DEF Enter
<1>3. CASE EnterHost BY <1>3 DEF EnterHost, Pause, Freeze
<1>4. CASE LeaveHost BY <1>4 DEF LeaveHost, Resume
<1>5. CASE EnterGuest BY <1>5 DEF EnterGuest
<1>6. CASE LeaveGuest BY <1>6 DEF LeaveGuest
<1>7. CASE Return BY <1>7 DEF Return
<1>8. CASE Interrupt BY <1>8 DEF Interrupt
<1>9. CASE Judge BY <1>9 DEF Judge
<1>10. CASE Stop BY <1>10 DEF Stop, StopClock, Freeze
<1>11. CASE CancelParent BY <1>11 DEF CancelParent
<1>12. CASE Poll BY <1>12 DEF Poll
<1>13. CASE Trip BY <1>13 DEF Trip
<1>14. CASE WatchdogDone BY <1>14 DEF WatchdogDone
<1>15. CASE Tick BY <1>15 DEF Tick
<1>16. CASE UNCHANGED vars BY <1>16 DEF vars
<1>17. QED
  BY <1>1, <1>2, <1>3, <1>4, <1>5, <1>6, <1>7, <1>8, <1>9, <1>10, <1>11,
     <1>12, <1>13, <1>14, <1>15, <1>16, Zenon DEF Next

\* What the invariants above give together.
LEMMA ClockAlways == Spec => [](TypeOK /\ StackInv /\ ClockInv)
<1>1. Init => StackInv /\ ClockInv
  BY DEF Init, StackInv, ClockInv
<1>2. TypeOK /\ StackInv /\ ClockInv /\ [Next]_vars => StackInv' /\ ClockInv'
  BY StackStep, ClockStep DEF TypeOK
<1>3. QED BY <1>1, <1>2, TypeCorrect, PTL DEF Spec

\* Used is monotone, and final once Stop has run.
THEOREM UsedNeverLost == Spec => UsedIsMonotone
<1>1. TypeOK /\ ClockInv /\ [Next]_vars
        => [Used' >= Used /\ (stopped => Used' = Used)]_vars
  BY UsedStep DEF TypeOK
<1>2. QED BY <1>1, ClockAlways, PTL DEF Spec, UsedIsMonotone

-----------------------------------------------------------------------------
(* What a budget error says.                                               *)

\* The watchdog acts on a reading that stays true, and so does the error.
BudgetInv == TripMeansOverBudget /\ BudgetErrorIsJustified

LEMMA BudgetStep ==
  ASSUME LabelsOK, CountersOK, ClockInv, BudgetInv, [Next]_vars
  PROVE  BudgetInv'
<1>1. Used \in Nat /\ Used' \in Nat /\ Used' >= Used
  BY UsedStep
<1>2. TripMeansOverBudget'
  <2>1. CASE (tripped \/ watchdog = "over") /\ Used >= Budget
    BY <2>1, <1>1, BudgetAssumption DEF TripMeansOverBudget
  <2>2. CASE ~tripped /\ watchdog # "over"
    <3>1. CASE Poll
      BY <2>2, <3>1 DEF Poll, entry, clock, Used, TripMeansOverBudget
    <3>2. CASE ~Poll
      <4>1. ~Trip BY <2>2 DEF Trip
      <4>2. tripped' = tripped
        BY <4>1, Zenon DEF Next, vars, Arm, Enter, EnterHost, LeaveHost,
           EnterGuest, LeaveGuest, Return, Interrupt, Judge, Stop, CancelParent,
           Poll, WatchdogDone, Tick, entry, clock, guard, history
      <4>3. watchdog' \in {watchdog, "polling", "exited"}
        BY <4>1, <3>2, Zenon DEF Next, vars, Arm, Enter, EnterHost, LeaveHost,
           EnterGuest, LeaveGuest, Return, Interrupt, Judge, Stop, CancelParent,
           WatchdogDone, Tick, entry, clock, guard, history
      <4>4. watchdog' # "over" BY <2>2, <4>3
      <4>5. QED BY <2>2, <4>2, <4>4 DEF TripMeansOverBudget
    <3>3. QED BY <3>1, <3>2
  <2>3. QED BY <2>1, <2>2 DEF BudgetInv, TripMeansOverBudget
<1>3. BudgetErrorIsJustified'
  <2>1. CASE Judge
    <3>1. CASE tripped
      <4>1. reported' = Used /\ Used >= Budget
        BY <2>1, <3>1 DEF Judge, BudgetInv, TripMeansOverBudget
      <4>2. QED BY <4>1 DEF BudgetErrorIsJustified
    <3>2. CASE ~tripped
      BY <2>1, <3>2 DEF Judge, BudgetErrorIsJustified
    <3>3. QED BY <3>1, <3>2
  <2>2. CASE ~Judge
    <3>1. outcome' = outcome /\ reported' = reported
      BY <2>2, Zenon DEF Next, vars, Arm, Enter, EnterHost, LeaveHost,
         EnterGuest, LeaveGuest, Return, Interrupt, Stop, CancelParent, Poll,
         Trip, WatchdogDone, Tick, entry, clock, guard, history
    <3>2. QED BY <3>1 DEF BudgetInv, BudgetErrorIsJustified
  <2>3. QED BY <2>1, <2>2
<1>4. QED BY <1>2, <1>3 DEF BudgetInv

LEMMA BudgetAlways == Spec => []BudgetInv
<1>1. Init => BudgetInv
  BY DEF Init, BudgetInv, TripMeansOverBudget, BudgetErrorIsJustified
<1>2. TypeOK /\ ClockInv /\ BudgetInv /\ [Next]_vars => BudgetInv'
  BY BudgetStep DEF TypeOK
<1>3. QED BY <1>1, <1>2, ClockAlways, PTL DEF Spec

\* A tripped limiter used up its budget, for any interleaving of the watchdog
\* with the call.
THEOREM TripIsSound == Spec => []TripMeansOverBudget
BY BudgetAlways, PTL DEF BudgetInv

\* BudgetExceededError.Used is never below BudgetExceededError.Budget.
THEOREM BudgetErrorIsSound == Spec => []BudgetErrorIsJustified
BY BudgetAlways, PTL DEF BudgetInv

-----------------------------------------------------------------------------
(* What is metered, while no host function calls back into the guest.      *)

\* Without re-entrancy there is at most one host frame, and the clock runs
\* exactly while it is absent.
FlatInv ==
  ~reentered =>
    /\ depth <= 2
    /\ running <=> phase \notin {"idle", "done"} /\ depth # 2
    /\ stopped <=> phase = "done"

LEMMA FlatStep ==
  ASSUME LabelsOK, CountersOK, StackInv, FlatInv, [Next]_vars
  PROVE  FlatInv'
<1> USE DEF LabelsOK, CountersOK, StackInv, FlatInv, entry, clock, guard, history,
            InWasm, InHost
<1>1. CASE Arm BY <1>1 DEF Arm
<1>2. CASE Enter BY <1>2 DEF Enter
<1>3. CASE EnterHost BY <1>3 DEF EnterHost, Pause, Freeze
<1>4. CASE LeaveHost BY <1>4 DEF LeaveHost, Resume
<1>5. CASE EnterGuest BY <1>5 DEF EnterGuest
<1>6. CASE LeaveGuest BY <1>6 DEF LeaveGuest
<1>7. CASE Return BY <1>7 DEF Return
<1>8. CASE Interrupt BY <1>8 DEF Interrupt
<1>9. CASE Judge BY <1>9 DEF Judge
<1>10. CASE Stop BY <1>10 DEF Stop, StopClock, Freeze
<1>11. CASE CancelParent BY <1>11 DEF CancelParent
<1>12. CASE Poll BY <1>12 DEF Poll
<1>13. CASE Trip BY <1>13 DEF Trip
<1>14. CASE WatchdogDone BY <1>14 DEF WatchdogDone
<1>15. CASE Tick BY <1>15 DEF Tick
<1>16. CASE UNCHANGED vars BY <1>16 DEF vars
<1>17. QED
  BY <1>1, <1>2, <1>3, <1>4, <1>5, <1>6, <1>7, <1>8, <1>9, <1>10, <1>11,
     <1>12, <1>13, <1>14, <1>15, <1>16, Zenon DEF Next

LEMMA MeteringStep ==
  ASSUME LabelsOK, CountersOK, StackInv, ClockInv, FlatInv,
         MeteringIsExact, [Next]_vars
  PROVE  MeteringIsExact'
<1> USE DEF CountersOK, MeteringIsExact, Used, entry, clock, guard, history
<1>1. CASE Arm BY <1>1 DEF Arm, ClockInv
<1>2. CASE Enter BY <1>2 DEF Enter
<1>3. CASE EnterHost BY <1>3 DEF EnterHost, Pause, Freeze
<1>4. CASE LeaveHost BY <1>4 DEF LeaveHost, Resume
<1>5. CASE EnterGuest BY <1>5 DEF EnterGuest
<1>6. CASE LeaveGuest BY <1>6 DEF LeaveGuest
<1>7. CASE Return BY <1>7 DEF Return
<1>8. CASE Interrupt BY <1>8 DEF Interrupt
<1>9. CASE Judge BY <1>9 DEF Judge
<1>10. CASE Stop BY <1>10 DEF Stop, StopClock, Freeze
<1>11. CASE CancelParent BY <1>11 DEF CancelParent
<1>12. CASE Poll BY <1>12 DEF Poll
<1>13. CASE Trip BY <1>13 DEF Trip
<1>14. CASE WatchdogDone BY <1>14 DEF WatchdogDone
<1>15. CASE Tick BY <1>15 DEF Tick, LabelsOK, StackInv, FlatInv, InWasm
<1>16. CASE UNCHANGED vars BY <1>16 DEF vars
<1>17. QED
  BY <1>1, <1>2, <1>3, <1>4, <1>5, <1>6, <1>7, <1>8, <1>9, <1>10, <1>11,
     <1>12, <1>13, <1>14, <1>15, <1>16, Zenon DEF Next

\* The clock charges every tick of wasm and none of a host function, in every
\* call whose host functions do not call back into the guest.
THEOREM MeteringIsSound == Spec => []MeteringIsExact
<1>1. Init => FlatInv /\ MeteringIsExact
  BY DEF Init, FlatInv, MeteringIsExact, Used
<1>2. TypeOK /\ StackInv /\ ClockInv /\ FlatInv /\ MeteringIsExact /\ [Next]_vars
        => FlatInv' /\ MeteringIsExact'
  BY FlatStep, MeteringStep DEF TypeOK
<1>3. QED BY <1>1, <1>2, ClockAlways, PTL DEF Spec

-----------------------------------------------------------------------------
(* How far a call goes past its budget.                                    *)

\* While the watchdog polls, the clock has gained at most what the ticker has
\* counted since a reading below the budget.
PollInv ==
  /\ phase = "idle" => elapsed = 0
  /\ watchdog = "polling" => Used < Budget + sincePoll

LEMMA PollStep ==
  ASSUME LabelsOK, CountersOK, StackInv, ClockInv, PollInv, [Next]_vars
  PROVE  PollInv'
<1> USE BudgetAssumption
    DEF CountersOK, PollInv, Used, entry, clock, guard, history, InWasm, InHost
<1>1. CASE Arm BY <1>1 DEF Arm
<1>2. CASE Enter BY <1>2 DEF Enter
<1>3. CASE EnterHost BY <1>3 DEF EnterHost, Pause, Freeze, StackInv
<1>4. CASE LeaveHost BY <1>4 DEF LeaveHost, Resume
<1>5. CASE EnterGuest BY <1>5 DEF EnterGuest
<1>6. CASE LeaveGuest BY <1>6 DEF LeaveGuest
<1>7. CASE Return BY <1>7 DEF Return
<1>8. CASE Interrupt BY <1>8 DEF Interrupt
<1>9. CASE Judge BY <1>9 DEF Judge
<1>10. CASE Stop BY <1>10 DEF Stop, StopClock, Freeze
<1>11. CASE CancelParent BY <1>11 DEF CancelParent
<1>12. CASE Poll BY <1>12 DEF Poll
<1>13. CASE Trip BY <1>13 DEF Trip
<1>14. CASE WatchdogDone BY <1>14 DEF WatchdogDone
<1>15. CASE Tick BY <1>15 DEF Tick
<1>16. CASE UNCHANGED vars BY <1>16 DEF vars
<1>17. QED
  BY <1>1, <1>2, <1>3, <1>4, <1>5, <1>6, <1>7, <1>8, <1>9, <1>10, <1>11,
     <1>12, <1>13, <1>14, <1>15, <1>16, Zenon DEF Next

\* Until the watchdog has seen it, a call is less than one polling interval past
\* its budget, whatever it does: pauses and host functions that call the guest
\* back only slow the clock down.
THEOREM OvershootIsSmall == Spec => []OvershootIsBounded
<1>1. Init => PollInv
  BY DEF Init, PollInv
<1>2. TypeOK /\ StackInv /\ ClockInv /\ PollInv /\ [Next]_vars => PollInv'
  BY PollStep DEF TypeOK
<1>3. TypeOK /\ PollInv => OvershootIsBounded
  BY BudgetAssumption, IntervalAssumption
     DEF TypeOK, CountersOK, PollInv, OvershootIsBounded, Used
<1>4. QED BY <1>1, <1>2, <1>3, ClockAlways, PTL DEF Spec
=============================================================================

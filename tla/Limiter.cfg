\* A Python particle (dyld and libffi call back into the guest) on an engine
\* built with CloseOnContextDone.
SPECIFICATION FairSpec
CONSTANTS
  Budget = 3
  Interval = 2
  MaxTime = 8
  MaxDepth = 4
  Reentrant = TRUE
  HardLimit = TRUE
INVARIANTS TypeOK MeteringIsExact OvershootIsBounded TripMeansOverBudget BudgetErrorIsJustified
PROPERTIES UsedIsMonotone OverBudgetCallEnds
\* The call ends, and time is bounded by MaxTime.
CHECK_DEADLOCK FALSE

\* One process stops the timer while the callback runs.
CONSTANTS
  u1 = u1
  u2 = u2
  Users <- OneUser
  GPIOCNT = 1
  Periods <- OnePeriod
  InitialPeriod = 100
  Patterns <- OnePattern
SPECIFICATION Spec
\* The model ends when the module is gone.
CHECK_DEADLOCK FALSE
INVARIANT
  StopStops

\* Two processes, two LEDs, two periods, under FairSpec; no symmetry, since
\* one property is temporal.
CONSTANTS
  u1 = u1
  u2 = u2
  Users <- TwoUsers
  GPIOCNT = 2
  Periods <- TwoPeriods
  InitialPeriod = 100
  Patterns <- OnePattern
SPECIFICATION FairSpec
\* The model ends when the module is gone.
CHECK_DEADLOCK FALSE
INVARIANTS
  ReferenceSafe
  FlagHasOwner
  NoBlinkBeforeStart
  StopHolds
  BlinkInverts
PROPERTIES
  PeriodAdopted

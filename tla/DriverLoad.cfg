\* Three LEDs and three keys; up to two foreign failures.
CONSTANTS
  GPIOCNT = 3
  MaxFailures = 2
SPECIFICATION Spec
INVARIANTS
  LoadSafe
  CleanReload

\* Two positions, two of the segment lines, two processes, two writes.
CONSTANTS
  p1 = p1
  p2 = p2
  none = none
  junk = junk
  SELCNT = 2
  DATACNT = 2
  Processes <- TwoProcesses
  Numbers <- TypedNumbers
  MaxLoads = 2
  MaxWrites = 2
  MaxBusy = 1
SPECIFICATION FndSpec
CHECK_DEADLOCK FALSE
INVARIANTS
  AtMostOneLit
  UnloadedIsDark
PROPERTIES
  NumberShown

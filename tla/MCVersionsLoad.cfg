\* Two LEDs, two keys; one process, one file; two loads, one foreign failure.
CONSTANTS
  t1 = t1
  t2 = t2
  f1 = f1
  f2 = f2
  admin = admin
  softirq = softirq
  kernel = kernel
  none = none
  GPIOLEDCNT = 2
  GPIOKEYCNT = 2
  Versions <- AllVersions
  Threads <- OneThread
  Files <- OneFile
  NonBlocking <- OneFile
  MaxLoads = 2
  MaxFailures = 1
  MaxPresses = 1
  MaxRefs = 3
SPECIFICATION Spec
CHECK_DEADLOCK FALSE
INVARIANTS
  LiveComplete
  NoWayIntoFreedModule
  UnloadGivesBack

\* One LED, two keys; two threads, two files, one of them non-blocking; one foreign
\* failure.
CONSTANTS
  t1 = t1
  t2 = t2
  f1 = f1
  f2 = f2
  admin = admin
  softirq = softirq
  kernel = kernel
  none = none
  GPIOLEDCNT = 1
  GPIOKEYCNT = 2
  Versions <- FileVersions
  Threads <- TwoThreads
  Files <- TwoFiles
  NonBlocking <- OneFile
  MaxLoads = 1
  MaxFailures = 1
  MaxPresses = 2
  MaxRefs = 3
SPECIFICATION Spec
SYMMETRY ThreadSymmetry
CHECK_DEADLOCK FALSE
INVARIANTS
  TouchesHeldLines
  OpenFileHoldsModule
  ClearsWhatItCopied
  SleeperHasNoKey
  ClosedIsFree

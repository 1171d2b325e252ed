\* Two threads on one open file, the first of which may get a signal, two keys,
\* two rising edges, under FairSpec; no symmetry, since some properties are
\* temporal.
CONSTANTS
  t1 = t1
  t2 = t2
  Tasks <- TwoTasks
  GPIOCNT = 2
  FileModes <- BothModes
  Interruptible <- OneTask
  MaxPresses = 2
SPECIFICATION FairSpec
\* Once the presses are used up every thread may sleep for ever.
CHECK_DEADLOCK FALSE
INVARIANTS
  NoLostWakeup
  ExactlyOnce
PROPERTIES
  MailboxSpec
  ReaderServed
  PollerServed
  SignalEndsRead

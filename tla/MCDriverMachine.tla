--------------------------- MODULE MCDriverMachine ---------------------------
EXTENDS DriverMachine, TLC

CONSTANTS t1, t2, f1, f2

OneThread == {t1}
TwoThreads == {t1, t2}
OneFile == {f1}
TwoFiles == {f1, f2}

AllVersions == DOMAIN Driver

\* The versions with file operations.  Left out: P369Ksh and P432, whose statements
\* P369 and P399 have, those other modules have in detail, and P184, whose count
\* of references only grows.
FileVersions ==
  {"Mysyscall", "Calldev", "Backup", "P184b0620", "P184Ksh", "CalldevLedkey", "P238",
   "P270", "P369", "P399", "P399Ksh", "P527"}

ThreadSymmetry == Permutations(Threads)
=============================================================================

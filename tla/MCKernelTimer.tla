--------------------------- MODULE MCKernelTimer ---------------------------
(* Instances of KernelTimer for TLC.                                       *)
EXTENDS KernelTimer

CONSTANTS u1, u2

TwoUsers == {u1, u2}
OneUser  == {u1}
TwoPeriods == {1, 100}
OnePeriod  == {100}
OnePattern == {{1}}
=============================================================================

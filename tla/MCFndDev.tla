------------------------------ MODULE MCFndDev ------------------------------
EXTENDS FndDev

CONSTANTS p1, p2

TwoProcesses == {p1, p2}

\* Too many digits, and too few with a sign.
TypedNumbers == {13579, -6}
=============================================================================

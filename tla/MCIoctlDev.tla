----------------------------- MODULE MCIoctlDev -----------------------------
(* Instances of IoctlDev for TLC.                                          *)
EXTENDS IoctlDev, TLC

CONSTANTS u1, u2, u3

ThreeUsers == {u1, u2, u3}
UserSymmetry == Permutations(Users)
=============================================================================

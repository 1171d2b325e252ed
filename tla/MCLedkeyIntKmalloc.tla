------------------------- MODULE MCLedkeyIntKmalloc -------------------------
(* Instances of LedkeyIntKmalloc for TLC.                                  *)
EXTENDS LedkeyIntKmalloc, TLC

CONSTANTS u1, u2, u3

ThreeUsers == {u1, u2, u3}
UserSymmetry == Permutations(Users)
=============================================================================

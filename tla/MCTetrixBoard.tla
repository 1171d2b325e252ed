--------------------------- MODULE MCTetrixBoard ---------------------------
(* Instances of TetrixBoard for TLC.  On a board three columns wide the      *)
(* shapes that reach left of their origin are the ones that fit in.          *)
EXTENDS TetrixBoard

LeftShapes == {1, 3, 6}
OddGarbage == {-3, 0, 9}
AllKeys    == 1..8
=============================================================================

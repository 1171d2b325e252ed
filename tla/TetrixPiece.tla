---------------------------- MODULE TetrixPiece ----------------------------
(***************************************************************************)
(* Pieces of the game in Pi_Bsp/Qt/tetrixPi: tetrixpiece.cpp.  A piece is  *)
(* its shape and the coordinates of its four squares around the origin, x  *)
(* to the right and y downwards.                                           *)
(***************************************************************************)
EXTENDS Integers

NoShape     == 0
SquareShape == 5
AllShapes   == 1..7       \* what setRandomShape() draws from

coordsTable ==
  [s \in 0..7 |->
     CASE s = 0 -> << << 0,  0>>, << 0,  0>>, << 0,  0>>, << 0,  0>> >>
       [] s = 1 -> << << 0, -1>>, << 0,  0>>, <<-1,  0>>, <<-1,  1>> >>
       [] s = 2 -> << << 0, -1>>, << 0,  0>>, << 1,  0>>, << 1,  1>> >>
       [] s = 3 -> << << 0, -1>>, << 0,  0>>, << 0,  1>>, << 0,  2>> >>
       [] s = 4 -> << <<-1,  0>>, << 0,  0>>, << 1,  0>>, << 0,  1>> >>
       [] s = 5 -> << << 0,  0>>, << 1,  0>>, << 0,  1>>, << 1,  1>> >>
       [] s = 6 -> << <<-1, -1>>, << 0, -1>>, << 0,  0>>, << 0,  1>> >>
       [] s = 7 -> << << 1, -1>>, << 0, -1>>, << 0,  0>>, << 0,  1>> >>]

Pieces == [shape : {NoShape} \cup AllShapes, coords : [1..4 -> Int \X Int]]

setShape(s) == [shape |-> s, coords |-> coordsTable[s]]

PX(p, i) == p.coords[i][1]
PY(p, i) == p.coords[i][2]

minY(p) == CHOOSE y \in {PY(p, i) : i \in 1..4} : \A i \in 1..4 : y <= PY(p, i)

\* Both rotations leave the square as it is.
rotatedLeft(p) ==
  IF p.shape = SquareShape THEN p
  ELSE [p EXCEPT !.coords = [i \in 1..4 |-> <<PY(p, i), -PX(p, i)>>]]

rotatedRight(p) ==
  IF p.shape = SquareShape THEN p
  ELSE [p EXCEPT !.coords = [i \in 1..4 |-> <<-PY(p, i), PX(p, i)>>]]
=============================================================================

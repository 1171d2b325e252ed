------------------------- MODULE ApplicationProofs -------------------------
(***************************************************************************)
(* Proofs about the programs that run in user space.                       *)
(*                                                                         *)
(* TetrixBoard, for a board of any size, any set of shapes and any values  *)
(* of the members the constructor leaves out: the falling piece always     *)
(* fits and no line is ever left full, with the key driver and without;    *)
(* without it, a game in progress has its timer and its piece, stands      *)
(* still when paused and loses or gains no square.  The loop of            *)
(* removeFullLines() is a recursive function of the line: that it has the  *)
(* value its definition says, and what it leaves of the board, is shown by *)
(* induction, with a set of numbers in place of a predicate.               *)
(*                                                                         *)
(* UserPrograms, for any number of keys and any lines typed: the LEDs show *)
(* the newest key, and a program ends exactly with the input that ends it. *)
(***************************************************************************)
EXTENDS TetrixBoard, UserPrograms,
        FiniteSetTheorems, FunctionTheorems, WellFoundedInduction, TLAPS

-----------------------------------------------------------------------------
(* Pieces.                                                                 *)

LEMMA SetShape ==
  ASSUME NEW s \in {NoShape} \cup AllShapes
  PROVE  setShape(s) \in Pieces /\ setShape(s).shape = s
<1>1. s \in 0..7
  BY DEF NoShape, AllShapes
<1>2. coordsTable[s] \in [1..4 -> Int \X Int]
  BY <1>1 DEF coordsTable
<1>3. QED
  BY <1>2 DEF setShape, Pieces

LEMMA NoPieceShape == NoPiece \in Pieces /\ NoPiece.shape = NoShape
BY SetShape DEF NoPiece

\* A turned piece is a piece of the same shape.
LEMMA Rotation ==
  ASSUME NEW p \in Pieces
  PROVE  /\ rotatedLeft(p) \in Pieces /\ rotatedLeft(p).shape = p.shape
         /\ rotatedRight(p) \in Pieces /\ rotatedRight(p).shape = p.shape
BY DEF Pieces, rotatedLeft, rotatedRight, PX, PY

-----------------------------------------------------------------------------
(* The inductive invariant.                                                *)

\* The pieces are pieces, the next one is a real one, and between the removal
\* of lines and the next timer event there is no falling piece.
PieceInv ==
  /\ curPiece \in Pieces
  /\ nextPiece \in Pieces
  /\ nextPiece.shape # NoShape
  /\ isWaitingAfterLine => curPiece.shape = NoShape
  /\ PieceFits

LEMMA InitPieceInv == Init => PieceInv
<1>1. ASSUME NEW s \in Shapes PROVE setShape(s) \in Pieces /\ setShape(s).shape # NoShape
  BY ShapeAssumption, SetShape DEF AllShapes, NoShape
<1>2. QED
  BY <1>1, NoPieceShape DEF Init, PieceInv, PieceFits

\* A move leaves a piece of the same shape where it fits.
LEMMA MoveStep ==
  ASSUME PieceInv, NEW p \in Pieces, p.shape = curPiece.shape, NEW x, NEW y,
         tryMove(p, x, y)
  PROVE  PieceInv'
BY DEF tryMove, PieceInv, PieceFits, flags

\* A new piece is left where it fits or not at all.
LEMMA NewPieceStep ==
  ASSUME PieceInv, NEW started, newPiece(board', started),
         ~isWaitingAfterLine'
  PROVE  PieceInv'
<1>1. PICK s \in Shapes : nextPiece' = setShape(s)
  BY DEF newPiece
<1>2. nextPiece' \in Pieces /\ nextPiece'.shape # NoShape
  BY <1>1, ShapeAssumption, SetShape DEF AllShapes, NoShape
<1>3. CASE NextFits(board')
  BY <1>2, <1>3 DEF newPiece, NextFits, PieceInv, PieceFits
<1>4. CASE ~NextFits(board')
  BY <1>2, <1>4, NoPieceShape DEF newPiece, PieceInv, PieceFits
<1>5. QED
  BY <1>3, <1>4

LEMMA DropStep ==
  ASSUME PieceInv, NEW y, pieceDropped(y)
  PROVE  PieceInv'
<1> DEFINE stored == Stored(curPiece, curX, y)
           full   == NumFullLines(stored)
<1>1. CASE full > 0
  BY <1>1, NoPieceShape DEF pieceDropped, PieceInv, PieceFits
<1>2. CASE full = 0 /\ isWaitingAfterLine
  BY <1>2 DEF pieceDropped, PieceInv, PieceFits
<1>3. CASE full = 0 /\ ~isWaitingAfterLine
  BY <1>3, NewPieceStep DEF pieceDropped
<1>4. QED
  BY <1>1, <1>2, <1>3 DEF pieceDropped

LEMMA LineDownStep ==
  ASSUME PieceInv, oneLineDown
  PROVE  PieceInv'
BY MoveStep, DropStep DEF oneLineDown, PieceInv

LEMMA StartStep ==
  ASSUME PieceInv, start
  PROVE  PieceInv'
<1>1. newPiece(board', TRUE) /\ ~isWaitingAfterLine'
  BY DEF start
<1>2. QED
  BY <1>1, NewPieceStep

LEMMA PauseStep ==
  ASSUME PieceInv, pause
  PROVE  PieceInv'
BY DEF pause, PieceInv, PieceFits, piece

LEMMA KeyStep ==
  ASSUME PieceInv, keyPressEvent
  PROVE  PieceInv'
<1>1. curPiece \in Pieces
  BY DEF PieceInv
<1>2. CASE tryMove(curPiece, curX - 1, curY) \/ tryMove(curPiece, curX + 1, curY)
  BY <1>1, <1>2, MoveStep
<1>3. CASE \/ tryMove(rotatedRight(curPiece), curX, curY)
           \/ tryMove(rotatedLeft(curPiece), curX, curY)
  BY <1>1, <1>3, Rotation, MoveStep
<1>4. CASE dropDown \/ oneLineDown
  BY <1>4, DropStep, LineDownStep DEF dropDown
<1>5. QED
  BY <1>2, <1>3, <1>4 DEF keyPressEvent

LEMMA TimerStep ==
  ASSUME PieceInv, timerEvent
  PROVE  PieceInv'
<1>1. CASE isWaitingAfterLine
  <2>1. newPiece(board', isStarted) /\ ~isWaitingAfterLine'
    BY <1>1 DEF timerEvent
  <2>2. QED
    BY <2>1, NewPieceStep
<1>2. CASE ~isWaitingAfterLine
  BY <1>2, LineDownStep DEF timerEvent
<1>3. QED
  BY <1>1, <1>2

LEMMA GpioStep ==
  ASSUME PieceInv, NEW keyNo \in 1..8, readGpioData(keyNo)
  PROVE  PieceInv'
<1>1. curPiece \in Pieces
  BY DEF PieceInv
<1>2. CASE \/ tryMove(rotatedLeft(curPiece), curX, curY)
           \/ tryMove(rotatedRight(curPiece), curX, curY)
  BY <1>1, <1>2, Rotation, MoveStep
<1>3. CASE tryMove(curPiece, curX - 1, curY) \/ tryMove(curPiece, curX + 1, curY)
  BY <1>1, <1>3, MoveStep
<1>4. CASE oneLineDown \/ dropDown
  BY <1>4, DropStep, LineDownStep DEF dropDown
<1>5. CASE start \/ pause
  BY <1>5, StartStep, PauseStep
<1>6. QED
  BY <1>2, <1>3, <1>4, <1>5 DEF readGpioData

LEMMA NextPieceInv == PieceInv /\ [Next]_vars => PieceInv'
<1>1. SUFFICES ASSUME PieceInv, [Next]_vars PROVE PieceInv'
  OBVIOUS
<1>2. CASE UNCHANGED vars
  BY <1>1, <1>2 DEF vars, piece, flags, PieceInv, PieceFits
<1>3. QED
  BY <1>1, <1>2, StartStep, PauseStep, KeyStep, TimerStep, GpioStep DEF Next

-----------------------------------------------------------------------------
(* The falling piece fits, whatever keys arrive when.                       *)

THEOREM PieceInvariance == Spec => []PieceInv
BY InitPieceInv, NextPieceInv, PTL DEF Spec

\* On a board of any size the falling piece is inside the frame and overlaps no
\* square, also when the keys of the driver arrive before the first start, in
\* a pause, between two pieces or after the end.
THEOREM PieceAlwaysFits == Spec => []PieceFits
<1>1. PieceInv => PieceFits
  BY DEF PieceInv
<1>2. QED
  BY <1>1, PieceInvariance, PTL

-----------------------------------------------------------------------------
(* Without the key driver a game in progress has what it needs.             *)

\* The flags and the timer have Boolean values.
Switches ==
  /\ isStarted \in BOOLEAN /\ isPaused \in BOOLEAN
  /\ isWaitingAfterLine \in BOOLEAN /\ timer \in BOOLEAN

GameInv == PieceInv /\ Switches /\ GameInProgress

LEMMA GameDropStep ==
  ASSUME GameInv, NEW y, pieceDropped(y), ~isPaused,
         isStarted => timer /\ ~isWaitingAfterLine
  PROVE  Switches' /\ GameInProgress'
<1> DEFINE stored == Stored(curPiece, curX, y)
           full   == NumFullLines(stored)
           running == timer \/ numPiecesDropped' % LevelPieces = 0
<1>1. CASE full > 0
  <2>1. /\ timer' = TRUE /\ isWaitingAfterLine' = TRUE
        /\ isStarted' = isStarted /\ isPaused' = isPaused
        /\ curPiece' = NoPiece
    BY <1>1 DEF pieceDropped
  <2>2. QED
    BY <2>1, NoPieceShape DEF GameInv, Switches, GameInProgress
<1>2. CASE full = 0 /\ isWaitingAfterLine
  BY <1>2 DEF pieceDropped, GameInv, Switches, GameInProgress
<1>3. CASE full = 0 /\ ~isWaitingAfterLine
  <2>1. newPiece(board', isStarted)
    BY <1>3 DEF pieceDropped
  <2>2. /\ timer' = (running /\ NextFits(board'))
        /\ isWaitingAfterLine' = isWaitingAfterLine /\ isPaused' = isPaused
    BY <1>3 DEF pieceDropped
  <2>3. Switches'
    <3>1. timer' \in BOOLEAN /\ isStarted' \in BOOLEAN
      BY <2>1, <2>2 DEF newPiece
    <3>2. QED
      BY <2>2, <3>1 DEF GameInv, Switches
  <2>4. CASE NextFits(board')
    <3>1. curPiece' = nextPiece /\ isStarted' = isStarted
      BY <2>1, <2>4 DEF newPiece, GameInv, Switches
    <3>2. isStarted => timer'
      BY <2>2, <2>4
    <3>3. QED
      BY <1>3, <2>2, <2>3, <3>1, <3>2 DEF GameInv, PieceInv, Switches, GameInProgress
  <2>5. CASE ~NextFits(board')
    <3>1. ~isStarted' /\ ~isPaused'
      BY <2>1, <2>2, <2>5 DEF newPiece
    <3>2. QED
      BY <2>3, <3>1 DEF GameInProgress
  <2>6. QED
    BY <2>4, <2>5
<1>4. QED
  BY <1>1, <1>2, <1>3 DEF pieceDropped

LEMMA GameMoveStep ==
  ASSUME GameInv, NEW p \in Pieces, p.shape = curPiece.shape, NEW x, NEW y,
         tryMove(p, x, y)
  PROVE  Switches' /\ GameInProgress'
BY DEF tryMove, flags, GameInv, Switches, GameInProgress

LEMMA NextGameInv ==
  ASSUME GpioKeys = {}, GameInv, [Next]_vars
  PROVE  GameInv'
<1> USE DEF GameInv
<1>1. PieceInv'
  BY NextPieceInv
<1>2. ASSUME start PROVE Switches' /\ GameInProgress'
  BY <1>2 DEF start, newPiece, PieceInv, Switches, GameInProgress
<1>3. ASSUME pause PROVE Switches' /\ GameInProgress'
  BY <1>3 DEF pause, piece, Switches, GameInProgress
<1>4. ASSUME keyPressEvent PROVE Switches' /\ GameInProgress'
  <2>1. isStarted /\ ~isPaused /\ timer /\ ~isWaitingAfterLine
    BY <1>4 DEF keyPressEvent, Switches, GameInProgress
  <2>2. curPiece \in Pieces
    BY DEF PieceInv
  <2>3. CASE dropDown \/ oneLineDown
    BY <2>1, <2>2, <2>3, GameDropStep, GameMoveStep DEF dropDown, oneLineDown
  <2>4. CASE ~(dropDown \/ oneLineDown)
    BY <1>4, <2>2, <2>4, Rotation, GameMoveStep DEF keyPressEvent
  <2>5. QED
    BY <2>3, <2>4
<1>5. ASSUME timerEvent PROVE Switches' /\ GameInProgress'
  <2>1. timer /\ ~isPaused
    BY <1>5 DEF timerEvent, Switches, GameInProgress
  <2>2. CASE isWaitingAfterLine
    <3>1. /\ newPiece(board, isStarted)
          /\ isWaitingAfterLine' = FALSE /\ timer' = TRUE /\ isPaused' = isPaused
      BY <1>5, <2>2 DEF timerEvent
    <3>2. /\ isStarted' \in BOOLEAN
          /\ isStarted' => curPiece' = nextPiece
      BY <3>1 DEF newPiece
    <3>3. QED
      BY <2>1, <3>1, <3>2 DEF PieceInv, Switches, GameInProgress
  <2>3. CASE ~isWaitingAfterLine
    BY <1>5, <2>1, <2>3, GameDropStep, GameMoveStep
       DEF timerEvent, oneLineDown, PieceInv
  <2>4. QED
    BY <2>2, <2>3
<1>6. ASSUME UNCHANGED vars PROVE Switches' /\ GameInProgress'
  BY <1>6 DEF vars, flags, piece, Switches, GameInProgress
<1>7. start \/ pause \/ keyPressEvent \/ timerEvent \/ UNCHANGED vars
  BY DEF Next, readGpioData
<1>8. QED
  BY <1>1, <1>2, <1>3, <1>4, <1>5, <1>6, <1>7

\* Without the key driver: a game in progress has its timer unless it is paused
\* and its piece unless a line has just been removed, and a game that is over
\* can be started again.
THEOREM GameGoesOn ==
  ASSUME GpioKeys = {}
  PROVE  Spec => []GameInProgress
<1>1. Init => GameInv
  BY InitPieceInv DEF Init, GameInv, Switches, GameInProgress
<1>2. GameInv /\ [Next]_vars => GameInv'
  BY NextGameInv
<1>3. GameInv => GameInProgress
  BY DEF GameInv
<1>4. QED
  BY <1>1, <1>2, <1>3, PTL DEF Spec

\* Without the key driver: the board of a paused game does not change.
THEOREM PauseIsStill ==
  ASSUME GpioKeys = {}
  PROVE  Spec => PausedStandsStill
<1>1. GameInProgress /\ [Next]_vars =>
        (isPaused /\ isPaused' => UNCHANGED <<piece, nextPiece, board, counts>>)
  BY DEF GameInProgress, Next, start, pause, keyPressEvent, timerEvent,
         readGpioData, vars, piece, counts
<1>2. QED
  BY <1>1, GameGoesOn, PTL DEF Spec, PausedStandsStill

-----------------------------------------------------------------------------
(* Natural numbers.                                                        *)

\* Every set of natural numbers that is not empty has a least element.
LEMMA NatMin ==
  ASSUME NEW T, T \subseteq Nat, T # {}
  PROVE  \E x \in T : \A y \in T : x <= y
<1>1. PICK n \in T : TRUE
  OBVIOUS
<1> DEFINE S     == 0..n
           Below == {0..m : m \in {k \in T : k <= n}}
           R     == StrictSubsetOrdering(S)
<1>2. IsFiniteSet(S)
  BY <1>1, FS_Interval
<1>3. \A m \in T : m <= n => 0..m \in SUBSET S
  BY <1>1
<1>4. Below \subseteq FiniteSubsetsOf(S)
  BY <1>2, <1>3, FS_FiniteSubsetsOfFinite
<1>5. Below # {}
  BY <1>1
<1>6. PICK I \in Below : \A J \in Below : ~(<<J, I>> \in R)
  <2> HIDE DEF Below, R, S
  <2>1. IsWellFoundedOn(R, FiniteSubsetsOf(S))
    BY FS_StrictSubsetOrderingWellFounded DEF R
  <2>2. QED
    BY <2>1, <1>4, <1>5, WFMin
<1>7. PICK x \in T : x <= n /\ I = 0..x
  OBVIOUS
<1>8. ASSUME NEW y \in T, y < x PROVE FALSE
  <2>1. y <= n /\ 0..y \in Below
    BY <1>1, <1>7, <1>8
  <2>2. x \in 0..x /\ x \notin 0..y /\ 0..y \subseteq 0..x
    BY <1>7, <1>8
  <2>3. <<0..y, 0..x>> \in R
    BY <1>3, <1>7, <2>1, <2>2 DEF StrictSubsetOrdering
  <2>4. QED
    BY <1>6, <1>7, <2>1, <2>3
<1>9. QED
  BY <1>8

\* Induction over the natural numbers, for a set instead of a predicate.
LEMMA NatInd ==
  ASSUME NEW G, 0 \in G, \A n \in Nat : n \in G => n + 1 \in G
  PROVE  Nat \subseteq G
<1>1. SUFFICES ASSUME Nat \ G # {} PROVE FALSE
  OBVIOUS
<1>2. PICK n \in Nat \ G : \A m \in Nat \ G : n <= m
  BY <1>1, NatMin
<1>3. n # 0 /\ n - 1 \in Nat
  BY <1>2
<1>4. n - 1 \in G
  BY <1>2, <1>3
<1>5. QED
  BY <1>3, <1>4

-----------------------------------------------------------------------------
(* removeFullLines().                                                      *)

\* The recursive function AfterLine(b) has the value its definition gives.
AfterStep(f, b, i) ==
  IF i = BoardHeight THEN b
  ELSE IF IsFull(f[i + 1], i) THEN TakeOut(f[i + 1], i) ELSE f[i + 1]

LEMMA AfterLineDef ==
  ASSUME NEW b
  PROVE  AfterLine(b) = [i \in 0..BoardHeight |-> AfterStep(AfterLine(b), b, i)]
<1> DEFINE Upto(f, n) ==
             \A i \in 0..BoardHeight : i >= BoardHeight - n => f[i] = AfterStep(f, b, i)
           G == {n \in Nat : \E f : Upto(f, n)}
<1> USE BoardAssumption
<1>1. 0 \in G
  <2>1. Upto([i \in 0..BoardHeight |-> b], 0)
    BY DEF AfterStep
  <2>2. QED
    BY <2>1
<1>2. ASSUME NEW n \in Nat, n \in G PROVE n + 1 \in G
  <2>1. PICK f : Upto(f, n)
    BY <1>2
  <2> DEFINE g == [i \in 0..BoardHeight |->
                     IF i = BoardHeight - n - 1 THEN AfterStep(f, b, i) ELSE f[i]]
  <2>2. ASSUME NEW i \in 0..BoardHeight, i >= BoardHeight - (n + 1)
        PROVE  g[i] = AfterStep(g, b, i)
    <3>1. i # BoardHeight => g[i + 1] = f[i + 1]
      BY <2>2
    <3>2. AfterStep(g, b, i) = AfterStep(f, b, i)
      BY <3>1 DEF AfterStep
    <3>3. CASE i = BoardHeight - n - 1
      BY <3>2, <3>3
    <3>4. CASE i # BoardHeight - n - 1
      BY <2>1, <2>2, <3>2, <3>4
    <3>5. QED
      BY <3>3, <3>4
  <2>3. Upto(g, n + 1)
    BY <2>2
  <2>4. \E e : Upto(e, n + 1)
    <3> HIDE DEF g
    <3> QED BY <2>3
  <2>5. QED
    BY <2>4
<1>3. BoardHeight \in G
  <2> HIDE DEF G
  <2> QED BY <1>1, <1>2, NatInd
<1>4. PICK f : Upto(f, BoardHeight)
  BY <1>3
<1> DEFINE h == [i \in 0..BoardHeight |-> f[i]]
<1>5. ASSUME NEW i \in 0..BoardHeight PROVE h[i] = AfterStep(h, b, i)
  <2>1. f[i] = AfterStep(f, b, i)
    BY <1>4
  <2>2. i # BoardHeight => h[i + 1] = f[i + 1]
    OBVIOUS
  <2>3. QED
    BY <2>1, <2>2 DEF AfterStep
<1>6. h = [i \in 0..BoardHeight |-> AfterStep(h, b, i)]
  BY <1>5
<1>7. \E after : after = [i \in 0..BoardHeight |-> AfterStep(after, b, i)]
  <2> HIDE DEF h
  <2> QED BY <1>6
<1>8. QED
  BY <1>7 DEF AfterLine, AfterStep

\* One line.
LEMMA AfterLineStep ==
  ASSUME NEW b
  PROVE  /\ AfterLine(b)[BoardHeight] = b
         /\ \A i \in Rows :
              AfterLine(b)[i] = IF IsFull(AfterLine(b)[i + 1], i)
                                THEN TakeOut(AfterLine(b)[i + 1], i)
                                ELSE AfterLine(b)[i + 1]
<1>1. \A i \in 0..BoardHeight : AfterLine(b)[i] = AfterStep(AfterLine(b), b, i)
  <2> DEFINE f == AfterLine(b)
  <2>1. f = [i \in 0..BoardHeight |-> AfterStep(f, b, i)]
    BY AfterLineDef
  <2> HIDE DEF f
  <2>2. \A i \in 0..BoardHeight : f[i] = AfterStep(f, b, i)
    BY <2>1
  <2> USE DEF f
  <2>3. QED
    BY <2>2
<1>2. QED
  BY <1>1, BoardAssumption DEF AfterStep, Rows

\* The board the loop works on: below line i it is the board it began with,
\* from line i on no line is full, and the squares of the full lines are gone.
Visited(b, i) ==
  LET a == AfterLine(b)[i] IN
  /\ a \subseteq Columns \X Rows
  /\ \A c \in Columns \X Rows : c[2] < i => (c \in a <=> c \in b)
  /\ \A j \in Rows : j >= i => ~IsFull(a, j)
  /\ Cardinality(a) =
       Cardinality(b)
       - BoardWidth * Cardinality({j \in Rows : j >= i /\ IsFull(b, j)})

LEMMA BoardFinite ==
  ASSUME NEW b \in SUBSET (Columns \X Rows)
  PROVE  IsFiniteSet(b) /\ Cardinality(b) \in Nat
<1>1. IsFiniteSet(Columns) /\ IsFiniteSet(Rows)
  BY BoardAssumption, FS_Interval DEF Columns, Rows
<1>2. IsFiniteSet(Columns \X Rows)
  BY <1>1, FS_Product
<1>3. QED
  BY <1>2, FS_Subset, FS_CardinalityType

\* A full line has a square in each column.
LEMMA FullLine ==
  ASSUME NEW b \in SUBSET (Columns \X Rows), NEW i \in Rows, IsFull(b, i)
  PROVE  Cardinality({c \in b : c[2] = i}) = BoardWidth
<1> DEFINE row == {c \in b : c[2] = i}
           f == [n \in 1..BoardWidth |-> <<n - 1, i>>]
<1>1. f \in [1..BoardWidth -> row]
  BY BoardAssumption DEF IsFull, Columns
<1>2. \A m, n \in 1..BoardWidth : f[m] = f[n] => m = n
  BY BoardAssumption
<1>3. \A c \in row : \E n \in 1..BoardWidth : f[n] = c
  <2> TAKE c \in row
  <2>1. c = <<c[1], i>> /\ c[1] \in 0..(BoardWidth - 1)
    BY DEF Columns
  <2>2. c[1] + 1 \in 1..BoardWidth /\ f[c[1] + 1] = c
    BY <2>1, BoardAssumption
  <2>3. QED
    BY <2>2
<1>4. ExistsBijection(1..BoardWidth, row)
  <2> HIDE DEF f, row
  <2>1. f \in Bijection(1..BoardWidth, row)
    BY <1>1, <1>2, <1>3, Fun_IsBij
  <2> QED BY <2>1 DEF ExistsBijection
<1>5. QED
  BY <1>4, FS_CountingElements, BoardAssumption

\* Taking a full row out takes its squares and no others.
LEMMA TakeOutSize ==
  ASSUME NEW b \in SUBSET (Columns \X Rows), NEW i \in Rows, IsFull(b, i)
  PROVE  Cardinality(TakeOut(b, i)) = Cardinality(b) - BoardWidth
<1> DEFINE row == {c \in b : c[2] = i}
           rest == b \ row
           f == [c \in rest |-> IF c[2] < i THEN c ELSE <<c[1], c[2] - 1>>]
<1>1. f \in [rest -> TakeOut(b, i)]
  BY DEF TakeOut, Rows
<1>2. \A c, d \in rest : f[c] = f[d] => c = d
  <2> TAKE c, d \in rest
  <2>1. /\ c = <<c[1], c[2]>> /\ c[2] \in Int /\ c[2] # i
        /\ d = <<d[1], d[2]>> /\ d[2] \in Int /\ d[2] # i /\ i \in Int
    BY DEF Rows
  <2>2. f[c] = (IF c[2] < i THEN <<c[1], c[2]>> ELSE <<c[1], c[2] - 1>>)
    BY <2>1
  <2>3. f[d] = (IF d[2] < i THEN <<d[1], d[2]>> ELSE <<d[1], d[2] - 1>>)
    BY <2>1
  <2> HIDE DEF f
  <2>4. QED
    BY <2>1, <2>2, <2>3
<1>3. \A e \in TakeOut(b, i) : \E c \in rest : f[c] = e
  <2> TAKE e \in TakeOut(b, i)
  <2>1. CASE e \in b /\ e[2] < i
    <3>1. e \in rest /\ f[e] = e
      BY <2>1 DEF Rows
    <3>2. QED
      BY <3>1
  <2>2. CASE \E c \in b : c[2] > i /\ e = <<c[1], c[2] - 1>>
    <3>1. PICK c \in b : c[2] > i /\ e = <<c[1], c[2] - 1>>
      BY <2>2
    <3>2. c \in rest /\ f[c] = e
      BY <3>1 DEF Rows
    <3>3. QED
      BY <3>2
  <2>3. QED
    BY <2>1, <2>2 DEF TakeOut
<1>4. IsFiniteSet(b) /\ IsFiniteSet(rest) /\ Cardinality(rest) = Cardinality(b) - BoardWidth
  <2>1. b \cap row = row
    OBVIOUS
  <2> HIDE DEF row
  <2>2. IsFiniteSet(b)
    BY BoardFinite
  <2>3. Cardinality(row) = BoardWidth
    BY FullLine DEF row
  <2>4. QED
    BY <2>1, <2>2, <2>3, FS_Difference
<1>5. ExistsBijection(rest, TakeOut(b, i))
  <2> HIDE DEF f, rest
  <2>1. f \in Bijection(rest, TakeOut(b, i))
    BY <1>1, <1>2, <1>3, Fun_IsBij
  <2>2. QED
    BY <2>1 DEF ExistsBijection
<1>6. QED
  <2> HIDE DEF rest
  <2> QED BY <1>4, <1>5, FS_Bijection

LEMMA VisitedAll ==
  ASSUME NEW b \in SUBSET (Columns \X Rows)
  PROVE  \A i \in 0..BoardHeight : Visited(b, i)
<1> DEFINE after == AfterLine(b)
           G == {n \in Nat : n <= BoardHeight => Visited(b, BoardHeight - n)}
<1>1. 0 \in G
  <2>1. after[BoardHeight] = b
    BY AfterLineStep
  <2>2. \A j \in Rows : ~(j >= BoardHeight)
    BY BoardAssumption DEF Rows
  <2>3. {j \in Rows : j >= BoardHeight /\ IsFull(b, j)} = {}
    BY <2>2
  <2>4. Cardinality(b) \in Nat
    BY BoardFinite
  <2>5. \A c \in Columns \X Rows : c[2] < BoardHeight => (c \in after[BoardHeight] <=> c \in b)
    BY <2>1, Zenon
  <2>6. Visited(b, BoardHeight)
    <3> HIDE DEF after
    <3>1. Cardinality(b) = Cardinality(b) - BoardWidth * Cardinality({j \in Rows : j >= BoardHeight /\ IsFull(b, j)})
      BY <2>3, <2>4, FS_EmptySet, BoardAssumption
    <3>2. QED
      BY <2>1, <2>2, <2>5, <3>1 DEF Visited, after
  <2>7. QED
    BY <2>6, BoardAssumption
<1>2. ASSUME NEW i \in Rows, Visited(b, i + 1) PROVE Visited(b, i)
  <2> DEFINE a == after[i + 1]
             FullFrom(k) == {j \in Rows : j >= k /\ IsFull(b, j)}
  <2>1. /\ a \in SUBSET (Columns \X Rows)
        /\ \A c \in Columns \X Rows : c[2] < i + 1 => (c \in a <=> c \in b)
        /\ \A j \in Rows : j >= i + 1 => ~IsFull(a, j)
        /\ Cardinality(a) = Cardinality(b) - BoardWidth * Cardinality(FullFrom(i + 1))
    BY <1>2 DEF Visited
  <2>2. after[i] = IF IsFull(a, i) THEN TakeOut(a, i) ELSE a
    BY AfterLineStep
  <2> HIDE DEF after
  <2>3. IsFull(a, i) <=> IsFull(b, i)
    <3>1. \A j \in Columns : <<j, i>> \in Columns \X Rows /\ <<j, i>>[2] < i + 1
      BY DEF Rows
    <3>2. QED
      BY <2>1, <3>1 DEF IsFull
  <2>4. IsFiniteSet(FullFrom(i + 1)) /\ Cardinality(FullFrom(i + 1)) \in Nat
    <3>1. IsFiniteSet(Rows)
      BY FS_Interval, BoardAssumption DEF Rows
    <3>2. QED
      BY <3>1, FS_Subset, FS_CardinalityType
  <2>5. CASE ~IsFull(b, i)
    <3>1. FullFrom(i) = FullFrom(i + 1)
      BY <2>5 DEF Rows
    <3>2. after[i] = a
      BY <2>2, <2>3, <2>5
    <3>3. \A j \in Rows : j >= i => ~IsFull(a, j)
      BY <2>1, <2>3, <2>5 DEF Rows
    <3>4. \A c \in Columns \X Rows : c[2] < i => (c \in a <=> c \in b)
      BY <2>1 DEF Rows
    <3> HIDE DEF FullFrom
    <3>5. QED
      BY <2>1, <3>1, <3>2, <3>3, <3>4 DEF Visited, FullFrom, after
  <2>6. CASE IsFull(b, i)
    <3>1. after[i] = TakeOut(a, i)
      BY <2>2, <2>3, <2>6
    <3>2. FullFrom(i) = FullFrom(i + 1) \cup {i} /\ i \notin FullFrom(i + 1)
      BY <2>6 DEF Rows
    <3>3. Cardinality(FullFrom(i)) = Cardinality(FullFrom(i + 1)) + 1
      <4> HIDE DEF FullFrom
      <4> QED BY <2>4, <3>2, FS_AddElement
    <3>4. Cardinality(after[i]) = Cardinality(b) - BoardWidth * Cardinality(FullFrom(i))
      <4> HIDE DEF FullFrom
      <4>1. Cardinality(after[i]) = Cardinality(a) - BoardWidth
        BY <2>1, <2>3, <2>6, <3>1, TakeOutSize
      <4>2. Cardinality(b) \in Nat /\ BoardWidth \in Nat
        BY BoardFinite, BoardAssumption
      <4>3. BoardWidth * (Cardinality(FullFrom(i + 1)) + 1)
              = BoardWidth * Cardinality(FullFrom(i + 1)) + BoardWidth
        BY <2>4, <4>2
      <4>4. BoardWidth * Cardinality(FullFrom(i + 1)) \in Nat
        BY <2>4, <4>2
      <4>5. QED
        BY <2>1, <3>3, <4>1, <4>2, <4>3, <4>4
    <3>5. after[i] \subseteq Columns \X Rows
      <4>1. ASSUME NEW c \in a, c[2] > i PROVE <<c[1], c[2] - 1>> \in Columns \X Rows
        <5>1. c[1] \in Columns /\ c[2] \in 0..(BoardHeight - 1) /\ i \in 0..(BoardHeight - 1)
          BY <2>1, <4>1 DEF Rows
        <5>2. c[2] - 1 \in 0..(BoardHeight - 1)
          BY <5>1, <4>1, BoardAssumption
        <5>3. QED
          BY <5>1, <5>2 DEF Rows
      <4>2. QED
        BY <2>1, <3>1, <4>1 DEF TakeOut
    <3>6. \A c \in Columns \X Rows : c[2] < i => (c \in after[i] <=> c \in b)
      BY <2>1, <3>1 DEF TakeOut, Rows
    <3>7. ASSUME NEW j \in Rows, j >= i PROVE ~IsFull(after[i], j)
      <4>1. ASSUME NEW x \in Columns, <<x, j>> \in after[i] PROVE <<x, j + 1>> \in a
        <5>1. PICK d \in a : d[2] > i /\ <<x, j>> = <<d[1], d[2] - 1>>
          BY <3>1, <3>7, <4>1 DEF TakeOut, Rows
        <5>2. d = <<x, j + 1>>
          BY <2>1, <5>1 DEF Rows
        <5>3. QED
          BY <5>1, <5>2
      <4>2. SUFFICES ASSUME IsFull(after[i], j) PROVE FALSE
        OBVIOUS
      <4>3. IsFull(a, j + 1)
        BY <4>1, <4>2 DEF IsFull
      <4>4. j + 1 \in Rows
        <5>1. 0 \in Columns
          BY BoardAssumption DEF Columns
        <5>2. <<0, j + 1>> \in a
          BY <4>3, <5>1 DEF IsFull
        <5>3. QED
          BY <2>1, <5>2
      <4>5. QED
        BY <2>1, <3>7, <4>3, <4>4 DEF Rows
    <3> HIDE DEF FullFrom
    <3>8. QED
      BY <3>4, <3>5, <3>6, <3>7 DEF Visited, FullFrom, after
  <2>7. QED
    BY <2>5, <2>6
<1>3. \A n \in Nat : n \in G => n + 1 \in G
  <2> SUFFICES ASSUME NEW n \in Nat, Visited(b, BoardHeight - n), n + 1 <= BoardHeight
               PROVE  Visited(b, BoardHeight - (n + 1))
    BY BoardAssumption
  <2>1. BoardHeight - (n + 1) \in Rows /\ BoardHeight - (n + 1) + 1 = BoardHeight - n
    BY BoardAssumption DEF Rows
  <2>2. QED
    BY <1>2, <2>1
<1>4. Nat \subseteq G
  <2> HIDE DEF G
  <2> QED BY <1>1, <1>3, NatInd
<1>5. QED
  <2> TAKE i \in 0..BoardHeight
  <2>1. BoardHeight - i \in G /\ BoardHeight - (BoardHeight - i) = i /\ BoardHeight - i <= BoardHeight
    BY <1>4, BoardAssumption
  <2>2. QED
    BY <2>1

\* removeFullLines() leaves a board inside the frame without a full line, which
\* has the squares of the board before but those of the lines it counted.
LEMMA CompactedBoard ==
  ASSUME NEW b \in SUBSET (Columns \X Rows)
  PROVE  /\ Compacted(b) \in SUBSET (Columns \X Rows)
         /\ \A i \in Rows : ~IsFull(Compacted(b), i)
         /\ Cardinality(Compacted(b)) = Cardinality(b) - BoardWidth * NumFullLines(b)
<1>1. Visited(b, 0)
  BY VisitedAll, BoardAssumption
<1>2. {j \in Rows : j >= 0 /\ IsFull(b, j)} = {j \in Rows : IsFull(b, j)}
  BY DEF Rows
<1>3. \A j \in Rows : j >= 0
  BY DEF Rows
<1>4. QED
  BY <1>1, <1>2, <1>3 DEF Visited, Compacted, NumFullLines

-----------------------------------------------------------------------------
(* The squares a piece stores.                                             *)

\* The loop of dropDown() ends, and where it ends the piece fits if it fitted
\* where it began.
LEMMA Landing ==
  ASSUME curY \in Int
  PROVE  /\ LandsAt \in Int
         /\ Fits(board, curPiece, curX, curY) => Fits(board, curPiece, curX, LandsAt)
<1> DEFINE Way(y)  == \A z \in y..(curY - 1) : Fits(board, curPiece, curX, z)
           Ends(y) == Way(y) /\ (y <= 0 \/ ~Fits(board, curPiece, curX, y - 1))
<1>1. \E y \in {curY} \cup 0..curY : Ends(y)
  <2>1. CASE curY <= 0
    BY <2>1
  <2>2. CASE curY > 0
    <3> DEFINE T == {y \in 0..curY : Way(y)}
    <3>1. curY \in T
      BY <2>2
    <3>2. T \subseteq Nat
      OBVIOUS
    <3>3. PICK m \in T : \A y \in T : m <= y
      <4> HIDE DEF T
      <4> QED BY <3>1, <3>2, NatMin
    <3>4. ASSUME m > 0, Fits(board, curPiece, curX, m - 1) PROVE FALSE
      <4>1. m - 1 \in 0..curY /\ ~(m <= m - 1)
        BY <3>4
      <4>2. \A z \in (m - 1)..(curY - 1) : z = m - 1 \/ z \in m..(curY - 1)
        BY <4>1
      <4>3. Way(m - 1)
        BY <3>3, <3>4, <4>2
      <4>4. QED
        BY <3>3, <4>1, <4>3
    <3>5. QED
      BY <3>3, <3>4
  <2>3. QED
    BY <2>1, <2>2
<1>2. LandsAt \in {curY} \cup 0..curY /\ Ends(LandsAt)
  <2>1. LandsAt = CHOOSE y \in {curY} \cup 0..curY : Ends(y)
    BY DEF LandsAt
  <2> HIDE DEF Ends
  <2>2. QED
    BY <1>1, <2>1
<1>3. CASE LandsAt = curY
  BY <1>3
<1>4. CASE LandsAt # curY
  <2>1. LandsAt \in LandsAt..(curY - 1)
    BY <1>2, <1>4
  <2>2. QED
    BY <1>2, <2>1
<1>5. QED
  BY <1>3, <1>4

\* The four squares of a piece lie apart from one another.
Apart(p) == \A i, j \in 1..4 : i # j => p.coords[i] # p.coords[j]

LEMMA ShapeApart ==
  ASSUME NEW s \in AllShapes
  PROVE  Apart(setShape(s))
<1>1. s \in {1, 2, 3, 4, 5, 6, 7}
  BY DEF AllShapes
<1>2. ASSUME NEW i \in {1, 2, 3, 4}, NEW j \in {1, 2, 3, 4}, i # j
      PROVE  coordsTable[s][i] # coordsTable[s][j]
  <2>1. CASE s = 1
    BY <1>2, <2>1 DEF coordsTable
  <2>2. CASE s = 2
    BY <1>2, <2>2 DEF coordsTable
  <2>3. CASE s = 3
    BY <1>2, <2>3 DEF coordsTable
  <2>4. CASE s = 4
    BY <1>2, <2>4 DEF coordsTable
  <2>5. CASE s = 5
    BY <1>2, <2>5 DEF coordsTable
  <2>6. CASE s = 6
    BY <1>2, <2>6 DEF coordsTable
  <2>7. CASE s = 7
    BY <1>2, <2>7 DEF coordsTable
  <2>8. QED
    BY <1>1, <2>1, <2>2, <2>3, <2>4, <2>5, <2>6, <2>7
<1>3. 1..4 = {1, 2, 3, 4}
  OBVIOUS
<1>4. QED
  BY <1>2, <1>3 DEF Apart, setShape

LEMMA RotationApart ==
  ASSUME NEW p \in Pieces, Apart(p)
  PROVE  Apart(rotatedLeft(p)) /\ Apart(rotatedRight(p))
<1>1. \A i \in 1..4 : p.coords[i] \in Int \X Int
  BY DEF Pieces
<1>2. \A i, j \in 1..4 : i # j => PX(p, i) # PX(p, j) \/ PY(p, i) # PY(p, j)
  BY <1>1 DEF Apart, PX, PY
<1>3. \A i \in 1..4 : PX(p, i) \in Int /\ PY(p, i) \in Int
  BY <1>1 DEF PX, PY
<1>4. CASE p.shape = SquareShape
  BY <1>4 DEF rotatedLeft, rotatedRight
<1>5. CASE p.shape # SquareShape
  <2>1. \A i \in 1..4 : rotatedLeft(p).coords[i] = <<PY(p, i), -PX(p, i)>>
    BY <1>5 DEF rotatedLeft, Pieces
  <2>2. \A i \in 1..4 : rotatedRight(p).coords[i] = <<-PY(p, i), PX(p, i)>>
    BY <1>5 DEF rotatedRight, Pieces
  <2>3. QED
    BY <1>2, <1>3, <2>1, <2>2 DEF Apart
<1>6. QED
  BY <1>4, <1>5

\* A piece covers four squares.
LEMMA FourCells ==
  ASSUME NEW p \in Pieces, Apart(p), NEW x \in Int, NEW y \in Int
  PROVE  IsFiniteSet(Cells(p, x, y)) /\ Cardinality(Cells(p, x, y)) = 4
<1> DEFINE f == [i \in 1..4 |-> <<x + PX(p, i), y - PY(p, i)>>]
<1>1. \A i \in 1..4 : p.coords[i] = <<PX(p, i), PY(p, i)>> /\ PX(p, i) \in Int /\ PY(p, i) \in Int
  BY DEF Pieces, PX, PY
<1>2. f \in [1..4 -> Cells(p, x, y)]
  BY DEF Cells
<1>3. \A i, j \in 1..4 : f[i] = f[j] => i = j
  <2> TAKE i, j \in 1..4
  <2>1. f[i] = f[j] => PX(p, i) = PX(p, j) /\ PY(p, i) = PY(p, j)
    BY <1>1
  <2>2. QED
    BY <1>1, <2>1 DEF Apart
<1>4. \A c \in Cells(p, x, y) : \E i \in 1..4 : f[i] = c
  BY DEF Cells
<1>5. ExistsBijection(1..4, Cells(p, x, y))
  <2> HIDE DEF f
  <2>1. f \in Bijection(1..4, Cells(p, x, y))
    BY <1>2, <1>3, <1>4, Fun_IsBij
  <2>2. QED
    BY <2>1 DEF ExistsBijection
<1>6. IsFiniteSet(1..4) /\ Cardinality(1..4) = 4
  <2>1. \A n \in Nat : IsFiniteSet(1..n) /\ (n > 0 => Cardinality(1..n) = n)
    BY FS_Interval
  <2>2. 4 \in Nat /\ 4 > 0
    OBVIOUS
  <2>3. QED
    BY <2>1, <2>2, Zenon
<1>7. QED
  BY <1>5, <1>6, FS_Bijection

\* Where the origin of a new piece is.
LEMMA StartInt ==
  ASSUME NEW p \in Pieces
  PROVE  StartX \in Int /\ StartY(p) \in Int
<1>1. \A i \in 1..4 : PY(p, i) \in Int
  BY DEF Pieces, PY
<1>2. \E i \in 1..4 : \A j \in 1..4 : PY(p, i) <= PY(p, j)
  <2>1. PICK i \in 1..2 : PY(p, i) <= PY(p, 1) /\ PY(p, i) <= PY(p, 2)
    BY <1>1
  <2>2. PICK k \in 3..4 : PY(p, k) <= PY(p, 3) /\ PY(p, k) <= PY(p, 4)
    BY <1>1
  <2>3. PICK m \in {i, k} : PY(p, m) <= PY(p, i) /\ PY(p, m) <= PY(p, k)
    BY <1>1
  <2>4. /\ PY(p, m) <= PY(p, 1) /\ PY(p, m) <= PY(p, 2)
        /\ PY(p, m) <= PY(p, 3) /\ PY(p, m) <= PY(p, 4)
    BY <1>1, <2>1, <2>2, <2>3
  <2>5. m \in 1..4
    OBVIOUS
  <2>6. QED
    BY <2>4, <2>5
<1>3. minY(p) \in {PY(p, i) : i \in 1..4}
  BY <1>2 DEF minY
<1>4. QED
  BY <1>1, <1>3, BoardAssumption DEF StartX, StartY

-----------------------------------------------------------------------------
(* No line is left full.                                                   *)

Frame == SUBSET (Columns \X Rows)

BoardInv ==
  /\ PieceInv
  /\ curX \in Int /\ curY \in Int
  /\ board \in Frame
  /\ NoFullLine

\* What a drop stores is inside the frame when the piece fits where it lands.
LEMMA StoredInFrame ==
  ASSUME BoardInv, NEW y, curPiece.shape # NoShape => Fits(board, curPiece, curX, y)
  PROVE  Stored(curPiece, curX, y) \in Frame
BY DEF BoardInv, Stored, Fits, Frame

LEMMA NewPieceInt ==
  ASSUME PieceInv, NEW b, NEW started, newPiece(b, started)
  PROVE  curX' \in Int /\ curY' \in Int
BY StartInt DEF newPiece, PieceInv

LEMMA BoardDropStep ==
  ASSUME BoardInv, NEW y \in Int, pieceDropped(y),
         curPiece.shape # NoShape => Fits(board, curPiece, curX, y)
  PROVE  BoardInv'
<1> DEFINE stored == Stored(curPiece, curX, y)
<1>1. PieceInv'
  BY DropStep DEF BoardInv
<1>2. board' \in Frame /\ \A i \in Rows : ~IsFull(board', i)
  <2>1. stored \in Frame
    BY StoredInFrame
  <2>2. board' = Compacted(stored)
    BY DEF pieceDropped
  <2>3. QED
    BY <2>1, <2>2, CompactedBoard DEF Frame
<1>3. curX' \in Int /\ curY' \in Int
  BY NewPieceInt DEF pieceDropped, BoardInv
<1>4. QED
  BY <1>1, <1>2, <1>3 DEF BoardInv, NoFullLine

LEMMA BoardMoveStep ==
  ASSUME BoardInv, NEW p \in Pieces, p.shape = curPiece.shape,
         NEW x \in Int, NEW y \in Int, tryMove(p, x, y)
  PROVE  BoardInv'
<1>1. PieceInv'
  BY MoveStep DEF BoardInv
<1>2. QED
  BY <1>1 DEF BoardInv, tryMove, NoFullLine

LEMMA BoardSidewaysStep ==
  ASSUME BoardInv,
         \/ tryMove(curPiece, curX - 1, curY) \/ tryMove(curPiece, curX + 1, curY)
         \/ tryMove(rotatedLeft(curPiece), curX, curY)
         \/ tryMove(rotatedRight(curPiece), curX, curY)
  PROVE  BoardInv'
<1>1. curPiece \in Pieces /\ curX \in Int /\ curY \in Int
  BY DEF BoardInv, PieceInv
<1>2. QED
  BY <1>1, BoardMoveStep, Rotation

LEMMA BoardLineDownStep ==
  ASSUME BoardInv, oneLineDown
  PROVE  BoardInv'
<1>1. curPiece \in Pieces /\ curX \in Int /\ curY \in Int /\ PieceFits
  BY DEF BoardInv, PieceInv
<1>2. CASE Fits(board, curPiece, curX, curY - 1)
  BY <1>1, <1>2, BoardMoveStep DEF oneLineDown
<1>3. CASE ~Fits(board, curPiece, curX, curY - 1)
  BY <1>1, <1>3, BoardDropStep DEF oneLineDown, PieceFits
<1>4. QED
  BY <1>2, <1>3

LEMMA BoardLandingStep ==
  ASSUME BoardInv, dropDown
  PROVE  BoardInv'
<1>1. curY \in Int /\ PieceFits
  BY DEF BoardInv, PieceInv
<1>2. QED
  BY <1>1, Landing, BoardDropStep DEF dropDown, PieceFits

LEMMA BoardStartStep ==
  ASSUME BoardInv, start
  PROVE  BoardInv'
<1>1. PieceInv'
  BY StartStep DEF BoardInv
<1>2. board' \in Frame
  BY DEF start, Frame
<1>3. NoFullLine'
  BY BoardAssumption DEF start, NoFullLine, IsFull, Columns
<1>4. curX' \in Int /\ curY' \in Int
  BY NewPieceInt DEF start, BoardInv
<1>5. QED
  BY <1>1, <1>2, <1>3, <1>4 DEF BoardInv

LEMMA BoardPauseStep ==
  ASSUME BoardInv, pause
  PROVE  BoardInv'
<1>1. PieceInv'
  BY PauseStep DEF BoardInv
<1>2. QED
  BY <1>1 DEF pause, piece, BoardInv, NoFullLine

LEMMA BoardTimerStep ==
  ASSUME BoardInv, timerEvent
  PROVE  BoardInv'
<1>1. CASE isWaitingAfterLine
  <2>1. PieceInv'
    BY TimerStep DEF BoardInv
  <2>2. newPiece(board, isStarted) /\ board' = board
    BY <1>1 DEF timerEvent
  <2>3. QED
    BY <2>1, <2>2, NewPieceInt DEF BoardInv, NoFullLine
<1>2. CASE ~isWaitingAfterLine
  BY <1>2, BoardLineDownStep DEF timerEvent
<1>3. QED
  BY <1>1, <1>2

LEMMA NextBoardInv == BoardInv /\ [Next]_vars => BoardInv'
<1>1. SUFFICES ASSUME BoardInv, [Next]_vars PROVE BoardInv'
  OBVIOUS
<1>2. CASE UNCHANGED vars
  <2>1. PieceInv'
    BY <1>1, NextPieceInv DEF BoardInv
  <2>2. QED
    BY <1>1, <1>2, <2>1 DEF vars, piece, BoardInv, NoFullLine
<1>3. CASE start
  BY <1>1, <1>3, BoardStartStep
<1>4. CASE pause
  BY <1>1, <1>4, BoardPauseStep
<1>5. CASE keyPressEvent
  BY <1>1, <1>5, BoardSidewaysStep, BoardLandingStep, BoardLineDownStep
     DEF keyPressEvent
<1>6. CASE timerEvent
  BY <1>1, <1>6, BoardTimerStep
<1>7. ASSUME NEW keyNo \in 1..8, readGpioData(keyNo) PROVE BoardInv'
  BY <1>1, <1>7, BoardSidewaysStep, BoardLandingStep, BoardLineDownStep,
     BoardStartStep, BoardPauseStep DEF readGpioData
<1>8. QED
  BY <1>1, <1>2, <1>3, <1>4, <1>5, <1>6, <1>7 DEF Next

LEMMA InitBoardInv == Init => BoardInv
<1>1. SUFFICES ASSUME Init PROVE BoardInv
  OBVIOUS
<1>2. PieceInv
  BY <1>1, InitPieceInv
<1>3. curX \in Int /\ curY \in Int
  BY <1>1, GarbageAssumption DEF Init
<1>4. board \in Frame /\ NoFullLine
  BY <1>1, BoardAssumption DEF Init, Frame, NoFullLine, IsFull, Columns
<1>5. QED
  BY <1>2, <1>3, <1>4 DEF BoardInv

\* On a board of any size, with any shapes, whatever keys arrive when, no line
\* is ever left full: removeFullLines() takes them all out in one pass, and no
\* square comes to rest outside the frame.
THEOREM NeverAFullLine == Spec => []NoFullLine
<1>1. BoardInv => NoFullLine
  BY DEF BoardInv
<1>2. QED
  BY <1>1, InitBoardInv, NextBoardInv, PTL DEF Spec

-----------------------------------------------------------------------------
(* Without the key driver no square appears or vanishes.                   *)

SquaresInv ==
  /\ GameInv
  /\ BoardInv
  /\ Apart(nextPiece)
  /\ curPiece.shape # NoShape => Apart(curPiece)
  /\ numLinesRemoved \in Int /\ numPiecesDropped \in Int
  /\ SquaresConserved

LEMMA NextPieceApart ==
  ASSUME SquaresInv, NEW b, NEW started, newPiece(b, started)
  PROVE  /\ Apart(nextPiece')
         /\ curPiece'.shape # NoShape => Apart(curPiece')
<1>1. Apart(nextPiece')
  BY ShapeAssumption, ShapeApart DEF newPiece
<1>2. curPiece' = nextPiece \/ curPiece' = NoPiece
  BY DEF newPiece
<1>3. QED
  BY <1>1, <1>2, NoPieceShape DEF SquaresInv

LEMMA SquaresDropStep ==
  ASSUME SquaresInv, NEW y \in Int, pieceDropped(y),
         curPiece.shape # NoShape => Fits(board, curPiece, curX, y),
         isStarted => curPiece.shape # NoShape
  PROVE  /\ Apart(nextPiece')
         /\ curPiece'.shape # NoShape => Apart(curPiece')
         /\ numLinesRemoved' \in Int /\ numPiecesDropped' \in Int
         /\ SquaresConserved'
<1> DEFINE stored == Stored(curPiece, curX, y)
           full   == NumFullLines(stored)
<1>1. stored \in Frame
  BY StoredInFrame DEF SquaresInv
<1>2. full \in Nat
  <2>1. IsFiniteSet(Rows)
    BY FS_Interval, BoardAssumption DEF Rows
  <2>2. IsFiniteSet({i \in Rows : IsFull(stored, i)})
    BY <2>1, FS_Subset
  <2>3. QED
    BY <2>2, FS_CardinalityType DEF NumFullLines
<1>3. /\ numLinesRemoved \in Int /\ numPiecesDropped \in Int
      /\ numLinesRemoved' = numLinesRemoved + full
      /\ numPiecesDropped' = numPiecesDropped + 1
      /\ board' = Compacted(stored)
  BY DEF pieceDropped, SquaresInv
<1>4. isStarted' => isStarted
  BY DEF pieceDropped, newPiece
<1>5. Apart(nextPiece') /\ (curPiece'.shape # NoShape => Apart(curPiece'))
  <2>1. CASE full > 0
    BY <2>1, NoPieceShape DEF pieceDropped, SquaresInv
  <2>2. CASE full = 0 /\ isWaitingAfterLine
    BY <2>2 DEF pieceDropped, SquaresInv
  <2>3. CASE full = 0 /\ ~isWaitingAfterLine
    BY <2>3, NextPieceApart DEF pieceDropped
  <2>4. QED
    BY <2>1, <2>2, <2>3 DEF pieceDropped
<1>6. ASSUME isStarted'
      PROVE  Cardinality(board') = 4 * numPiecesDropped' - BoardWidth * numLinesRemoved'
  <2> DEFINE cells == Cells(curPiece, curX, y)
  <2>1. /\ isStarted /\ curPiece.shape # NoShape /\ curPiece \in Pieces
        /\ curX \in Int /\ Apart(curPiece) /\ board \in Frame
        /\ Cardinality(board) = 4 * numPiecesDropped - BoardWidth * numLinesRemoved
    BY <1>4, <1>6 DEF SquaresInv, BoardInv, PieceInv, SquaresConserved
  <2>2. stored = board \cup cells /\ board \cap cells = {}
    BY <2>1 DEF Stored, Fits
  <2>3. IsFiniteSet(cells) /\ Cardinality(cells) = 4
    BY <2>1, FourCells
  <2>4. IsFiniteSet(board) /\ Cardinality(board) \in Nat
    BY <2>1, BoardFinite DEF Frame
  <2>5. Cardinality(stored) = Cardinality(board) + 4
    <3> HIDE DEF cells, stored
    <3>1. Cardinality(stored) = Cardinality(board) + Cardinality(cells) - Cardinality({})
      BY <2>2, <2>3, <2>4, FS_Union
    <3>2. QED
      BY <3>1, <2>3, <2>4, FS_EmptySet
  <2>6. Cardinality(board') = Cardinality(stored) - BoardWidth * full
    BY <1>1, <1>3, CompactedBoard DEF Frame
  <2> HIDE DEF stored, full, cells
  <2>7. BoardWidth * (numLinesRemoved + full) = BoardWidth * numLinesRemoved + BoardWidth * full
    BY <1>2, <1>3, BoardAssumption
  <2>8. BoardWidth * numLinesRemoved \in Int /\ BoardWidth * full \in Int
    BY <1>2, <1>3, BoardAssumption
  <2>9. QED
    BY <1>2, <1>3, <2>1, <2>4, <2>5, <2>6, <2>7, <2>8
<1>7. numLinesRemoved' \in Int /\ numPiecesDropped' \in Int
  BY <1>2, <1>3
<1>8. QED
  BY <1>5, <1>6, <1>7 DEF SquaresConserved

LEMMA SquaresMoveStep ==
  ASSUME SquaresInv, NEW p \in Pieces, p.shape = curPiece.shape,
         p.shape # NoShape => Apart(p), NEW x, NEW y, tryMove(p, x, y)
  PROVE  /\ Apart(nextPiece')
         /\ curPiece'.shape # NoShape => Apart(curPiece')
         /\ numLinesRemoved' \in Int /\ numPiecesDropped' \in Int
         /\ SquaresConserved'
BY DEF tryMove, flags, counts, SquaresInv, SquaresConserved

LEMMA SquaresLineDownStep ==
  ASSUME SquaresInv, oneLineDown, isStarted => ~isWaitingAfterLine
  PROVE  /\ Apart(nextPiece')
         /\ curPiece'.shape # NoShape => Apart(curPiece')
         /\ numLinesRemoved' \in Int /\ numPiecesDropped' \in Int
         /\ SquaresConserved'
<1>1. /\ curPiece \in Pieces /\ PieceFits /\ curY \in Int
      /\ isStarted => curPiece.shape # NoShape
      /\ curPiece.shape # NoShape => Apart(curPiece)
  BY DEF SquaresInv, GameInv, GameInProgress, PieceInv, BoardInv
<1>2. CASE Fits(board, curPiece, curX, curY - 1)
  BY <1>1, <1>2, SquaresMoveStep DEF oneLineDown
<1>3. CASE ~Fits(board, curPiece, curX, curY - 1)
  BY <1>1, <1>3, SquaresDropStep DEF oneLineDown, PieceFits
<1>4. QED
  BY <1>2, <1>3

LEMMA NextSquaresInv ==
  ASSUME GpioKeys = {}, SquaresInv, [Next]_vars
  PROVE  SquaresInv'
<1> DEFINE Kept ==
             /\ Apart(nextPiece)
             /\ curPiece.shape # NoShape => Apart(curPiece)
             /\ numLinesRemoved \in Int /\ numPiecesDropped \in Int
             /\ SquaresConserved
<1>1. GameInv' /\ BoardInv'
  BY NextGameInv, NextBoardInv DEF SquaresInv
<1>2. ASSUME start PROVE Kept'
  <2>1. Apart(nextPiece') /\ (curPiece'.shape # NoShape => Apart(curPiece'))
    BY <1>2, NextPieceApart DEF start
  <2>2. board' = {} /\ numLinesRemoved' = 0 /\ numPiecesDropped' = 0
    BY <1>2 DEF start
  <2>3. Cardinality(board') = 0
    BY <2>2, FS_EmptySet
  <2>4. QED
    BY <2>1, <2>2, <2>3, BoardAssumption DEF SquaresConserved
<1>3. ASSUME pause PROVE Kept'
  BY <1>3 DEF pause, piece, counts, SquaresInv, SquaresConserved
<1>4. ASSUME keyPressEvent PROVE Kept'
  <2>1. /\ curPiece.shape # NoShape /\ curPiece \in Pieces /\ Apart(curPiece)
        /\ isStarted => ~isWaitingAfterLine
        /\ curY \in Int /\ PieceFits
    BY <1>4 DEF keyPressEvent, SquaresInv, GameInv, PieceInv, BoardInv
  <2>2. CASE \/ tryMove(curPiece, curX - 1, curY) \/ tryMove(curPiece, curX + 1, curY)
             \/ tryMove(rotatedLeft(curPiece), curX, curY)
             \/ tryMove(rotatedRight(curPiece), curX, curY)
    BY <2>1, <2>2, Rotation, RotationApart, SquaresMoveStep
  <2>3. CASE oneLineDown
    BY <2>1, <2>3, SquaresLineDownStep
  <2>4. CASE dropDown
    <3>1. LandsAt \in Int /\ Fits(board, curPiece, curX, LandsAt)
      BY <2>1, Landing DEF PieceFits
    <3>2. QED
      BY <2>1, <2>4, <3>1, SquaresDropStep DEF dropDown
  <2>5. QED
    BY <1>4, <2>2, <2>3, <2>4 DEF keyPressEvent
<1>5. ASSUME timerEvent PROVE Kept'
  <2>1. CASE isWaitingAfterLine
    <3>1. newPiece(board, isStarted) /\ board' = board /\ UNCHANGED counts
      BY <1>5, <2>1 DEF timerEvent
    <3>2. Apart(nextPiece') /\ (curPiece'.shape # NoShape => Apart(curPiece'))
      BY <3>1, NextPieceApart
    <3>3. isStarted' => isStarted
      BY <3>1 DEF newPiece
    <3>4. QED
      BY <3>1, <3>2, <3>3 DEF counts, SquaresInv, SquaresConserved
  <2>2. CASE ~isWaitingAfterLine
    BY <1>5, <2>2, SquaresLineDownStep DEF timerEvent
  <2>3. QED
    BY <2>1, <2>2
<1>6. ASSUME UNCHANGED vars PROVE Kept'
  BY <1>6 DEF vars, flags, piece, counts, SquaresInv, SquaresConserved
<1>7. start \/ pause \/ keyPressEvent \/ timerEvent \/ UNCHANGED vars
  BY DEF Next, readGpioData
<1>8. Kept'
  <2> HIDE DEF Kept
  <2> QED BY <1>2, <1>3, <1>4, <1>5, <1>6, <1>7
<1>9. QED
  BY <1>1, <1>8 DEF SquaresInv

\* Without the key driver: while a game goes on the board has four squares for
\* each piece that came to rest, less one line of them for each line removed.
THEOREM SquaresStayConserved ==
  ASSUME GpioKeys = {}
  PROVE  Spec => []SquaresConserved
<1>1. Init => SquaresInv
  <2>1. SUFFICES ASSUME Init PROVE SquaresInv
    OBVIOUS
  <2>2. GameInv
    <3>1. PieceInv
      BY <2>1, InitPieceInv
    <3>2. QED
      BY <2>1, <3>1 DEF Init, GameInv, Switches, GameInProgress
  <2>3. Apart(nextPiece)
    BY <2>1, ShapeAssumption, ShapeApart DEF Init
  <2>4. numLinesRemoved \in Int /\ numPiecesDropped \in Int
    BY <2>1, GarbageAssumption DEF Init
  <2>5. curPiece.shape = NoShape /\ ~isStarted
    BY <2>1, NoPieceShape DEF Init
  <2>6. BoardInv
    BY <2>1, InitBoardInv
  <2>7. QED
    BY <2>2, <2>3, <2>4, <2>5, <2>6 DEF SquaresInv, SquaresConserved
<1>2. SquaresInv /\ [Next]_vars => SquaresInv'
  BY NextSquaresInv
<1>3. SquaresInv => SquaresConserved
  BY DEF SquaresInv
<1>4. QED
  BY <1>1, <1>2, <1>3, PTL DEF Spec

-----------------------------------------------------------------------------
(* The key applications: the inductive invariant.                          *)

\* Each program at the statements it has; old has the value it starts with.
Shape ==
  /\ program \in Programs
  /\ mail \in 0 .. GPIOCNT
  /\ line # none => program \in PollPrograms
  /\ user.stage = "start"
     => ~quit /\ pending = none /\ (program # "Timer" => user.old = 0)
  /\ program \notin IoctlPrograms \cup {"Minor2"}
     => user.stage \in {"start", "run", "done", "failed"}
  /\ user = Go(user, user.old, user.leds, user.stage)

\* The last key is not among the keys a program in its loop takes for seen.
LastUnseen ==
  Running =>
    /\ program \in {"Ox", "App0620", "Syscall", "Hjy"} => user.old # LastMask
    /\ program = "Array" => ~Has(user.old, LastMask)

\* The keys a program takes for seen are on the LEDs.
SeenShown ==
  Running =>
    /\ program \in {"Ox", "App0620", "Array", "Hjy"} => user.old \in {0, user.leds}
    /\ program = "Timer" /\ pending # none => user.old = pending

UserInv == Shape /\ LastUnseen /\ SeenShown /\ ShowsNewest /\ EndsWithLastKey

\* The recursive function Bit has the value its definition gives.
BitStep(f, n) == IF n = 0 THEN 1 ELSE 2 * f[n - 1]

LEMMA BitDef == \A n \in 0 .. GPIOCNT : Bit[n] = BitStep(Bit, n)
<1> DEFINE Upto(f, m) == \A n \in 0 .. GPIOCNT : n <= m => f[n] = BitStep(f, n)
           G == {m \in Nat : \E f : Upto(f, m)}
<1> USE CountAssumption
<1>1. 0 \in G
  <2>1. Upto([n \in 0 .. GPIOCNT |-> 1], 0)
    BY DEF BitStep
  <2>2. QED
    BY <2>1
<1>2. ASSUME NEW m \in Nat, m \in G PROVE m + 1 \in G
  <2>1. PICK f : Upto(f, m)
    BY <1>2
  <2> DEFINE g == [n \in 0 .. GPIOCNT |-> IF n = m + 1 THEN BitStep(f, n) ELSE f[n]]
  <2>2. Upto(g, m + 1)
    BY <2>1 DEF BitStep
  <2>3. \E e : Upto(e, m + 1)
    <3> HIDE DEF g
    <3> QED BY <2>2
  <2>4. QED
    BY <2>3
<1>3. GPIOCNT \in G
  <2> HIDE DEF G
  <2> QED BY <1>1, <1>2, NatInd
<1>4. PICK f : Upto(f, GPIOCNT)
  BY <1>3
<1> DEFINE h == [n \in 0 .. GPIOCNT |-> f[n]]
<1>5. h = [n \in 0 .. GPIOCNT |-> BitStep(h, n)]
  BY <1>4 DEF BitStep
<1>6. \E e : e = [n \in 0 .. GPIOCNT |-> BitStep(e, n)]
  <2> HIDE DEF h
  <2> QED BY <1>5
<1>7. Bit = [n \in 0 .. GPIOCNT |-> BitStep(Bit, n)]
  BY <1>6 DEF Bit, BitStep
<1>8. QED
  <2> DEFINE b == Bit
  <2>1. b = [n \in 0 .. GPIOCNT |-> BitStep(b, n)]
    BY <1>7
  <2> HIDE DEF b
  <2>2. \A n \in 0 .. GPIOCNT : b[n] = BitStep(b, n)
    BY <2>1
  <2>3. QED
    BY <2>2 DEF b

\* The bits are not 0, and each is more than all below it.
LEMMA Bits ==
  /\ \A n \in 0 .. GPIOCNT : Bit[n] \in Nat \ {0}
  /\ \A n \in 0 .. GPIOCNT : \A k \in 0 .. n - 1 : Bit[k] < Bit[n]
<1> DEFINE Fine(n) == n \in 0 .. GPIOCNT
                      => Bit[n] \in Nat \ {0} /\ \A k \in 0 .. n - 1 : Bit[k] < Bit[n]
           Upto(n) == \A m \in 0 .. n : Fine(m)
           G == {n \in Nat : Upto(n)}
<1> USE CountAssumption
<1>1. 0 \in G
  BY BitDef DEF BitStep
<1>2. ASSUME NEW n \in Nat, n \in G PROVE n + 1 \in G
  <2>1. Upto(n)
    BY <1>2
  <2>2. Fine(n + 1)
    <3>1. SUFFICES ASSUME n + 1 \in 0 .. GPIOCNT
                   PROVE  Bit[n + 1] \in Nat \ {0} /\ \A k \in 0 .. n : Bit[k] < Bit[n + 1]
      OBVIOUS
    <3>2. n \in 0 .. n /\ n \in 0 .. GPIOCNT
      BY <3>1
    <3>3. Bit[n + 1] = 2 * Bit[n]
      BY <3>1, BitDef DEF BitStep
    <3>4. Bit[n] \in Nat \ {0} /\ \A k \in 0 .. n - 1 : Bit[k] < Bit[n]
      BY <2>1, <3>2
    <3>5. \A k \in 0 .. n : Bit[k] \in Nat
      BY <2>1, <3>1
    <3>6. ASSUME NEW k \in 0 .. n PROVE Bit[k] <= Bit[n]
      BY <3>4, <3>5
    <3>7. QED
      BY <3>3, <3>4, <3>5, <3>6
  <2>3. QED
    BY <2>1, <2>2
<1>3. Nat \subseteq G
  <2> HIDE DEF G
  <2> QED BY <1>1, <1>2, NatInd
<1>4. QED
  <2>1. \A n \in 0 .. GPIOCNT : n \in G /\ n \in 0 .. n
    BY <1>3
  <2>2. QED
    BY <2>1

\* Of the masks: 0 is none of them and has no bit, and no two keys share the last.
LEMMA Masks ==
  /\ LastMask \in Nat \ {0} /\ ~Has(0, LastMask)
  /\ Mask(0) = 0 /\ 0 # GPIOCNT
  /\ \A key \in 1 .. GPIOCNT : Mask(key) # 0
  /\ \A key \in 0 .. GPIOCNT : Mask(key) = LastMask <=> key = GPIOCNT
<1>1. GPIOCNT \in 1 .. GPIOCNT /\ GPIOCNT \in Nat \ {0} /\ GPIOCNT - 1 \in 0 .. GPIOCNT
  BY CountAssumption
<1>2. LastMask \in Nat \ {0}
  BY <1>1, Bits DEF LastMask
<1>3. ~Has(0, LastMask)
  <2> HIDE DEF LastMask
  <2>1. 0 \div LastMask = 0
    BY <1>2
  <2>2. QED
    BY <2>1 DEF Has
<1>4. ASSUME NEW key \in 1 .. GPIOCNT
      PROVE  Bit[key - 1] # 0 /\ (Bit[key - 1] = Bit[GPIOCNT - 1] => key = GPIOCNT)
  <2>1. key - 1 \in 0 .. GPIOCNT /\ (key # GPIOCNT => key - 1 \in 0 .. GPIOCNT - 1 - 1)
    BY <1>1
  <2>2. key # GPIOCNT => Bit[key - 1] < Bit[GPIOCNT - 1]
    BY <1>1, <2>1, Bits
  <2>3. Bit[key - 1] \in Nat \ {0} /\ Bit[GPIOCNT - 1] \in Nat
    BY <1>1, <2>1, Bits
  <2>4. QED
    BY <2>2, <2>3
<1>5. \A key \in 0 .. GPIOCNT : key = 0 \/ key \in 1 .. GPIOCNT
  BY <1>1
<1>6. QED
  BY <1>1, <1>2, <1>3, <1>4, <1>5 DEF Mask, LastMask

\* No program has begun.
LEMMA InitUserInv ==
  ASSUME ProgramInit
  PROVE  UserInv
<1>1. user.stage = "start" /\ ~Running /\ user = Go(user, user.old, user.leds, user.stage)
      /\ (program # "Timer" => user.old = 0)
  BY DEF ProgramInit, Running, Go
<1>2. GPIOCNT \in Nat
  BY CountAssumption
<1>3. Shape
  BY <1>1, <1>2 DEF ProgramInit, Shape
<1>4. QED
  BY <1>1, <1>3
     DEF UserInv, LastUnseen, SeenShown, ShowsNewest, EndsWithLastKey

\* What one loop does, for each program that is followed.
LEMMA LoopStep ==
  ASSUME UserInv, Running, NEW v, Take(v),
         program \in NumberPrograms => v \in 0 .. GPIOCNT /\ mail' \in 0 .. GPIOCNT,
         program \in LevelPrograms => mail' = mail,
         program \in KeyboardFirst /\ (v = 0 \/ empty) => empty'
  PROVE  UserInv'
<1>9. CASE program \in {"Int", "IntKsh", "Block", "BlockKsh"}
  <2>1. /\ program \in Programs /\ program' = program /\ line' = line
        /\ mail' \in 0 .. GPIOCNT /\ program \notin Attentive /\ program \notin Followers
        /\ program \notin {"Ox", "App0620", "Array", "Syscall", "Hjy", "Timer"}
    BY <1>9 DEF UserInv, Shape, Take, NumberPrograms, Attentive, Followers
  <2>2. user.stage = "run" /\ user = Go(user, user.old, user.leds, user.stage)
    BY <1>9 DEF UserInv, Shape, Running, IoctlPrograms
  <2>3. user' = IntLoop(v, user)
    BY <1>9 DEF Take, Loop, IntLoop, IntKshLoop, BlockLoop, BlockKshLoop
  <2>4. user' = Go(user', user'.old, user'.leds, user'.stage) /\ user'.stage \in {"run", "done"}
    BY <2>2, <2>3 DEF IntLoop, Go, EndIf
  <2>5. QED
    BY <1>9, <2>1, <2>4
       DEF UserInv, Shape, LastUnseen, SeenShown, ShowsNewest, EndsWithLastKey, Running
<1> USE DEF UserInv, Shape, LastUnseen, SeenShown, ShowsNewest, EndsWithLastKey, Followers,
            Attentive, LevelPrograms, NumberPrograms, PollPrograms, KeyboardFirst,
            IoctlPrograms, Take, Running, EndIf, Go, KeyAsks, KeyQuits, Loop
<1>1. CASE program = "Ox"
  BY <1>1, Masks DEF OxLoop
<1>2. CASE program = "App0620"
  BY <1>2, Masks DEF App0620Loop
<1>3. CASE program = "Syscall"
  BY <1>3, Masks DEF SyscallLoop
<1>4. CASE program = "Array"
  BY <1>4, Masks DEF ArrayLoop
<1>5. CASE program = "Minor"
  BY <1>5, Masks DEF MinorLoop
<1>6. CASE program = "Minor2"
  BY <1>6 DEF Minor2Loop
<1>7. CASE program = "IoctlRw"
  BY <1>7 DEF IoctlRwLoop, IoctlStages
<1>8. CASE program = "IoctlLedkey"
  BY <1>8 DEF IoctlLedkeyLoop, IoctlStages
<1>10. CASE program = "Kmalloc"
  BY <1>10, Masks DEF KmallocLoop
<1>11. CASE program = "Hjy"
  <2>1. CASE Mask(v) \in {0, user.old}
    <3>1. user' = user
      BY <1>11, <2>1 DEF HjyLoop
    <3>2. v # GPIOCNT /\ (v # 0 => asked' = user.leds)
      BY <1>11, <2>1, Masks
    <3>3. QED
      BY <1>11, <3>1, <3>2
  <2>2. CASE Mask(v) \notin {0, user.old}
    BY <1>11, <2>2, Masks DEF HjyLoop
  <2>3. QED
    BY <2>1, <2>2
<1>12. CASE program \in {"Poll", "PollBuiltin"}
  BY <1>12, Masks DEF PollLoop, PollBuiltinLoop
<1>13. CASE program = "P527"
  BY <1>13, Masks DEF P527Loop
<1>14. CASE program = "Timer"
  BY <1>14, Masks DEF TimerLoop
<1>15. QED
  BY <1>1, <1>2, <1>3, <1>4, <1>5, <1>6, <1>7, <1>8, <1>9, <1>10, <1>11, <1>12, <1>13, <1>14,
     ProgramAssumption

\* What a line does, for the programs that read lines.
LEMMA TypedStep ==
  ASSUME UserInv, ReadLine
  PROVE  UserInv'
<1> USE Masks DEF UserInv, Shape, LastUnseen, SeenShown, ShowsNewest, EndsWithLastKey, Followers,
              Attentive, LevelPrograms, NumberPrograms, PollPrograms, KeyboardFirst, QuitPrograms,
              IoctlPrograms, ReadLine, Running, Go, LineAsks, LineQuits, LineLoop
<1>1. CASE program \in {"Poll", "PollBuiltin"}
  BY <1>1 DEF PollLine
<1>2. CASE program = "P527"
  BY <1>2 DEF P527Line
<1>3. CASE program = "Timer"
  BY <1>3 DEF TimerLine
<1>4. QED
  BY <1>1, <1>2, <1>3

\* Every step keeps the invariant.
LEMMA NextUserInv ==
  ASSUME UserInv, [ProgramNext]_userVars
  PROVE  UserInv'
<1> USE DEF UserInv, Shape, LastUnseen, SeenShown, ShowsNewest, EndsWithLastKey, Running, Go
<1>1. CASE Start
  BY <1>1, Masks DEF Start, IoctlPrograms
<1>2. CASE ReadLevel
  BY <1>2, LoopStep DEF ReadLevel, KeyboardFirst, LevelPrograms, NumberPrograms
<1>3. CASE ReadNumber
  BY <1>3, LoopStep, CountAssumption
     DEF ReadNumber, Reads, KeyboardFirst, LevelPrograms, NumberPrograms, PollPrograms
<1>4. ASSUME NEW k \in PressedKeys, ReadDuringIsr(k)
      PROVE  UserInv'
  BY <1>4, LoopStep, CountAssumption, InputAssumption
     DEF ReadDuringIsr, Reads, LevelPrograms, NumberPrograms
<1>5. CASE ReadLine
  BY <1>5, TypedStep
<1>6. CASE CallFails
  BY <1>6 DEF CallFails
<1>7. ASSUME NEW k \in PressedKeys, Press(k)
      PROVE  UserInv'
  BY <1>7, CountAssumption, InputAssumption DEF Press
<1>8. CASE Hold \/ Type
  BY <1>8 DEF Hold, Type
<1>9. CASE UNCHANGED userVars
  BY <1>9 DEF userVars
<1>10. QED
  BY <1>1, <1>2, <1>3, <1>4, <1>5, <1>6, <1>7, <1>8, <1>9 DEF ProgramNext, Step
-----------------------------------------------------------------------------
(* The theorems on the key applications.                                   *)

\* The inductive invariant holds in every reachable state.
THEOREM UserInvariance == ProgramSpec => []UserInv
BY InitUserInv, NextUserInv, PTL DEF ProgramSpec

\* For any number of keys and any lines typed: while a program that looks at every
\* key is in its loop, the LEDs show the newest key or line that asked for something.
THEOREM LedsShowNewest == ProgramSpec => []ShowsNewest
<1>1. UserInv => ShowsNewest
  BY DEF UserInv
<1>2. QED
  BY <1>1, UserInvariance, PTL

\* For any number of keys and any lines typed: such a program has ended exactly if
\* the key or line it read last is one that ends it.
THEOREM EndsExactlyThen == ProgramSpec => []EndsWithLastKey
<1>1. UserInv => EndsWithLastKey
  BY DEF UserInv
<1>2. QED
  BY <1>1, UserInvariance, PTL
=============================================================================

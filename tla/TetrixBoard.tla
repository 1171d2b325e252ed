---------------------------- MODULE TetrixBoard ----------------------------
(***************************************************************************)
(* The game of Pi_Bsp/Qt/tetrixPi/tetrixboard.cpp.  All of it runs in the  *)
(* thread of the event loop, so every event handler is one action: the     *)
(* buttons start() and pause(), keyPressEvent(), timerEvent() and          *)
(* readGpioData(), the slot that the key driver's presses arrive at.  The  *)
(* colours of the squares, the score and the level are left out; what the  *)
(* level does to the timer is not.                                         *)
(*                                                                         *)
(* The constructor leaves several members without a value: they begin      *)
(* with any of the values in Garbage.                                      *)
(***************************************************************************)
EXTENDS TetrixPiece, FiniteSets

CONSTANTS
  BoardWidth, BoardHeight,  \* 10 and 22 in the source
  Shapes,                   \* what setRandomShape() may draw
  LevelPieces,              \* pieces to a level, 25 in the source
  GpioKeys,                 \* keys the driver may report, {} without a driver
  Garbage,                  \* values an uninitialised int member may have
  MaxPieces                 \* bound on numPiecesDropped

ASSUME BoardAssumption == BoardWidth \in Nat \ {0} /\ BoardHeight \in Nat \ {0}
ASSUME ShapeAssumption == Shapes \subseteq AllShapes
ASSUME LevelAssumption == LevelPieces \in Nat \ {0}
ASSUME GarbageAssumption == Garbage \subseteq Int
ASSUME BoundAssumption == MaxPieces \in Nat

VARIABLES
  isStarted, isPaused, isWaitingAfterLine,
  curPiece, nextPiece,
  curX, curY,               \* where the origin of curPiece is, y upwards
  numLinesRemoved, numPiecesDropped,
  board,                    \* the cells whose shape is not NoShape
  timer                     \* TRUE while the timer runs

piece == <<curPiece, curX, curY>>
flags == <<isStarted, isPaused, isWaitingAfterLine>>
counts == <<numLinesRemoved, numPiecesDropped>>
vars == <<flags, piece, nextPiece, counts, board, timer>>

Columns == 0..(BoardWidth - 1)
Rows    == 0..(BoardHeight - 1)
NoPiece == setShape(NoShape)

Init ==
  /\ isStarted = FALSE
  /\ isPaused = FALSE
  /\ isWaitingAfterLine \in BOOLEAN
  /\ curPiece = NoPiece
  /\ \E s \in Shapes : nextPiece = setShape(s)
  /\ curX \in Garbage
  /\ curY \in Garbage
  /\ numLinesRemoved \in Garbage
  /\ numPiecesDropped \in Garbage
  /\ board = {}
  /\ timer = FALSE

Cells(p, x, y) == {<<x + PX(p, i), y - PY(p, i)>> : i \in 1..4}

Fits(b, p, x, y) ==
  /\ Cells(p, x, y) \subseteq Columns \X Rows
  /\ Cells(p, x, y) \cap b = {}

-----------------------------------------------------------------------------
(* removeFullLines(): from the top line down, a full line is taken out and *)
(* the lines above it come down by one.                                    *)

IsFull(b, i) == \A j \in Columns : <<j, i>> \in b

TakeOut(b, i) ==
  {c \in b : c[2] < i} \cup {<<c[1], c[2] - 1>> : c \in {d \in b : d[2] > i}}

\* Mutant of Compacted: the lines are visited from the bottom up.
CompactedUpwards(b) ==
  LET after[i \in -1..(BoardHeight - 1)] ==
        IF i = -1 THEN b
        ELSE IF IsFull(after[i - 1], i) THEN TakeOut(after[i - 1], i)
                                        ELSE after[i - 1]
  IN  after[BoardHeight - 1]

\* AfterLine(b)[i]: the board once the lines from the top down to i are visited.
AfterLine(b) ==
  LET after[i \in 0..BoardHeight] ==
        IF i = BoardHeight THEN b
        ELSE IF IsFull(after[i + 1], i) THEN TakeOut(after[i + 1], i)
                                        ELSE after[i + 1]
  IN  after

Compacted(b) == AfterLine(b)[0]

NumFullLines(b) == Cardinality({i \in Rows : IsFull(b, i)})

-----------------------------------------------------------------------------
(* newPiece(), pieceDropped() and what they are built from.                *)

StartX == BoardWidth \div 2 + 1
StartY(p) == BoardHeight - 1 + minY(p)

NextFits(b) == Fits(b, nextPiece, StartX, StartY(nextPiece))

\* Mutant of newPiece: the result of tryMove() is not looked at.
newPieceUnchecked(b, started) ==
  /\ \E s \in Shapes : nextPiece' = setShape(s)
  /\ curX' = StartX
  /\ curY' = StartY(nextPiece)
  /\ curPiece' = nextPiece
  /\ isStarted' = started

\* started is the value of isStarted before the call.  When the new piece has
\* no room the game is over; what becomes of the timer is left to the callers.
newPiece(b, started) ==
  /\ \E s \in Shapes : nextPiece' = setShape(s)
  /\ curX' = StartX
  /\ curY' = StartY(nextPiece)
  /\ curPiece' = IF NextFits(b) THEN nextPiece ELSE NoPiece
  /\ isStarted' = (started /\ NextFits(b))

tryMove(p, x, y) ==
  /\ Fits(board, p, x, y)
  /\ curPiece' = p
  /\ curX' = x
  /\ curY' = y
  /\ UNCHANGED <<flags, nextPiece, counts, board, timer>>

\* The four squares of a piece take its shape, and NoShape is a shape too.
Stored(p, x, y) ==
  IF p.shape = NoShape THEN board \ Cells(p, x, y) ELSE board \cup Cells(p, x, y)

\* curPiece comes to rest with its origin at <<curX, y>>.
pieceDropped(y) ==
  LET stored == Stored(curPiece, curX, y)
      full   == NumFullLines(stored)
      running == timer \/ numPiecesDropped' % LevelPieces = 0
  IN
  /\ numPiecesDropped < MaxPieces
  /\ numPiecesDropped' = numPiecesDropped + 1
  /\ numLinesRemoved' = numLinesRemoved + full
  /\ board' = Compacted(stored)
  /\ \/ /\ full > 0
        /\ timer' = TRUE
        /\ isWaitingAfterLine' = TRUE
        /\ curPiece' = NoPiece
        /\ curY' = y
        /\ UNCHANGED <<isStarted, nextPiece, curX>>
     \/ /\ full = 0
        /\ isWaitingAfterLine
        /\ timer' = running
        /\ curY' = y
        /\ UNCHANGED <<isStarted, isWaitingAfterLine, curPiece, nextPiece, curX>>
     \/ /\ full = 0
        /\ ~isWaitingAfterLine
        /\ newPiece(board', isStarted)
        /\ timer' = (running /\ NextFits(board'))
        /\ UNCHANGED isWaitingAfterLine
  /\ UNCHANGED isPaused

oneLineDown ==
  IF Fits(board, curPiece, curX, curY - 1)
  THEN tryMove(curPiece, curX, curY - 1)
  ELSE pieceDropped(curY)

\* The y at which the loop of dropDown() ends.
LandsAt ==
  CHOOSE y \in {curY} \cup 0..curY :
    /\ \A z \in y..(curY - 1) : Fits(board, curPiece, curX, z)
    /\ y <= 0 \/ ~Fits(board, curPiece, curX, y - 1)

dropDown == pieceDropped(LandsAt)

-----------------------------------------------------------------------------
(* The event handlers.                                                     *)

\* Mutant of start: isWaitingAfterLine is not reset.
startKeepsWaiting ==
  /\ ~isPaused
  /\ numLinesRemoved' = 0
  /\ numPiecesDropped' = 0
  /\ board' = {}
  /\ newPiece({}, TRUE)
  /\ timer' = TRUE
  /\ UNCHANGED <<isPaused, isWaitingAfterLine>>

start ==
  /\ ~isPaused
  /\ isWaitingAfterLine' = FALSE
  /\ numLinesRemoved' = 0
  /\ numPiecesDropped' = 0
  /\ board' = {}
  /\ newPiece({}, TRUE)
  /\ timer' = TRUE
  /\ UNCHANGED isPaused

\* Mutants of pause: the timer is not stopped, or not started again.
pauseKeepsTimer ==
  /\ isStarted
  /\ isPaused' = ~isPaused
  /\ UNCHANGED <<isStarted, isWaitingAfterLine, piece, nextPiece, counts, board,
                 timer>>

pauseForGood ==
  /\ isStarted
  /\ isPaused' = ~isPaused
  /\ timer' = FALSE
  /\ UNCHANGED <<isStarted, isWaitingAfterLine, piece, nextPiece, counts, board>>

pause ==
  /\ isStarted
  /\ isPaused' = ~isPaused
  /\ timer' = isPaused
  /\ UNCHANGED <<isStarted, isWaitingAfterLine, piece, nextPiece, counts, board>>

\* Mutant of keyPressEvent: keys count between the removal of a line and the
\* next piece, as they do in readGpioData().
keyPressWithoutPiece ==
  /\ isStarted /\ ~isPaused
  /\ \/ tryMove(curPiece, curX - 1, curY)
     \/ tryMove(curPiece, curX + 1, curY)
     \/ dropDown
     \/ oneLineDown

keyPressEvent ==
  /\ isStarted /\ ~isPaused /\ curPiece.shape # NoShape
  /\ \/ tryMove(curPiece, curX - 1, curY)
     \/ tryMove(curPiece, curX + 1, curY)
     \/ tryMove(rotatedRight(curPiece), curX, curY)
     \/ tryMove(rotatedLeft(curPiece), curX, curY)
     \/ dropDown
     \/ oneLineDown

timerEvent ==
  /\ timer
  /\ \/ /\ isWaitingAfterLine
        /\ isWaitingAfterLine' = FALSE
        /\ newPiece(board, isStarted)
        /\ timer' = TRUE
        /\ UNCHANGED <<isPaused, counts, board>>
     \/ ~isWaitingAfterLine /\ oneLineDown

\* The slot of KeyLed's updateKeydataSig().  A move that does not fit changes
\* nothing, and neither do keys 0 and 9.
readGpioData(keyNo) ==
  /\ keyNo \in GpioKeys
  /\ \/ keyNo = 1 /\ tryMove(rotatedLeft(curPiece), curX, curY)
     \/ keyNo = 2 /\ tryMove(rotatedRight(curPiece), curX, curY)
     \/ keyNo = 3 /\ tryMove(curPiece, curX - 1, curY)
     \/ keyNo = 4 /\ tryMove(curPiece, curX + 1, curY)
     \/ keyNo = 5 /\ oneLineDown
     \/ keyNo = 6 /\ dropDown
     \/ keyNo = 7 /\ start
     \/ keyNo = 8 /\ pause

Next ==
  \/ \E keyNo \in 1..8 : readGpioData(keyNo)
  \/ start \/ pause \/ keyPressEvent \/ timerEvent

Spec == Init /\ [][Next]_vars

\* The timer fires again and again while it runs; nobody need touch a key.
FairSpec == Spec /\ WF_vars(timerEvent)

-----------------------------------------------------------------------------
(* Properties.                                                             *)

\* The type invariant.  The board has squares inside its frame only.
TypeOK ==
  /\ isStarted \in BOOLEAN /\ isPaused \in BOOLEAN
  /\ isWaitingAfterLine \in BOOLEAN
  /\ curPiece \in Pieces /\ nextPiece \in Pieces
  /\ curX \in Garbage \cup Columns
  /\ curY \in Garbage \cup Rows
  /\ numLinesRemoved \in Garbage \cup Nat
  /\ numPiecesDropped \in Garbage \cup 0..MaxPieces
  /\ board \subseteq Columns \X Rows
  /\ timer \in BOOLEAN

\* The falling piece is inside the frame and overlaps no square that came to
\* rest, whatever the order of moves, rotations, drops, removed lines, pauses
\* and restarts: pieceDropped() stores without a test of its own.
PieceFits == curPiece.shape # NoShape => Fits(board, curPiece, curX, curY)

\* No line is ever left full, also when a piece completes several lines that
\* are not next to each other.
NoFullLine == \A i \in Rows : ~IsFull(board, i)

\* While a game goes on no square appears or vanishes: each dropped piece has
\* brought four, each removed line has taken a line of them.
SquaresConserved ==
  isStarted =>
    Cardinality(board) = 4 * numPiecesDropped - BoardWidth * numLinesRemoved

\* A game in progress is never stuck without a timer and has a falling piece
\* except between the removal of a line and the next timer event.  A game that
\* is over is not paused, so that start() is not refused for ever.
GameInProgress ==
  /\ isStarted => (timer <=> ~isPaused)
  /\ isStarted => (isWaitingAfterLine <=> curPiece.shape = NoShape)
  /\ isPaused => isStarted

\* Nothing on the board moves while the game is paused.
PausedStandsStill ==
  [][isPaused /\ isPaused' => UNCHANGED <<piece, nextPiece, board, counts>>]_vars

\* However the player moves and turns the pieces, they keep landing until the
\* game is over (or the bound on them is reached), unless the game stays paused
\* or is started again and again.
PiecesLand ==
  <>[][~start]_vars =>
    []<>(isPaused \/ ~isStarted \/ numPiecesDropped = MaxPieces)
=============================================================================

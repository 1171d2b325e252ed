\* A board of 3 x 5 without the key driver.
CONSTANTS
  BoardWidth = 3
  BoardHeight = 5
  Shapes <- LeftShapes
  LevelPieces = 2
  GpioKeys = {}
  Garbage <- OddGarbage
  MaxPieces = 6
SPECIFICATION FairSpec
INVARIANTS
  NoFullLine
  SquaresConserved
  GameInProgress
PROPERTIES
  PausedStandsStill
  PiecesLand

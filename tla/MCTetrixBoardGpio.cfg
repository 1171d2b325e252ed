\* The keys of the driver as well, also before the first start.
CONSTANTS
  BoardWidth = 3
  BoardHeight = 5
  Shapes <- LeftShapes
  LevelPieces = 2
  GpioKeys <- AllKeys
  Garbage <- OddGarbage
  MaxPieces = 4
SPECIFICATION Spec
\* Paused and over at once, the game can neither be resumed nor started.
CHECK_DEADLOCK FALSE
INVARIANTS
  PieceFits

\* Eight keys; up to three typed lines.
CONSTANTS
  GPIOCNT = 8
  Programs <- AllPrograms
  Levels <- HeldKeys
  PressedKeys <- KeyNumbers
  TypedLines <- Lines
  none = none
  MaxLines = 3
SPECIFICATION ProgramSpec
CHECK_DEADLOCK FALSE
INVARIANTS
  ShowsNewest
  EndsWithLastKey
PROPERTIES
  LastKeyEnds

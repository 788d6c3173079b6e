SPECIFICATION HttpSpec
CONSTANTS
  Size = 10
  Piece = 2
  Sizes <- MCSizes
INVARIANTS
  RightAnswer
  NotHeldBack
CHECK_DEADLOCK FALSE

SPECIFICATION FairSpec
CONSTANTS
  Size = 4
  Lengths = {1, 2}
  MaxLines = 5
  Delay = 1
  HalfRange = 3
  PingEvery = 2
INVARIANTS
  Conservation
  Paced
PROPERTY
  EveryLineSent

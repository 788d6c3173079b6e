SPECIFICATION FairReaderSpec
CONSTANTS
  Size = 5
  LineMax = 2
  Lengths = {0, 1, 3}
  MaxLines = 4
  Burst = 8
INVARIANTS
  Lossless
PROPERTY
  EveryLineHandled

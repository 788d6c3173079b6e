SPECIFICATION Spec
CONSTANTS
  a = a
  b = b
  x = x
  y = y
  Requester = {a, b}
  Name = {x, y}
  Id = {1, 2}
  NsCount = 2
  MaxPending = 2
  MaxFlight = 1
  LifeBound = 27
SYMMETRY
  Permuted
INVARIANTS
  EveryNameServerAsked
  RightAnswer

SPECIFICATION Spec
CONSTANTS
  e1 = e1
  e2 = e2
  e3 = e3
  e4 = e4
  a = a
  b = b
  t = t
  Descriptor = {a, b}
  Timer = {t}
  Entry = {e1, e2, e3, e4}
  MaxOps = 2
SYMMETRY Permuted
INVARIANTS
  OwnersAgree
  InStep
PROPERTY
  NothingAddedBehind

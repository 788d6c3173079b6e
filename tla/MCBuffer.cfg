SPECIFICATION Spec
CONSTANTS
  Size = 3
  Byte = {0, 1}
  MaxWrite = 4
INVARIANTS
  FlagsAgree
  MapOffersStream
PROPERTY
  ImplementsStream

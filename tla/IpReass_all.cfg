SPECIFICATION Spec
CONSTANTS
  NULL = NULL
  a = a
  b = b
  c1 = c1
  c2 = c2
  Fragments <- Mixed
  NumReass = 3
  MaxPbufs = 6
  MaxAge = 2
SYMMETRY Alike
INVARIANTS
  CompleteIsWhole
  PbufsCounted
  ListSound
PROPERTIES
  BreaksInTheMiddle
  OwnIsKept
  LastCompletes

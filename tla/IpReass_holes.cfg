SPECIFICATION Spec
CONSTANTS
  NULL = NULL
  a = a
  b = b
  c1 = c1
  c2 = c2
  Fragments <- OneOfFour
  NumReass = 2
  MaxPbufs = 8
  MaxAge = 1
INVARIANTS
  CompleteIsWhole

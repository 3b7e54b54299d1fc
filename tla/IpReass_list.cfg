SPECIFICATION Spec
CONSTANTS
  NULL = NULL
  a = a
  b = b
  c1 = c1
  c2 = c2
  Fragments <- ThreeOfTwo
  NumReass = 3
  MaxPbufs = 5
  MaxAge = 1
INVARIANTS
  StaysApart

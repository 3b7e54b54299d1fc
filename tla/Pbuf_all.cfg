SPECIFICATION Spec
CONSTANTS
  NULL = NULL
  Pool = {p1, p2}
  Rom = {r1}
  Ram = {m1}
  BufSize = 2
  Lengths = {2}
  MaxRoom = 1
  MaxHeld = 3
SYMMETRY Symmetry
INVARIANTS
  RefsCounted
  LiveIsReachable
  TotalsAdd
  CopyWhole

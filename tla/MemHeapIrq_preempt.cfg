SPECIFICATION IrqSpec
CONSTANTS
  MemSize = 21
  HeaderSize = 2
  MinSize = 3
  Requests = {1, 4, 7}
INVARIANTS
  TakenIsFree

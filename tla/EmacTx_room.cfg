SPECIFICATION Spec
CONSTANTS
  NumTxFrag = 3
  Segments = 2
  Callers = {"main"}
  MaxWaiting = 3
  MaxFrames = 4
INVARIANTS
  SlotAvailable
CHECK_DEADLOCK FALSE

SPECIFICATION Spec
CONSTANTS
  NumTxFrag = 3
  Segments = 2
  Callers = {"main"}
  MaxWaiting = 4
  MaxFrames = 7
INVARIANTS
  SentInOrder
CHECK_DEADLOCK FALSE

SPECIFICATION Spec
CONSTANTS
  NumTxFrag = 3
  Segments = 2
  Callers = {"main", "isr"}
  MaxWaiting = 2
  MaxFrames = 3
INVARIANTS
  WholeFrames
CHECK_DEADLOCK FALSE

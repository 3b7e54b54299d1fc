SPECIFICATION Spec
CONSTANTS
  NumTxFrag = 3
  Segments = 2
  Callers = {"main"}
  MaxWaiting = 3
  MaxFrames = 5
INVARIANTS
  OkMeansQueued
CHECK_DEADLOCK FALSE

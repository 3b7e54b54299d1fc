SPECIFICATION FairSpec
CONSTANTS
  NumTxFrag = 3
  Segments = 2
  Callers = {"main"}
  MaxWaiting = 2
  MaxFrames = 6
INVARIANTS
  WholeFrames
PROPERTIES
  ImplementsFifo
  EveryQueuedSent
CHECK_DEADLOCK FALSE

SPECIFICATION Spec
CONSTANTS
  NumRxFrag = 3
  Infos <- GoodOrBad
  MaxPacket = 1536
  MaxFrames = 3
INVARIANTS
  IdleMeansEmpty

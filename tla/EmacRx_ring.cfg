SPECIFICATION FairSpec
CONSTANTS
  NumRxFrag = 4
  Infos <- Limits
  MaxPacket = 1536
  MaxFrames = 6
INVARIANTS
  RingHoldsNewest
  HandedInOrder
  NeverWedged
  CopyFits
PROPERTIES
  ImplementsFifo
  RingDrains

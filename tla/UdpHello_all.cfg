SPECIFICATION FairSpec
CONSTANTS
  Pcbs = {p1, p2, p3}
  Echo = p1
  NULL = NULL
  Any = Any
  Peer = Peer
  Other = Other
  Sources <- AllSources
  MaxDatagrams = 4
  MaxFlag = 3
INVARIANTS
  TypeOK
  ListIntact
  PoolSound
PROPERTIES
  HelloNeedsQuiet
  MissedOnlyWhileBound
  HelloComes

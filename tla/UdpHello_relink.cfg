SPECIFICATION Spec
CONSTANTS
  Pcbs = {p1, p2, p3}
  Echo = p1
  NULL = NULL
  Any = Any
  Peer = Peer
  Other = Other
  Sources <- AllSources
  MaxDatagrams = 2
  MaxFlag = 3
INVARIANTS
  AddedIfAbsent

SPECIFICATION Spec
CONSTANTS
  Hosts = {a, b, c}
  Remote = remote
  Gateway = a
  Broadcast = broadcast
  AnyAddr = anyaddr
  Macs = {x, y}
  NULL = NULL
  TableSize = 2
  QueueSize = 2
  MaxAge = 3
  MaxPending = 2
  MaxPackets = 2
INVARIANTS
  TypeOK
  OneEntryPerAddress
  ElementsAccounted
PROPERTIES
  SentInOrder
  SentToLatest

SPECIFICATION Spec
CONSTANTS
  Lengths <- StringLengths
  ByteTime = 3
  DelayTime = 6
  RespTout = 2
INVARIANTS
  SuccessMeansLink

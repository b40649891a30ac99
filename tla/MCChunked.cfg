\* Up to two chunks, cut into packets anywhere; the connection may be lost and
\* the packet pool exhausted.
CONSTANTS
  p1 = p1
  p2 = p2
  p3 = p3
  Packets <- ThreePackets
  NoPacket = NoPacket
  Responses <- SomeResponses
  DigitBase = 2
  MayLose = TRUE
  MayExhaust = TRUE
SPECIFICATION FairSpec
INVARIANTS
  TypeOK
  KeepsItsPlace
  PoolBalanced
PROPERTIES
  KeepsPromise
  Ends
CHECK_DEADLOCK FALSE

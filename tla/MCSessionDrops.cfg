\* Connections may be lost at any moment.
CONSTANTS
  b1 = b1
  b2 = b2
  b3 = b3
  b4 = b4
  b5 = b5
  b6 = b6
  Modes <- EitherMode
  LoopMessages <- Plain
  MayDrop = TRUE
  Blocks <- SomeBlocks
  NULL = NULL
  Rounds = 2
  MaxQueue = 2
  MaxMessages = 2
  MaxSessions = 2
SPECIFICATION FairSpec
INVARIANTS
  TypeOK
  MemorySafe
  NeverAbandonsLink
PROPERTIES
  LossIsNoticed
CHECK_DEADLOCK FALSE

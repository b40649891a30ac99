\* ON_FORCE_SYNC and ON_CLOSE handled by a receiver thread of its own.
CONSTANTS
  b1 = b1
  b2 = b2
  b3 = b3
  b4 = b4
  b5 = b5
  b6 = b6
  Modes <- Loops
  LoopMessages <- All
  MayDrop = FALSE
  Blocks <- SomeBlocks
  NULL = NULL
  Rounds = 1
  MaxQueue = 1
  MaxMessages = 1
  MaxSessions = 1
SPECIFICATION Spec
INVARIANTS
  TornDownOnce
CHECK_DEADLOCK FALSE

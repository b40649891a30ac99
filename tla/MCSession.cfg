\* No connection is lost: every way into and out of a session.
CONSTANTS
  b1 = b1
  b2 = b2
  b3 = b3
  b4 = b4
  b5 = b5
  b6 = b6
  Modes <- EitherMode
  LoopMessages <- Plain
  MayDrop = FALSE
  Blocks <- SomeBlocks
  NULL = NULL
  Rounds = 2
  MaxQueue = 2
  MaxMessages = 3
  MaxSessions = 3
SPECIFICATION Spec
INVARIANTS
  NothingHeld
  NoMisuse
  ToldTheTruth
PROPERTIES
  FailureExplained
CHECK_DEADLOCK FALSE

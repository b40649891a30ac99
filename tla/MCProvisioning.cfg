\* Answers that are empty, fit, or are too long for the buffer, each in any
\* packets; every call may fail anywhere and is tried again.
CONSTANTS
  Lengths <- SomeLengths
  BufferSize = 4
  Stale = Stale
  Certs <- Sane
  MaxAttempts = 3
SPECIFICATION FairSpec
INVARIANTS
  TypeOK
  ResponseIsOwn
  NothingLeft
  HeapBalanced
  SignatureMatches
  StoredIsIssued
  SuccessIsComplete
PROPERTIES
  CallReturns
CHECK_DEADLOCK FALSE

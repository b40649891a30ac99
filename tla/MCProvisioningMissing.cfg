\* A sign response that parses, with no certificate in it.
CONSTANTS
  Lengths <- SomeLengths
  BufferSize = 4
  Stale = Stale
  Certs <- Any
  MaxAttempts = 1
SPECIFICATION Spec
INVARIANTS
  StoredIsIssued
CHECK_DEADLOCK FALSE

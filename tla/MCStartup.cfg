\* The flash refuses and the power fails anywhere, up to four times.  A word
\* has 8 values, so that seconds and ticks wrap while the board runs.
CONSTANTS
  Boards <- BothBoards
  MaxFaults = 4
  Word = 8
  Epoch = 5
  Rate = 2
  SyncMax = 2
  UpdateMax = 1
  Starts <- JustBeforeWrap
  Override = 3
  MaxTicks = 9
SPECIFICATION FairSpec
INVARIANTS
  TypeOK
  SuccessHasKeys
  EncryptedKeysGone
  MirrorExpendable
  ClockRight
PROPERTIES
  GeneratedOnce
  StartsUp
CHECK_DEADLOCK FALSE

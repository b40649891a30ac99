\* The first update of main after the installation is cut short.
CONSTANTS
  Boards <- Renesas
  MaxFaults = 1
  Word = 8
  Epoch = 5
  Rate = 2
  SyncMax = 1
  UpdateMax = 1
  Starts <- JustBeforeWrap
  Override = 3
  MaxTicks = 1
SPECIFICATION Spec
INVARIANTS
  MirrorSaves
CHECK_DEADLOCK FALSE

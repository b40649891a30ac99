\* Resumed downloads: the bank is erased again, the download goes on in the middle.
CONSTANTS
  v1 = v1
  v2 = v2
  v3 = v3
  Images <- AllImages
  Factory = v1
  ImageSize <- AllSizes
  BankSize = 8
  PageSize = 2
  Word = 2
  ChunkSize = 4
  Boards <- Stm32
  Resumes <- Either
  Obedient = TRUE
  MaxCalls = 2
  Erased = Erased
  None = None
SPECIFICATION Spec
INVARIANTS
  ReadyMeansWhole

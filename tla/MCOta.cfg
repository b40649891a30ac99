\* Chunks that are no multiple of a word; an image that does not fit, any use.
CONSTANTS
  v1 = v1
  v2 = v2
  v3 = v3
  Images <- AllImages
  Factory = v1
  ImageSize <- WideSizes
  BankSize = 16
  PageSize = 8
  Word = 4
  ChunkSize = 5
  Boards <- BothBoards
  Resumes <- WhereItWorks
  Obedient = FALSE
  MaxCalls = 3
  Erased = Erased
  None = None
SPECIFICATION Spec
INVARIANTS
  TypeOK
  ReadyMeansWhole
  WritesAreLegal
PROPERTIES
  OnlyDownloadSticks
  UpdatesAtomically

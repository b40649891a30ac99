\* One file, resumed or not, a server that may refuse, fall silent or close.
CONSTANTS
  fw = fw
  cfgfile = cfgfile
  Files <- OneFile
  SizeOf <- SizeFive
  MaxSize = 5
  BufSize = 2
  Retries = 2
  SizeMod = 16
  HeaderAlone = FALSE
  Answers <- OrSilent
  HeadLengths <- Exact
  MayClose = TRUE
  MayLose = TRUE
  Resumes <- Either
  MaxCalls = 3
  NoByte = NoByte
  NoFile = NoFile
SPECIFICATION Spec
INVARIANTS
  TypeOK
  PrefixIntact
  SuccessIsWholeFile
  NoLeftover
PROPERTIES
  Transfers
CHECK_DEADLOCK FALSE

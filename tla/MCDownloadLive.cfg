\* A server that always answers: ranges, refusals, the whole file instead of a
\* range, a length header the callback misses, headers in records of their own.
CONSTANTS
  fw = fw
  cfgfile = cfgfile
  Files <- OneFile
  SizeOf <- SizeFive
  MaxSize = 5
  BufSize = 2
  Retries = 2
  SizeMod = 16
  HeaderAlone = TRUE
  Answers <- Talkative
  HeadLengths <- OrUnseen
  MayClose = TRUE
  MayLose = TRUE
  Resumes <- Either
  MaxCalls = 2
  NoByte = NoByte
  NoFile = NoFile
SPECIFICATION FairSpec
INVARIANTS
  FramingInSync
PROPERTIES
  Terminates
CHECK_DEADLOCK FALSE

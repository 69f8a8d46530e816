SPECIFICATION Spec
CONSTANTS
  Names <- MCNames
  Fold <- MCFold
  Longer <- MCLonger
  MetaDir = ".fat_crypt"
  PlainFiles <- MCPlainFiles
  PlainDirs <- MCPlainDirs
  Paths <- MCPaths
  TooLong <- MCTooLong
  Short = {"note"}
  NoValue = NoValue
  Long = {"config", "image"}
  InitDirs <- MCInitDirs
  InitFiles <- MCInitFiles
  MaxRequests = 4
INVARIANTS TypeOK ClassHonoured ReadsBack SealedReadsAuthentic
CHECK_DEADLOCK FALSE

SPECIFICATION Spec
CONSTANTS
  Names <- MCNames
  Parts <- MCParts
  Upper <- MCUpper
  Shorts <- MCShorts
  Lossy <- MCLossy
  NeedsLfn <- MCNeedsLfn
  Checksum <- MCChecksum
  PerSector = 2
  MaxSectors = 3
  MaxRequests = 4
  MaxFaults = 1
  MaxCrashes = 1
INVARIANTS TypeOK  ObjectSurvives ListedOnce StretchCleared
CHECK_DEADLOCK FALSE

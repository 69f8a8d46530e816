SPECIFICATION Spec
CONSTANTS
  HeaderSize = 1
  SectorSize = 3
  TagSize = 1
  UIntRange = 9
  Values = {1}
  Offsets = {0, 1, 2}
  Lengths = {1, 2}
  Sizes = {0, 1}
  Capacities = {0, 3, 9}
  ForeignSizes = {0}
  MaxNonce = 2
  ReuseDirty = TRUE
  MaxReleased = 1
INVARIANTS ImagesSound
PROPERTIES  OwnBytesOnly

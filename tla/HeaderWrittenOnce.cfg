SPECIFICATION Spec
CONSTANTS
  HeaderSize = 1
  SectorSize = 3
  TagSize = 1
  UIntRange = 9
  Values = {1}
  Offsets = {0, 2}
  Lengths = {1, 2}
  Sizes = {0}
  Capacities = {0, 9}
  ForeignSizes = {0}
  MaxNonce = 2
  ReuseDirty = FALSE
  MaxReleased = 0
PROPERTIES HeaderWrittenOnce

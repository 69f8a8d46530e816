SPECIFICATION Spec
CONSTANTS
  HeaderSize = 1
  SectorSize = 3
  TagSize = 1
  UIntRange = 12
  Values = {1, 2}
  Offsets = {0, 1, 5}
  Lengths = {1, 3}
  Sizes = {0, 3}
  Capacities = {0, 3, 6, 12}
  ForeignSizes = {0, 2}
  MaxNonce = 2
  ReuseDirty = FALSE
  MaxReleased = 0
INVARIANTS TypeOK ImagesSound 
PROPERTIES  FailedWriteHarmless HeaderKept StreamSpec

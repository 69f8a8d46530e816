SPECIFICATION Spec
CONSTANTS
  N = 4
  Names = {a, b}
  MaxStretch = 2
INVARIANTS TypeOK NoCrossLink ChainMatchesSize EveryClusterOwned FreeCountExact FreeNeverUnderstated
PROPERTIES FullOnlyWhenFull

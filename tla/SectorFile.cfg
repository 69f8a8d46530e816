SPECIFICATION Spec
CONSTANTS
  Blocks = 2
  Values = {1, 2}
  Cuts = {3}
  MaxNonce = 2
  MaxRequests = 3
  MaxFaults = 1
  MaxCrashes = 1
INVARIANTS TypeOK WriteTearsOneBlock HeaderSurvivesWrite
PROPERTIES DurableWhenAnswered GrowthLinkedFirst
CHECK_DEADLOCK FALSE

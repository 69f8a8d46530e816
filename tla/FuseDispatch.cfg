SPECIFICATION Spec
CONSTANTS
  Threads = {t1, t2, t3}
  NoThread = NoThread
  Requests = {"rename2", "utimens", "mkdir"}
  MaxRequests = 2
INVARIANTS TypeOK WindowStable HeldInsideHandler
PROPERTIES AnsweredUnlessLeaked
CHECK_DEADLOCK FALSE

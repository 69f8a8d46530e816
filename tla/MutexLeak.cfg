SPECIFICATION Spec
CONSTANTS
  Threads = {t1, t2}
  NoThread = NoThread
  Requests = {"read", "mkdir"}
  MaxRequests = 1
PROPERTIES EveryRequestAnswered
CHECK_DEADLOCK FALSE

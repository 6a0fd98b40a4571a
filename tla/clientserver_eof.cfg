CONSTANTS
  t1 = t1
  t2 = t2
  NoThread = NoThread
  Threads <- MCThreads
  IteratorIds <- MCIteratorIds
  MaxConnectionCount = 1
  MaxConnections = 2
  MaxRequests = 3
SPECIFICATION Spec
INVARIANTS
  SuccessIsReal
CHECK_DEADLOCK FALSE

CONSTANTS
  t1 = t1
  t2 = t2
  t3 = t3
  t4 = t4
  Threads <- MCThreads
  MaxNested = 2
  CacheSize = 2
  AiMaxResults = 6
  AqMaxResults = 4
  c1 = c1
  c2 = c2
  c3 = c3
  l1 = l1
  Commands <- MCCommands
  SyncLists <- MCSyncLists
  MaxTimers = 6
SPECIFICATION MCSpec
INVARIANTS
  CountersExact
  MutualExclusion
  NoLostWakeup
  CacheExact
  SignalsExact
  NoLostTimer
  WritesInOrder
PROPERTIES
  WritersFirst
  Progress
  NextReturns
  EndReleasesParent
  FinishedEmitted
  NoWriteUnderIterator
  EveryCommandAnswered
CHECK_DEADLOCK FALSE

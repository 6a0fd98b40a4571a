CONSTANTS
  t1 = t1
  t2 = t2
  t3 = t3
  s1 = s1
  s2 = s2
  i1 = i1
  i2 = i2
  NoThread = NoThread
  NoIterator = NoIterator
  Closed = Closed
  Threads <- MCThreads
  Statements <- MCStatements
  Iterators <- MCIterators
  Modes <- BothModes
SPECIFICATION Spec
SYMMETRY Symmetry
INVARIANTS
  NoDanglingModel
PROPERTIES
  LockContract
  IsThreadSafe

CONSTANTS
  CacheSize = 2
  AiMaxResults = 6
SPECIFICATION AiSpec
INVARIANTS
  EndIsTheEnd
CHECK_DEADLOCK FALSE

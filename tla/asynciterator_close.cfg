CONSTANTS
  CacheSize = 2
  AiMaxResults = 6
SPECIFICATION AiSpec
PROPERTIES
  CloseReleasesParent
CHECK_DEADLOCK FALSE

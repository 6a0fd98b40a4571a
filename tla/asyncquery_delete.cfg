CONSTANT AqMaxResults = 4
SPECIFICATION AqSpec
PROPERTY
  DeleteReturns
CHECK_DEADLOCK FALSE

CONSTANTS
  Apps = {"a1", "a2"}
  MaxServers = 2
  OdThreads = {"main", "worker"}
  Destroyer = "main"
  MaxResults = 3
  VmStatements <- MCVmStatements
  VmTemplates <- MCVmTemplates
  VmWantedIndexes <- MCVmWantedIndexes
  RdThreads = {"t1", "t2"}
  RdStatements <- MCRdStatements
  RdTemplates <- MCRdTemplates
  MaxOpen = 1
  MaxCopies = 2
  RiMaxElements = 3
  SeThreads = {"t1", "t2"}
  SeStatements <- MCSeStatements
  SeTemplates <- MCSeTemplates
  SubTagSize <- MCSizes
  Letters <- MCLetters
  LtTags <- MCLtTags
  LtRanges <- MCLtRanges
  LtChoices <- MCLtChoices
  LtPriorities <- MCLtPriorities
  IntBits = 3
  LongBits = 4
  DayHours = 4
  DoubleDigits = 8
  VaTexts <- MCVaTexts
  QtKinds <- MCQtKinds
  MaxObjects = 4
  MaxHeld = 3
  SrTables <- MCSrTables
  SrOthers <- MCSrOthers
  SrUnfit <- MCSrUnfit
  SpContents <- MCSpContents
  SpStatements <- MCSpStatements
  SpTemplates <- MCSpTemplates
  MaxRequests = 3
  MaxNested = 2
  Byte = 128
  WiValues <- MCWiValues
  WiModels = {1, 2}
  WiRequests = 2
  MpConnections = {"c1", "c2"}
  MpNames = {"n1", "n2"}
  MpRemoved = {"n1"}
  MpIdNumbers = {0, 1, 2}
  MpMaxModels = 3
  RfThreads = {"t1", "t2"}
  RfGraphs <- MCRfGraphs
  RfLines <- MCRfLines
  RfDocuments <- MCRfDocuments
  RfMaxCalls = 2
SPECIFICATION EdgesSpec
PROPERTY SuccessIsRemoval
CHECK_DEADLOCK FALSE

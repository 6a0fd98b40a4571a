CONSTANTS
  Rules <- MCRules
  UserAdds <- MCUserAdds
  UserRemoves <- MCUserRemoves
  MayFail = TRUE
  Threads = {t1, t2}
  FmMaxCalls = 3
  FmStatements <- MCFmStatements
  NrlAdds <- MCNrlAdds
  NrlGraphs <- MCNrlGraphs
  Restrictions <- MCRestrictions
  StoredPrefixes = {"nfo"}
  QueryPrefix = "nfo"
  IxStatements <- MCIxStatements
  ForceIndex = {}
  IndexOnly <- MCIndexOnly
  CacheSizes = {1, 2}
  Handles = {h1, h2}
  ItStatements <- MCItStatements
  ItTemplates <- MCItTemplates
  MaxBackends = 2
  RuleFiles <- MCRuleFiles
  DbClients = {"p1", "p2"}
  DbNames = {"a.", "a_"}
  DbServerCalls <- MCDbCalls
  NormalizedName <- MCDbPaths
  DbLeavers = {"p1"}
  DbImpatient = {"p2"}
  DbMaxCalls = 5
  PlWorlds <- MCPlWorlds
  PlPaths <- MCPlPaths
  PlNames <- MCPlNames
  PlLibraries <- MCPlLibraries
  PlMaxCalls = 3
  CmLines <- MCCmLines
  CmContents <- MCCmContents
  CmFile <- MCCmFile
  CmPrefixes <- MCCmPrefixes
  CmSignals <- MCCmSignals
SPECIFICATION StoreSpec
INVARIANTS InferenceExact FiltersTransparent NrlKept IndexAgrees HandlesShare RulesAsWritten BusAnswersOwn PluginsFound CommandsExact
CONSTRAINT NoInferenceError
CHECK_DEADLOCK FALSE

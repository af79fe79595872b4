SPECIFICATION Spec
CONSTANTS
  GeoEntries <- MCGeoEntries
  TagOf <- MCTagOf
  NewIds <- MCNewIds
  MaxImport = 2
  Ports <- MCPorts
  RuleInputs <- MCRuleInputs
  EditKeys = {"socksPort", "httpPort", "allowLan", "userAgent"}
  Scenarios <- MCScenarios
CHECK_DEADLOCK FALSE
INVARIANTS TypeOK SafetyKept SavedBuilds RouteFollowsModel PagesConverge ToastTells
PROPERTIES EditsKept

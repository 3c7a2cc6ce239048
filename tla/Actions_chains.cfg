CONSTANTS
  c1 = c1  c2 = c2
  None = None
  Clients = {c1, c2}
  Scenarios <- MCScenarios
  SurveyNodes = 3
  SurveyRoles = {"button", "form", "generic", "dialog", "navigation", "StaticText"}
  retryAttempts = 3
  frameMaxRetries = 2
  MaxMoves = 2
SPECIFICATION FairSpec
CHECK_DEADLOCK FALSE
INVARIANTS
  InteractiveReachable
  
  RefsMeanWhatWasPrinted
  FilledTogether
  ClicksTruthful
  DstWhole
PROPERTIES ActionsEnd

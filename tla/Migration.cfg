SPECIFICATION Spec
CONSTANTS
  Attempts = 2
  MaxLost = 1
  Pings = 2
  Refused = {"getCodeReq", "notify", "childNode", "suspend", "migReq", "state"}
CHECK_DEADLOCK FALSE
INVARIANTS TypeOK AgentSurvives OneRuns StillWhileMoved RelativesAgree
PROPERTIES MigrationEnds RunsAgain

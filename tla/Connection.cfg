SPECIFICATION FairSpec
CONSTANTS
  MaxConn = 2
  MaxUpd = 2
  MaxCred = 1
  MaxQueue = 2
  MaxWire = 1
  MaxIntents = 1
INVARIANTS
  TypeOK
  NoSurvivors
  FlagMeansUpdating
PROPERTIES
  DisconnectReturns
  FirstConnectionRegisters
CHECK_DEADLOCK FALSE

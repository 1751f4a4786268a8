SPECIFICATION Spec
CONSTANTS
  MaxConn = 2
  MaxUpd = 2
  MaxCred = 2
  MaxQueue = 2
  MaxWire = 1
  MaxIntents = 1
INVARIANT DisconnectKills
CHECK_DEADLOCK FALSE

SPECIFICATION FairSpec
CONSTANTS
  Chunks = 2
  AgentIds = {21, 22}
  MaxListeners = 3
  MaxMishaps = 1
INVARIANTS
  TypeOK
  UploadsInOrder
  LoaderAgrees
PROPERTIES
  OperationsEnd
CHECK_DEADLOCK FALSE

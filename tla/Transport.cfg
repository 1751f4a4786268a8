SPECIFICATION Spec
CONSTANTS
  a = a
  b = b
  Nodes <- MCNodes
  Fragments <- MCFragments
  CountA = 2
  CountB = 0
  Large = {2}
  Window = 3
  SeqMod = 7
  Resends = 1
  StartSeqs = {0, 5}
  ChannelBound = 3
  MaxExpiries = 1
CHECK_DEADLOCK FALSE
INVARIANTS TypeOK WindowConsistent PendingInFlight AcksBehindReceipt
PROPERTIES ImplementsLink Resolved

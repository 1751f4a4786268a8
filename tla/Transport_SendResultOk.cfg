SPECIFICATION Spec
CONSTANTS
  a = a
  b = b
  Nodes <- MCNodes
  Fragments <- MCFragments
  CountA = 2
  CountB = 0
  Large = {2}
  Window = 3
  SeqMod = 7
  Resends = 1
  StartSeqs = {5}
  ChannelBound = 3
  MaxExpiries = 0
CHECK_DEADLOCK FALSE
INVARIANT SendResultOk

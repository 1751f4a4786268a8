SPECIFICATION FairSpec
CONSTANTS
  NUM_TIMERS = 2
  Word = 8
  OneShots = {0, 1, 2}
  Periods = {1, 2}
  MaxLag = 2
  MaxNow = 11
  MaxOps = 4
INVARIANTS
  TypeOK
  LookedAfter
PROPERTIES
  NeverEarly
  EventuallyFires
CHECK_DEADLOCK FALSE

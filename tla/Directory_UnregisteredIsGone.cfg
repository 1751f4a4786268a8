SPECIFICATION Spec
CONSTANTS
  c1 = c1
  c2 = c2
  c3 = c3
  Conn = {c1, c2, c3}
  Seed = {7}
  Loc <- MCLoc
  LocSpec <- MCLocSpec
  Dst <- MCDst
  ByteMod = 4
  Parts = 2
  OutCap = 2
  TIME_THRESHOLD = 1
  MaxTime = 2
  MaxReg = 2
SYMMETRY Symmetry
INVARIANT UnregisteredIsGone
CHECK_DEADLOCK FALSE

CONSTANTS
  MprNeighbors = {1, 2, 3}
  TwoHop = {x}
  WILL_NEVER = 0
  WILL_ALWAYS = 3
  mpr_coverage = 1
  Asymmetric = {}
  Willings = {0, 1, 2, 3}
  OldRelays = {{}}
SPECIFICATION MprSpec
INVARIANTS
  Covered
CHECK_DEADLOCK FALSE

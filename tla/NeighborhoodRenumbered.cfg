SPECIFICATION MCSpec
CONSTANTS
  x1 = x1
  x2 = x2
  b1 = b1
  t1 = t1
  t2 = t2
  Entries = {1, 2, 3}
  VTIME = 2
  HOLD = 1
  HTIME = 1
  SEQ_LIMIT = 3
  SEQ_SPACE = 8
  Setups <- MCRenumbered
  Hellos <- MCHellos
  Mids <- MCMids
  Hysteresis <- MCHysteresis
  LK_CONFIGS <- MCLkConfigs
  LK_WINDOW = 3
  LK_QUICKSTART = 1
  LK_SEQNOS = 5
  LK_JUMP = 3
  Parts = {"tables"}
INVARIANT
  NeighborExists

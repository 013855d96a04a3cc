CONSTANTS
  EGRESS <- MCEgress
  GWS <- MCGws
  CONFIGS <- MCConfigs
  COSTS = {1, 3}
  IFS <- MCIfs
  EMPTY_TC = 4
  HNA_VTIME = 2
  CNF <- MCCnf
SPECIFICATION MCSpec
INVARIANTS
  GatewaysSound
  EgressFollowed
  MessagesWhole

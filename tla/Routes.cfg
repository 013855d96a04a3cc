CONSTANTS
  \* SPF
  Nodes = {0, 1, 2, 3}
  tc_myself = 0
  NULL = NULL
  LINK_COST_BROKEN = 9
  ROUTE_COST_BROKEN = 100
  LinkCosts = {1, 3}
  MaxRuns = 2
  Databases <- MCDatabases
  EdgePairs <- OneWay
  \* relay selection
  MprNeighbors = {1, 2, 3}
  TwoHop = {x, y, 2}
  WILL_NEVER = 0
  WILL_ALWAYS = 3
  mpr_coverage = 2
  Asymmetric = {2}
  Willings = {0, 1, 3}
  OldRelays = {{2}}
  \* binary heap
  MaxNodes = 5
  Keys = {1, 2, 3}
  StarNodes = 12
  StarKeys = {1, 2}
  \* AVL tree
  AV_CONFIGS <- MCAvConfigs
SPECIFICATION MCSpec
INVARIANTS
  PathsCertified
  ShortestPaths
  RelaysSuffice
  StructuresSound
PROPERTIES
  ImplementsQueue

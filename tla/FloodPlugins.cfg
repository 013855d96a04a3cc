SPECIFICATION MCSpec
CONSTANTS
  na = na
  nb = nb
  nc = nc
  nd = nd
  BmfNodes = {na, nb, nc, nd}
  BmfNets <- MCNets
  BmfMprChoices <- MCMprChoices
  BMF_HOLD = 4
  BMF_DELAY = 1
  BMF_NONE = none
  BiKernel <- MCBiKernel
  BiFailing = {"w0"}
  BiLans = {"e0"}
  BI_FDS = 14
  BI_EVENTS = 2
  MdNets <- MCMdNets
  ENTRYTTL = 10
  HELLO_TIMER = 4
  ELECTION_TIMER = 3
  P2Nets <- MCP2Nets
  HISTORY_HOLD_TIME = 3
  P2pdDuplicateTimeout = 6
  P2_DELAY = 1
  LsSystem <- MCLsSystem
  LsNames = {"eth0", "eth1", "eth2"}
  LS_OTHER = 3
  MAX_NON_OLSR_IFS = 2
INVARIANTS
  BmfFloods
  BiSound
  MdElected
  P2Floods
  LsSound

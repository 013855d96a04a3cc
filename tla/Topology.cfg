CONSTANTS
  \* duplicate set
  HALF_TIME = 8
  DUP_HALF_SEQ = 6
  WINDOW = 4
  DUP_MAX_TOO_LOW = 2
  DUPLICATE_VTIME = 2
  StartTime = 0
  MaxClock = 6
  Originators = {o1}
  NoEntry = NoEntry
  \* link-state database
  Addrs = {a, b}
  Prefixes = {p}
  OwnPrefix = own
  NoEdge = NoEdge
  NoBorder = NoBorder
  HALF_SEQ = 4
  TC_SEQNO_WINDOW = 2
  TC_SEQNO_WINDOW_MULT = 1
  TC_ANSN_WINDOW = 2
  TC_ANSN_WINDOW_MULT = 1
  MAX_IGNORED = 1
  SentSeqnos = {0, 1, 2, 4}
  SentAnsns = {0, 1, 4}
  \* fragments of a TC
  BYTE_BITS = 2
  MaxNeighbours = 3
  Capacities = {1, 2}
SPECIFICATION MCSpec
INVARIANTS
  WindowExact
  DatabaseConsistent
  FragmentsTile
PROPERTIES
  MemoryKept

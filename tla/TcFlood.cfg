CONSTANTS
  Addrs = {r, s, x}
  Prefixes = {}
  OwnPrefix = own
  NoEdge = NoEdge
  NoBorder = NoBorder
  HALF_SEQ = 4
  TC_SEQNO_WINDOW = 2
  TC_SEQNO_WINDOW_MULT = 1
  TC_ANSN_WINDOW = 2
  TC_ANSN_WINDOW_MULT = 1
  MAX_IGNORED = 2
  MaxCopies = 2
  SentSeqnos = {}
  SentAnsns = {}
  Sender = s
  Receiver = r
  VTIME = 4
  MaxChanges = 2
  MaxRestarts = 1
SPECIFICATION FloodSpec
INVARIANTS
  FloodSafe
PROPERTIES
  StaleEdgesGo

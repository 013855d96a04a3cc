CONSTANTS
  HALF_TIME = 6
  SLOTS = 2
  Clients <- MCClients
  REL_TIME <- MCRelTime
  JITTER <- MCJitter
  Periodic = {"write_timer"}
  Callbacks <- MCCallbacks
  STEPS = {1, 3}
  THRESHOLD = 1
  IfNames = {"wlan", "eth"}
  Autodetect = {"eth"}
  Replugged = {"wlan"}
  Readdressed = {"eth"}
  BMF = TRUE
  ALLOW_NO_INTERFACES = TRUE
  MAX_QUEUE = 2
  MAX_LINKS = 1
  MAX_SOCKS = 4
  DM_CONFIGS <- MCDmConfigs
  DM_TRIES = 2
  MaxVersion = 2
SPECIFICATION MCSpec
INVARIANTS
  WheelSound
  InterfacesSound
  ChangesPending
  DmClean
PROPERTIES
  ServedInTime

SPECIFICATION MCSpec
CONSTANTS
  NsNets <- MCNsNets
  NsAligned = {"four", ""}
  NsPrefixes <- MCNsPrefixes
  NsIllFormed = {"bad name"}
  NAME_VALID_TIME = 3
  NS_WRITE_DELAY = 1
  PD_CONFIGS <- MCPudConfigs
  PI_CONFIGS <- MCPudIoConfigs
  PC_STATEMENTS <- MCPcStatements
  SEC_CONFIGS <- MCSecConfigs
  Vocabularies <- MCVoc
  TABLES_MAX = 300
  RULES_MAX = 33000
  EGRESS_MAX = 2
  IS_CONFIGS <- MCIsConfigs
  IS_WORDS <- MCIsWords
  IS_TABLES <- MCIsTables
  MAX_CLIENTS = 2
  IS_PIECES = 2
INVARIANTS
  NsSound
  PdSound
  PudIoSound
  SecRegistered
  CfFollowsFiles
  IsAnswers
PROPERTY
  PluginStepsSound

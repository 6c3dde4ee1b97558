SPECIFICATION TimedSpec
CONSTANTS
  Nodes = {"k", "n", "p", "q"}
  Provers = {"k"}
  Trunk <- OneBlock
  Quorum <- NoQuorum
  VOTE_LIFETIME_BY_HEIGHT = 60
  REORG_SAFETY_BUFFER_IN_BLOCKS = 20
  MIN_VOTES_TO_KICK_FULL_NODE = 7
  UPTIME_PROOF_FREQUENCY = 3600
  UPTIME_PROOF_BUFFER = 300
  UPTIME_PROOF_MAX_TIME = 7500
  MIN_LIFETIME = 7200
  HFVersion = 11
  Major <- MajorThree
  Finders <- NobodyMines
  MaxHeight = 1
  MaxReorg = 0
  MaxFaults = 1
  StartTime = 10000
  Period = 301
  MaxCut = 1800
  MaxTime = 20500

  
  
PROPERTIES
  RelayDiesOut
CHECK_DEADLOCK FALSE

SPECIFICATION FairVoteSpec
CONSTANTS
  Nodes = {"a", "b"}
  Trunk <- FourBlocks
  Quorum <- SplitQuorum
  VOTE_LIFETIME_BY_HEIGHT = 5
  REORG_SAFETY_BUFFER_IN_BLOCKS = 1
  MIN_VOTES_TO_KICK_FULL_NODE = 2
  UPTIME_PROOF_FREQUENCY = 3600
  UPTIME_PROOF_BUFFER = 300
  UPTIME_PROOF_MAX_TIME = 7500
  MIN_LIFETIME = 0
  HFVersion = 11
  Major <- MajorThree
  Finders <- TwoThenOne
  MaxHeight = 8
  MaxReorg = 2
  MaxFaults = 1
  StartTime = 10000
INVARIANTS
  KicksJustified
  KickedOnce
  PoolVotesHold
PROPERTIES
  VotesSpread
CHECK_DEADLOCK FALSE

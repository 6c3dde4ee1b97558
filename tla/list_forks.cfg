\* The chain starts before version 9 and goes through versions 10 and 11; the
\* blocks before version 9 are behind a checkpoint.
SPECIFICATION Spec
CONSTANTS
  n1 = n1  n2 = n2  n3 = n3  a1 = a1  a2 = a2  t1 = t1  t2 = t2  t3 = t3  t4 = t4
  None = None
  Nodes = {n1, n2}
  Addresses = {a1, a2}
  TxIds = {t1, t2, t3, t4}
  SwarmIds = {0, 1}
  Hashes = {0}
  Txs <- TwoNodeTxs
  HardForkVersion <- RisingVersion
  Shuffle <- SortedShuffle
  SwarmOutcomes <- OneSwarm
  HF9_HEIGHT = 2
  UINT64 = 16
  STAKING_PORTIONS = 12
  STAKING_REQUIREMENT = 4
  UINT32_MAX = 99
  LOCK_BLOCKS = 1
  LOCK_BLOCKS_EXCESS = 1
  ROLLBACK_EVENT_EXPIRATION_BLOCKS = 2
  QUORUM_SIZE = 1
  QUORUM_LIFETIME = 4
  MIN_VOTES_TO_KICK_FULL_NODE = 1
  NTH_OF_THE_NETWORK_TO_TEST = 2
  MIN_NODES_TO_TEST = 1
  DEREGISTER_LIFETIME_BY_HEIGHT = 2
  CHECKPOINT = 1
  MaxHeight = 6
  MaxTxsPerBlock = 1
  MaxEvents = 10
  MaxCrashes = 0
INVARIANTS
  ListAtBlockHeight
  
CHECK_DEADLOCK FALSE

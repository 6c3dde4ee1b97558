\* Two branches above a hard fork, a double spend, a release that adds a fork, a checkpoint.
SPECIFICATION Spec
CONSTANTS
  None = None
  BlockIds = {"G", "X1", "X2", "A3", "A4", "B3", "B4", "C4"}
  Block <- TreeBlock
  Genesis = "G"
  Synced <- TreeSynced
  WalletTxs = {1, 5}
  TxIds = {1, 2, 3, 4, 5}
  Tx <- TreeTx
  Versions = {1, 7, 8, 9}
  Releases <- TreeReleases
  Checkpoints <- TreeCheckpoints
  window_size = 3
  UINT32 = 8
  COINBASE_UNLOCK = 1
  DEREGISTER_LIFETIME_BY_HEIGHT = 3
  m_txpool_max_weight = 5
  MIN_BLOCK_WEIGHT = 4
  COINBASE_RESERVED = 1
  MIN_FEE = 1
  TX_LIVETIME = 0
  ALT_BLOCK_LIVETIME = 1
  NON_STANDARD_LIFETIME = 0
  MAX_TOTAL_WEIGHT = 4
  BaseReward <- FlatReward
  MaxTime = 2
  MaxEvents = 7
INVARIANTS
  ChainValid
  HardForkIsRecount
  PoolIndexed
  PoolLoads
  InputCacheFresh
  TemplateConnects
  InvalidBlocksAreInvalid
PROPERTIES
  PoppedTxsReturn
  ImplementsForkChoice
CHECK_DEADLOCK FALSE

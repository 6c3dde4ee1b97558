\* Two branches that part at the first block of a new version.
SPECIFICATION Spec
CONSTANTS
  None = None
  BlockIds = {"G", "X1", "A2", "B2", "B3"}
  Block <- BoundaryBlock
  Genesis = "G"
  Synced <- BoundarySynced
  WalletTxs = {}
  TxIds = {}
  Tx <- NoTx
  Versions = {1, 7, 8, 9}
  Releases <- BoundaryReleases
  Checkpoints <- NoCheckpoints
  window_size = 3
  UINT32 = 8
  COINBASE_UNLOCK = 1
  DEREGISTER_LIFETIME_BY_HEIGHT = 3
  m_txpool_max_weight = 5
  MIN_BLOCK_WEIGHT = 4
  COINBASE_RESERVED = 1
  MIN_FEE = 1
  TX_LIVETIME = 0
  ALT_BLOCK_LIVETIME = 1
  NON_STANDARD_LIFETIME = 0
  MAX_TOTAL_WEIGHT = 4
  BaseReward <- FlatReward
  MaxTime = 2
  MaxEvents = 7
INVARIANTS
  InvalidBlocksAreInvalid
CHECK_DEADLOCK FALSE

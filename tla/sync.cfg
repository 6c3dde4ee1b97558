SPECIFICATION FairSpec
CONSTANTS
    Good = good
    Other = other
    Peers = {good, other}
    ChainOf <- OneBadPeer
    Height <- BlockHeight
    Parent <- BlockParent
    Invalid <- InvalidBlocks
    SYNC_SIZE = 1
    BLOCKS_IDS_SYNCHRONIZING_DEFAULT_COUNT = 3
    BLOCK_QUEUE_NSPANS_THRESHOLD = 1
    BLOCK_QUEUE_FORCE_DOWNLOAD_NEAR_BLOCKS = 2
    NoHash = none
    MaxFaults = 1
    MaxCallbacks = 1
CHECK_DEADLOCK FALSE
INVARIANTS
    RequestsAreQueued
    HaveIsDownloaded
    ScheduledAreAsked
PROPERTIES
    OnlyTheCulpritIsBlamed
    SynchronizedMeansCaughtUp
    SyncsOrStalls

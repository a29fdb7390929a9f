SPECIFICATION FairSpec
CONSTANTS
    SuspiciousThreshold = 3
    SovereignThreshold = 5
    DAThreshold = 2
    MinAnchorPeers = 1
    HysteresisWait = 1
    DownHysteresisThreshold = 2
    MaxDownHysteresisThreshold = 4
    SuspiciousHysteresisWait = 1
    MaxSuspiciousTime = 2
    MaxUnprovenTailBlocks = 2
    MaxIgnoreRounds = 0
    MaxSuspiciousForcedTxQueue = 1
    KDeepFinality = 1
    MaxCensorshipRounds = 1
    w = w
    Withdrawals <- MCWithdrawals
    Mempool <- MCMempool
    MaxHeight = 5
    MaxBtc = 4
    MaxOutages = 2
PROPERTIES
    SovereignKeepsDeciding
    DecidesWhileDAIsUp
CHECK_DEADLOCK FALSE

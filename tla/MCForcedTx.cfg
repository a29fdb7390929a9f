SPECIFICATION FairSpec
CONSTANTS
    SuspiciousThreshold = 3
    SovereignThreshold = 4
    DAThreshold = 2
    MinAnchorPeers = 1
    HysteresisWait = 1
    DownHysteresisThreshold = 1
    MaxDownHysteresisThreshold = 1
    SuspiciousHysteresisWait = 1
    MaxSuspiciousTime = 2
    MaxUnprovenTailBlocks = 2
    MaxIgnoreRounds = 1
    MaxSuspiciousForcedTxQueue = 1
    KDeepFinality = 1
    MaxCensorshipRounds = 2
    a = a
    w = w
    Txs <- MCTxs
    Withdrawals <- MCWithdrawals
    ProposerCount = 2
    Omitters = {0}
    MaxHeight = 5
PROPERTIES
    NoBlockIsCensoring
    HatchOnlyForUncommittable
    CensorshipNeverHalts
CHECK_DEADLOCK FALSE

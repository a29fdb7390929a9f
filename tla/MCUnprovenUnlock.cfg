SPECIFICATION FairSpec
CONSTANTS
    SuspiciousThreshold = 3
    SovereignThreshold = 4
    DAThreshold = 2
    MinAnchorPeers = 1
    HysteresisWait = 1
    DownHysteresisThreshold = 2
    MaxDownHysteresisThreshold = 2
    SuspiciousHysteresisWait = 1
    MaxSuspiciousTime = 2
    MaxUnprovenTailBlocks = 5
    MaxIgnoreRounds = 0
    MaxSuspiciousForcedTxQueue = 1
    KDeepFinality = 1
    MaxCensorshipRounds = 1
    Withdrawals = {}
    NMax = 2
    BtcTip = 2
    MaxHeight = 9
    MaxRound = 0
    MaxTxs = 1
PROPERTIES
    UnlockNeedsProofOfInterval
CHECK_DEADLOCK FALSE

SPECIFICATION Spec
CONSTANTS
    SuspiciousThreshold = 3
    SovereignThreshold = 4
    DAThreshold = 1
    MinAnchorPeers = 1
    HysteresisWait = 0
    DownHysteresisThreshold = 2
    MaxDownHysteresisThreshold = 2
    SuspiciousHysteresisWait = 1
    MaxSuspiciousTime = 2
    MaxUnprovenTailBlocks = 2
    MaxIgnoreRounds = 0
    MaxSuspiciousForcedTxQueue = 1
    KDeepFinality = 1
    MaxCensorshipRounds = 1
    Validators = {v1, v2, v3, v4}
    w = w
    Withdrawals <- MCWithdrawals
    Mempools <- MCMempools
    MaxHeight = 3
    MaxBtc = 3
    MaxRound = 1
    MaxReorg = 2
    MaxLag = 1
SYMMETRY Symmetry

    
PROPERTIES
    SensorsProposeConsensusDecides
    SettledHeightsMonotone
    
CHECK_DEADLOCK FALSE

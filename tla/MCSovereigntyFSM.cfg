SPECIFICATION FairSpec
CONSTANTS
    SuspiciousThreshold = 4
    SovereignThreshold = 6
    DAThreshold = 3
    MinAnchorPeers = 1
    HysteresisWait = 2
    DownHysteresisThreshold = 2
    MaxDownHysteresisThreshold = 5
    SuspiciousHysteresisWait = 2
    MaxSuspiciousTime = 5
    Readings <- MCReadings
    Width = 5
    MaxAttempts = 7
INVARIANTS
    CountersBelongToState
    GrayFailureBounded
    AbsorbedNoiseBounded
    AttemptsSaturate
    CreditIsEarned
    LoopMatchesClosedForm
PROPERTIES
    DemotionNeedsStreak
    LockSpec
    LastingFailureIsSovereign
    LastingHealthAnchors

SPECIFICATION Spec
CONSTANTS
    Trackers = {n1, n2}
    KDeepFinality = 2
    MaxTip = 9
    n1 = n1
    n2 = n2
INVARIANTS
    OwnCheckpointVerifies

    

SPECIFICATION FairSpec
CONSTANTS
    MaxPendingBlocks = 2
    MaxHeight = 6
INVARIANTS
    OneBlobAtATime
    
PROPERTIES
    PublishesInTheEnd

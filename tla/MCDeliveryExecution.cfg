SPECIFICATION FairSpec
CONSTANTS
    NumReplicas = 2
    Followed <- MCFollowed
    MaxOpen = 2
    b1 = b1
    b2 = b2
    b3 = b3
    Batch <- MCTwoBatches
CHECK_DEADLOCK FALSE
PROPERTIES
    EveryOrderedBatchIsDelivered

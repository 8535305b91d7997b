SPECIFICATION FairSpec
CONSTANTS
    NumReplicas = 3
    Followed <- MCFollowed
    MaxOpen = 2
    b1 = b1
    b2 = b2
    b3 = b3
    Batch <- MCThreeBatches
CHECK_DEADLOCK FALSE
INVARIANTS
    TypeOK
    SubmittedOnce
    OrderedBatchIsReplicated
    DeliveredInLogOrder
PROPERTIES
    LaterBatchesAreDelivered

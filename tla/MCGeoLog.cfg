SPECIFICATION FairSpec
CONSTANTS
    Replica = {0, 3}
    Type = {1, 2}
    Period = 2
    b1 = b1
    b2 = b2
    b3 = b3
    Batch <- MCBatch
    Home <- MCHome
    Involved <- MCInvolved
CHECK_DEADLOCK FALSE
INVARIANTS
    TypeOK
    OneOrderPerHome
    MultiReplicaOrder
    OneToken
    SynchronizedBeforeLogged
PROPERTIES
    EveryBatchIsOrdered

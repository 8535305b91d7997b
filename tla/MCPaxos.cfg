SPECIFICATION FairSpec
CONSTANTS
    NumParticipants = 3
    b1 = b1
    b2 = b2
    b3 = b3
    Batch <- MCBatch
CHECK_DEADLOCK FALSE
INVARIANTS
    TypeOK
    OrderHeldByQuorum
PROPERTIES
    EveryBatchIsLogged
    ImplementsOrderedLog

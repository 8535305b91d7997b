SPECIFICATION FairSpec
CONSTANTS
    NumReplicas = 2
    NodesPerReplica = 2
    a = a
    b = b
    c = c
    Key <- MCKey
    Partition <- MCPartition
    KeySets <- MCKeySets
    MaxBatchSize = 1
    MaxTxn = 2
CHECK_DEADLOCK FALSE
INVARIANTS
    LookupsMatch
    OnePlace
PROPERTIES
    EveryTxnIsBatched

SPECIFICATION FairSpec
CONSTANTS
    NumTxns = 3
    k1 = k1
    k2 = k2
    r1 = r1
    r2 = r2
    Key <- MCKey
    Replica <- MCReplica
    Mode = 2
    LocalKeys <- MCKey
    Origin <- MCOrigin
    Master <- MCMaster
CHECK_DEADLOCK FALSE
INVARIANTS
    TypeOK
    MutualExclusion
    LockOrderIsExecutionOrder
    WaitsMatchTable
    ReadyOnce
PROPERTIES
    EveryTxnFinishes
    ImplementsConflictOrder

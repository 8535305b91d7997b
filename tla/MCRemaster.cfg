SPECIFICATION FairSpec
CONSTANTS
    a = a
    b = b
    Replica <- MCReplica
    Key <- MCTwoKeys
    InitialMaster <- MCMaster
    MaxTxns = 3
    MaxRemasters = 1
    Requests <- MCTwoKeyRequests
CHECK_DEADLOCK FALSE
INVARIANTS
    
    
    
    NoLostWakeup

    

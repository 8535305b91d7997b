SPECIFICATION Spec
CONSTANTS
    a = a
    b = b
    Replica <- MCReplica
    Key <- MCOneKey
    InitialMaster <- MCMaster
    MaxTxns = 3
    MaxRemasters = 2
    Requests <- MCAnyRequests
CHECK_DEADLOCK FALSE
INVARIANT ReplicasAgree

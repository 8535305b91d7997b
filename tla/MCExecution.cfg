SPECIFICATION FairSpec
CONSTANTS
    NumTxns = 3
    Machine = {0, 1}
    Replica = {0, 1}
    a = a
    b = b
    c = c
    d = d
    Key <- MCKey
    Partition <- MCPartition
    Master <- MCMaster
    Shapes <- MCShapes
CHECK_DEADLOCK FALSE
INVARIANTS
    SerialExecution
    
PROPERTIES
    EveryTxnReleased

SPECIFICATION FairSpec
CONSTANTS
    NumMachines = 2
    Sender = 0
    MaxTxn = 2
    Sync = Sync
    Work = Work
    Main = Main
CHECK_DEADLOCK FALSE
INVARIANTS
    TypeOK
    EachOnceInOrder
    ResultsMeetTheirTxn
    StartTogether
PROPERTIES
    AllStartAndEnd

SPECIFICATION Spec
CONSTANTS
    p1 = p1
    p2 = p2
    q1 = q1
    q2 = q2
    NoOne = NoOne
    Nothing = Nothing
    Pusher <- MCPusher
    Popper <- MCPopper
    InitialSize = 2
    NumItems = 5
INVARIANT NoTornItem
PROPERTY ImplementsFifoQueue

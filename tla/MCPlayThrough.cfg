SPECIFICATION MCSpec
CONSTANTS
    in = in
    o1 = o1
    o2 = o2
    Input <- in
    Output <- Outputs
    w1 = w1
    Waiter <- Waiters
    Environment <- Environments
CHECK_DEADLOCK FALSE
INVARIANTS
    PlayingIsCalled
    CallsFindTheirs
PROPERTIES
    OperationsEnd

CONSTANTS
    Conn <- ThreeConnections
    None = none
    Direct = direct
    MaxEvents = 3
SPECIFICATION FairHelperSpec
INVARIANTS
    CallGetsThrough
PROPERTIES
    DefaultGivenBack
    Reconnects
CHECK_DEADLOCK FALSE

CONSTANTS
    inputIOProc = inputIOProc
    outputIOProc = outputIOProc
    Caller = {inputIOProc, outputIOProc}
    Plain = {1, 2}
    Last = 3
    CallersOf <- Threads
    MaxCalls = 4
    Capacity = 4
    Slots = 2
    Tries = 2
    MaxTime = 8
    MaxStores = 3
    InFrames = 2
    OutFrames = 2
    MaxJumps = 1
    Rate = {5, 7}
    PeriodTicks <- RateTicks
    Parts = 3
    PeriodFrames = 2
    MaxNow = 12
    MaxClients = 2
SPECIFICATION MCSpec
CHECK_DEADLOCK FALSE
INVARIANTS
    WholeMessages
    FramesHeld
    HeadInBuffer
    ClockKeepsTime
PROPERTIES
    MessagesLogged

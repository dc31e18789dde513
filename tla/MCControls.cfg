CONSTANTS
    volume = volume
    mute = mute
    d1 = d1
    d2 = d2
    Control <- Controls2
    OutputDevice <- Devices2
    Has <- HasMuteOnly
    MayAbort = TRUE
    MaxChanges = 2
    MaxOthers = 2
SPECIFICATION FairControlsSpec
CHECK_DEADLOCK FALSE
PROPERTIES
    NullStaysWhileDefault
    NullDeviceHiddenAgain
    ControlsFollowOutput
    ValuesConverge

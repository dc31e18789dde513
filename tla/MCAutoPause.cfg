CONSTANTS
    MinChanged = 2
    MaxNotifications = 1
    MaxUser = 1
    DelayPairs <- AllDelays
SPECIFICATION FairSpec
INVARIANTS
    UnpausesOnlyWhatItPaused
PROPERTIES
    StateFollowsSound
    MusicYields

SPECIFICATION FairSpec
CONSTANTS
    Device = {d1, d2}
    MaxEvents = 5
PROPERTY OutputConnected
PROPERTY FollowsPreference
PROPERTY ChoiceRemembered
CHECK_DEADLOCK FALSE

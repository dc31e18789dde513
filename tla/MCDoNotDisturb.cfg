CONSTANTS
    App = {a1, a2}
    Volume = {min, mid, low}
    Min = min
    Default = mid
    None = none
    MaxEvents = 8
SPECIFICATION DNDSpec
SYMMETRY Symmetry
CHECK_DEADLOCK FALSE
INVARIANTS
    VolumesAsSwitched

CONSTANTS
    App = {a1, a2}
    Device = {d1, d2}
    Unpluggable = {d1, d2}
    Restarts = TRUE
    MaxEvents = 4
    NoJob = NoJob
SPECIFICATION FairSpec
CHECK_DEADLOCK FALSE
INVARIANTS
    NoSilentTap
PROPERTIES
    SettlesAsPersisted
    KeptOutputsPlayOn

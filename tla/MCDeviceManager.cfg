SPECIFICATION FairSpec
CONSTANTS
    Client = {c1}
    On <- OnMain
    App = app
    MaxNotices = 1
    Device = {o1, o2}
    None = None
    HelperWorks = TRUE
    MaxChanges = 2
    MaxFailures = 1
INVARIANTS
    Agreement
PROPERTIES
    FollowsUse
    StartIOReturns

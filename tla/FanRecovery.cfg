SPECIFICATION FairSpec
CONSTANTS
    Users = {u1}
    MaxWindows = 2
    MaxDisturbances = 3
INVARIANTS
    TogglesFromReading
    ActiveHasWorker
PROPERTIES
    WindowRecovers
    WorkersEnd
CHECK_DEADLOCK FALSE

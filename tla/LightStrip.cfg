SPECIFICATION FairSpec
CONSTANTS
    Patches = {p1, p2}
    Targets = {1}
    MaxFaults = 1
    MaxPresses = 1
INVARIANTS
    NoLateCommand
PROPERTIES
    ConfirmedWasReal
    SnapshotCatchesUp

SPECIFICATION FairSpec
CONSTANTS
    MaxFaults = 1
INVARIANTS LastRequestHolds
PROPERTIES HandOverSettles PauseIsRepaired

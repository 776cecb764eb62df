SPECIFICATION Spec
CONSTANTS
    MaxFaults = 0
INVARIANTS OutdoorKeepsRelease

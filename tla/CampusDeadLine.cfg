SPECIFICATION FairSpec
CONSTANTS
    Lines = {2}
    Addresses = {11, 12}
    MaxFaults = 0
    MaxChanges = 1
PROPERTY DeadLineLeft

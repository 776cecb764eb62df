SPECIFICATION FairSpec
CONSTANTS
    Lines = {2}
    Addresses = {11, 12}
    MaxFaults = 1
    MaxChanges = 1
INVARIANTS TypeOK NoBorrow
PROPERTIES LinesSettle PoliciesSettle

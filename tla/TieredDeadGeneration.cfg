SPECIFICATION FairSpec
CONSTANTS
    Cost <- PairCost
    Speeds = {100}
    FirstSpeeds = {100}
    Jitter = 0
    Margin = 50
    StreakCap = 2
    Bootstrap = 0
    Rounds = {daemon}
    MaxChanges = 1
    MaxFaults = 1
PROPERTY AlwaysSettles
CHECK_DEADLOCK FALSE

SPECIFICATION FairSpec
CONSTANTS
    Cost <- TierCost
    Speeds = {100, 200}
    FirstSpeeds <- FirstSpeed
    Jitter = 50
    Margin = 50
    StreakCap = 2
    Bootstrap = 0
    Rounds = {daemon, once}
    MaxChanges = 1
    MaxFaults = 1
INVARIANT TypeOK
PROPERTIES NoDetour SwitchIsEarned Settles
CHECK_DEADLOCK FALSE

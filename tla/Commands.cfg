SPECIFICATION FairSpec
CONSTANTS
    c1 = c1
    c2 = c2
    p1 = p1
    p2 = p2
    Callers <- TwoCallers
    Ports <- TwoPorts
    MaxTimeouts = 1
    MaxPresses = 1
    MaxDrops = 1
INVARIANTS
    NobodyForgotten
    AcknowledgedHolds
PROPERTIES
    SwitchesAreAtomic
    NoLateStart
    EveryOperationAnswered
    CacheConverges

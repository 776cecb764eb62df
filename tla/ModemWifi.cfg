SPECIFICATION FairSpec
CONSTANTS
    Crons = {j1, j2}
    Manuals = {m1}
    Requests = {r1}
    MaxSlots = 1
    MaxFaults = 2
    MaxHands = 1
INVARIANTS TypeOK CarriedOutOnce ConfirmedHolds DoneOnce
PROPERTY SlotSettles
CHECK_DEADLOCK FALSE

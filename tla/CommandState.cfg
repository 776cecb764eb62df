SPECIFICATION FairCommandSpec
CONSTANTS
    SlowEvery = 2
    SettingsEvery = 2
    MaxFields = 2
    MaxDisturbances = 1
INVARIANTS
    CommandTypeOK
    ModesExclusive
    AcceptedIsShown
PROPERTY
    ShownCatchesUp

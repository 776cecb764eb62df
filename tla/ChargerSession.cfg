SPECIFICATION SessionSpec
CONSTANTS
    W = 10
    QueueSize = 3
    MaxSaved = 2
    MaxCount = 2
    MaxUnread = 4
    MaxFrames = 22
    MaxLong = 2
INVARIANT
    EpochInSync
PROPERTY
    NewestLast

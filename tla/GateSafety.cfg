SPECIFICATION FairSpec
CONSTANTS
    c1 = c1
    c2 = c2
    l1 = l1
    s1 = s1
    Chargers = {c1, c2}
    Leases = {l1}
    Strips = {s1}
    NoProc = NoProc
    Lost = Lost
    InitialPorts = 2
    ScannerReports = FALSE
INVARIANTS GateSafety
PROPERTIES ImplementsFifoLock SnapshotBeforeOnline OnlyCancellationOrphans NobodyLeftWaiting

SPECIFICATION Spec
CONSTANTS
    c1 = c1
    l1 = l1
    s1 = s1
    Chargers = {c1}
    Leases = {l1}
    Strips = {s1}
    NoProc = NoProc
    Lost = Lost
    InitialPorts = 4
    ScannerReports = FALSE
INVARIANTS NoOrphanedGate

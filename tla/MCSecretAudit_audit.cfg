\* One browser, three variables in pages and batches of two, two scans.
SPECIFICATION AuditFairSpec
CONSTANTS
    Browsers = {c1}
    Vars = {1, 2, 3}
    Inventories = {{2}, {1, 2}, {2, 3}, {1, 2, 3}}
    Comma = {3}
    Shape <- MCShape
    NameMatches = {2}
    Targets = {"u1"}
    NoTarget = "none"
    Audits <- MCAudits
    PageSize = 1
    BatchSize = 2
    MaxVariables = 2
    MaxScans = 2
    MaxChanges = 1
INVARIANTS
    ValuesDropped
    ReportIsWhole
    CancelHitsItsScan
    
PROPERTIES
    ScanEnds

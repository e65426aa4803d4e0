\* Two requests race for the last slot while finished runs are evicted and
\* the program shuts down; no symmetry, because of the liveness properties.
SPECIFICATION FairSpec
CONSTANTS
    None = None
    list = list
    set = set
    delete = delete
    prune = prune
    cli = cli
    Tools = {cli}
    Risk <- MCRisk
    Scope <- MCScope
    ToolOf <- MCToolOf
    Clients = {c1, c2}
    RunIDs = {r1, r2, r3}
    ApprovalIDs = {}
    Commands = {list}
    Contexts = {}
    MaxActive = 2
    MaxRetained = 2
    MaxApprovals = 1
    ApprovalTTL = 1
    MaxTime = 0
INVARIANTS
    CapacityRespected
PROPERTIES
    RetentionOrdered
    RunsEnd

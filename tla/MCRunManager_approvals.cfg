\* Two requests race over two approvals of one destructive command, in a
\* vendor context that changes at any moment.
SPECIFICATION Spec
CONSTANTS
    None = None
    list = list
    set = set
    delete = delete
    prune = prune
    cli = cli
    Tools = {cli}
    Risk <- MCRisk
    Scope <- MCScope
    ToolOf <- MCToolOf
    Clients = {c1, c2}
    RunIDs = {r1, r2}
    ApprovalIDs = {a1, a2}
    Commands = {delete}
    Contexts = {k1, k2}
    MaxActive = 1
    MaxRetained = 1
    MaxApprovals = 1
    ApprovalTTL = 1
    MaxTime = 1
SYMMETRY Symmetry
INVARIANTS
    MutationsAnswered
    
PROPERTIES
    AuditFailureBlocks

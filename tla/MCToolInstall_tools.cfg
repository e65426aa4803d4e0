\* Two processes share the cache, one of them with two requests at a time.
SPECIFICATION Spec
CONSTANTS
    a = a
    b = b
    a1 = a1
    a2 = a2
    b1 = b1
    Procs = {a, b}
    Workers = {a1, a2, b1}
    ProcOf <- MCProcOf
    PathDirs = {"path"}
    FallbackDirs = {}
    Touched <- MCTouched
    AutoSetup = TRUE
    Zip = TRUE
    NoFile = NoFile
    MaxFiles = 2
    MaxStarts = 2
    MaxOutside = 1
SYMMETRY Requests
INVARIANTS
    PublishedTogether
    
    RestartFindsTool
CHECK_DEADLOCK FALSE

\* Two requests, a rewritten vendor file and a tool replaced and activated.
SPECIFICATION FairSpec
CONSTANTS
    Clients = {c1, c2}
    Tenants = {"t1", "t2"}
    Requests <- MCRequests
    Edits <- MCEdits
    Binaries = {b1, b2}
    EnvOverride = FALSE
    Interactive = TRUE
    Unreadable = Unreadable
    MaxEdits = 1

    
PROPERTIES
    NoBlindOverwrite
    SuccessIsTrue
    EveryoneServed

\* One pack file, edited while it is loaded, and one request against it.
SPECIFICATION PackSpec
CONSTANTS
    None = None
    Packs <- MCPacks
    Drafts <- MCDrafts
    Builtin <- MCBuiltin
    Names = {"t", "a"}
    Raw <- MCRaw
    Docs <- MCDocs
    MaxEdits = 2
INVARIANTS
    LoadedIsOneVersion
    
    PlanIsDeclared
    
CHECK_DEADLOCK FALSE

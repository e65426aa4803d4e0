\* Two first starts at once: no crash, no I/O error.
SPECIFICATION CalmSpec
CONSTANTS
    None = None
    Procs = {p1, p2}
    RunIDs = {r1, r2}
    Names = {n1}
    MaxEntries = 3
INVARIANT
    EmptyLockIsLegacy

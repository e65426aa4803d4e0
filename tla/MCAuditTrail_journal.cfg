\* Two processes: restarts, crashes, I/O faults, a full journal, quarantine.
SPECIFICATION Spec
CONSTANTS
    None = None
    Procs = {p1, p2}
    RunIDs = {r1, r2, r3, r4}
    Names = {n1, n2}
    MaxEntries = 3
SYMMETRY Symmetry
INVARIANTS
    FileUsable
    AckedIsDurable
PROPERTIES
    QuarantineKeepsEvidence
    JournalImplementsSink

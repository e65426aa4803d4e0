\* A page whose stale handlers compete with its reconnects for one slot.
SPECIFICATION FairSpec
CONSTANTS
    Viewers = {v1}
    MaxEvents = 3
    MaxStreams = 1
    MaxStreamFailures = 2
    Outcomes = {"exited", "cancelled"}
INVARIANTS
    ViewFaithful
    StreamServed
PROPERTIES
    FinishedViewStays
    PageSettles
\* A page whose run is over and that shows it has nothing left to do.
CHECK_DEADLOCK FALSE

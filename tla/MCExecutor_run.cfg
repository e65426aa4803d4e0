\* Two streams, a limit that one more block crosses; no symmetry (liveness).
SPECIFICATION FairSpec
CONSTANTS
    Streams = {out, err}
    MaxOutput = 2
    MaxPending = 2
INVARIANTS
    
    NothingLeftRunning
PROPERTIES
    RunReturns

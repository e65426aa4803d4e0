\* Two browsers, three pages, two starts.
SPECIFICATION FairSpec
CONSTANTS
    own = own
    other = other
    foreign = foreign
    a = a
    b = b
    Pages = {own, other, foreign}
    Own = {own, other}
    BrowserOf <- MCBrowserOf
    TTL = 1
    MaxTime = 1
    MaxStarts = 2
    MaxRuns = 1
INVARIANTS
    OneSession
    ChangesAreOwn
    ShutdownOrdered
PROPERTIES
    StopEnds
CHECK_DEADLOCK FALSE

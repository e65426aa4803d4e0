\* Two requests, two removals, one pending preview, an expiring clock, and
\* another writer before, between or after the steps of a removal.
SPECIFICATION Spec
CONSTANTS
    None = None
    Clients = {c1, c2}
    PreviewIDs = {p1, p2}
    RunIDs = {r1, r2}
    Addresses = {a1}
    Lineages = {l1}
    MaxPending = 1
    PreviewTTL = 1
    MaxTime = 1
    MaxWrites = 2
SYMMETRY Symmetry
INVARIANTS
    RemovalSafe
    OutcomeTruthful
    RequestsExclusive

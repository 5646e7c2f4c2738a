SPECIFICATION FairSpec
CONSTANTS
    d1 = d1
    d2 = d2
    c1 = c1
    n1 = n1
    n2 = n2
    Docs = {d1, d2}
    Crons = {c1}
    Issuers = {n1}
    WithTsa = {c1, n1}
    MaxLeaves = 2
    MaxBatches = 9
    MaxAborts = 1
    MaxTreeLeaves = 5
INVARIANTS
    TypeOK
    AnchoredIsTimestamped
    IssuedVerifies
    ProofsAreLists
    NoForgedProof
PROPERTIES
    EventuallyAnchored
CHECK_DEADLOCK FALSE

SPECIFICATION Spec
CONSTANTS
    d1 = d1
    d2 = d2
    c1 = c1
    n1 = n1
    n2 = n2
    Docs = {d1}
    Crons = {c1}
    Issuers = {}
    WithTsa = {c1}
    MaxLeaves = 2
    MaxBatches = 9
    MaxAborts = 0
    MaxTreeLeaves = 1
INVARIANT RemovedStaysRemoved
CHECK_DEADLOCK FALSE

SPECIFICATION Spec
CONSTANTS
    s1 = s1
    i1 = i1
    i2 = i2
    a1 = a1
    Scopes = {s1}
    Instances = {i1, i2}
    WithTsa = {i1, i2}
    Auditors = {a1}
    Unescaped <- MCUnescaped
    Contents = {}
    FaultKinds = {"delete newest"}
    MaxRows = 2
    MaxAborts = 0
    MaxFaults = 1
INVARIANTS
    NotBehindAnyAnchor
CHECK_DEADLOCK FALSE

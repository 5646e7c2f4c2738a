SPECIFICATION Spec
CONSTANTS
    s1 = s1
    i1 = i1
    i2 = i2
    a1 = a1
    Scopes = {s1}
    Instances = {i1}
    WithTsa = {i1}
    Auditors = {a1}
    Unescaped <- MCUnescaped
    Contents = {"event", "quoted"}
    FaultKinds = {"delete newest", "edit row", "rewrite", "restore", "edit checkpoint"}
    MaxRows = 2
    MaxAborts = 0
    MaxFaults = 2
INVARIANTS
    TypeOK
    AnchoredOkIsAuthentic
    NotBehindAnyAnchor
CHECK_DEADLOCK FALSE

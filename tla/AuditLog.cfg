SPECIFICATION FairSpec
CONSTANTS
    w1 = w1
    w2 = w2
    s1 = s1
    s2 = s2
    s3 = s3
    k1 = k1
    k2 = k2
    e1 = e1
    bad = bad
    Writers = {w1, w2}
    Scopes = {s1, s2, s3}
    Events = {e1, bad}
    Unserializable = {bad}
    LockKeys = {k1, k2}
    HashText <- MCHashText
    Unescaped <- MCUnescaped
    MaxCalls = 3
INVARIANTS
    TypeOK
    SeqNeverCollides
    ChainLinked
PROPERTIES
    EveryCallAnswered
    ImplementsLedger

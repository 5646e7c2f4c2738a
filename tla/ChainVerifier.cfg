SPECIFICATION FairSpec
CONSTANTS
    Unescaped <- MCUnescaped
    Scope = "GLOBAL"
    BatchSize = 2
    Histories <- MCHistories
    Events = {"d", "e"}
    MaxChanges = 2
INVARIANTS
    TypeOK
    VerdictOfSnapshot
    HeadHashCommitsHistory
PROPERTIES
    WalkEnds

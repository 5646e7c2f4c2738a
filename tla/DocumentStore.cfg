SPECIFICATION Spec
CONSTANTS
    c1 = c1
    c2 = c2
    t1 = t1
    t2 = t2
    n1 = n1
    n2 = n2
    g1 = g1
    g2 = g2
    Calls = {c1, c2}
    Tenants = {t1, t2}
    StoredNames = {n1, n2}
    Slugs = {g1, g2}
    Limited = {t1, t2}
    MaxVaults = 1
    InitialVaults <- DefaultVaults
    MaxCalls = 4
SYMMETRY Symmetric
INVARIANTS
    TypeOK
    KeyOpensObjects
    RowsInOwnVault
    RowHasObject
    DownloadGivesUpload
    OrphansExplained
    SlugsUnique
    LimitOverrunBounded
    TempFilesAccounted
PROPERTIES
    VaultRemovalSparesDocuments
CHECK_DEADLOCK FALSE

SPECIFICATION FairSpec
CONSTANTS
    u1 = u1
    i1 = i1
    i2 = i2
    d1 = d1
    d2 = d2
    Keyring <- MCKeyring
    HmacSecret = "hmac"
    AcceptV1Hmac = TRUE
    Requests <- MCRequests
    Deliveries = {d1, d2}
    Instances = {i1, i2}
    Users = {u1}
    Skew <- MCSkew
    MaxSkewMs = 2
    MaxDelay = 1
    Spread = 1
    InitialRoles = {"OWNER"}
    LaterRoles = {"MEMBER", "none"}
    MaxChanges = 1
    MaxFaulty = 1
    MaxTime = 5
INVARIANTS
    TypeOK
    AcceptedOnce
    ExecutedIsAuthorised
    SuccessIsRecorded
    OneRowPerRequest
PROPERTIES
    NoncesPruned
CHECK_DEADLOCK FALSE

SPECIFICATION FairSpec
CONSTANTS
    None = None
    Apps = {a1}
    Auths = {q1}
    Codes = {d1}
    Accesses = {x1}
    Refreshes = {}
    Conns = {c1}
    Revokers = {v1}
    MaxApps = 1
    MaxPending = 1
    MaxCodes = 1
    MaxTokens = 1
    MaxRefresh = 1
    PeerIds = {i1, i2}
    Posts = {p1, p2}
    MaxPeers = 1
    Guarded = TRUE
INVARIANTS
    TypeOK
    EveryPlaceOwned
    RevokedNotRecipients
PROPERTIES
    ImplementsLifecycle
    ProbesEnd
    SessionsEnd

SPECIFICATION RegistrySpec
CONSTANTS
    None = None
    Apps = {a1}
    Auths = {q1, q2}
    Codes = {d1, d2}
    Accesses = {x1, x2, x3}
    Refreshes = {f1, f2, f3}
    Conns = {c1, c2}
    Revokers = {v1}
    MaxApps = 1
    MaxPending = 2
    MaxCodes = 2
    MaxTokens = 2
    MaxRefresh = 2
    PeerIds = {i1}
    Posts = {p1}
    MaxPeers = 1
    Guarded = TRUE
SYMMETRY Symmetry
INVARIANTS
    RefreshWithinAccess
    NoResurrection
    RegistrationsSurvive
PROPERTIES
    OthersKeepTheirSessions

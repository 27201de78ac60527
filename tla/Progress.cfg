SPECIFICATION FairSpec
CONSTANTS
    None = None
    Maint = Maint
    Clear = Clear
    Clients = {c1}
    Windows = {w1}
    Workspaces = {}
    Applications = {}
    Tokens = {t1}
    UIs = {u1}
    Calls = {}
    Recorders = {a}
    RequestIds = {r1}
    PickerIds = {}
    LeaseRoom = 1
    MaxRequests = 1
    MaxRecording = 0
    MaxActions = 1
    Commands = {"approve", "revoke_all"}
    Asks <- RequestAsks
PROPERTIES
    CleanupConfirmed
    CommandsReturn
    ExpiryReachesGuard

SPECIFICATION SilentGuardSpec
CONSTANTS
    None = None
    Maint = Maint
    Clear = Clear
    Clients = {c1}
    Windows = {w1}
    Workspaces = {}
    Applications = {}
    Tokens = {t1}
    UIs = {u1}
    Calls = {k1}
    Recorders = {a}
    RequestIds = {}
    PickerIds = {}
    LeaseRoom = 1
    MaxRequests = 0
    MaxRecording = 1
    MaxActions = 2
    Commands = {"pause", "mode", "revoke_all"}
    Asks <- NoAsks
PROPERTIES
    CallsReturn
    CancelledRecordingEnds

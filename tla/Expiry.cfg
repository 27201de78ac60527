SPECIFICATION Spec
CONSTANTS
    None = None
    Maint = Maint
    Clear = Clear
    Windows = {w1}
    Workspaces = {}
    Applications = {}
    Commands = {"approve"}
    Clients = {c1, c2}
    Tokens = {t1, t2}
    UIs = {u1}
    Calls = {}
    Recorders = {}
    RequestIds = {r1, r2}
    PickerIds = {}
    LeaseRoom = 2
    MaxRequests = 2
    MaxRecording = 0
    MaxActions = 1
    Asks <- ControlAsks
PROPERTY
    ClearSparesGrants

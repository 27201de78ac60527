SPECIFICATION ObservationSpec
CONSTANTS
    None = None
    Maint = Maint
    Clear = Clear
    Clients = {c1}
    Windows = {w1}
    Workspaces = {s1, s2}
    Applications = {}
    Tokens = {t1, t2}
    UIs = {u1}
    Calls = {}
    Recorders = {}
    RequestIds = {r1}
    PickerIds = {}
    LeaseRoom = 1
    MaxRequests = 1
    MaxRecording = 0
    MaxActions = 1
    Commands = {"approve", "revoke", "mode"}
    Viewers = {v}
    Asks <- ViewAsks
PROPERTIES
    FramesStayCovered

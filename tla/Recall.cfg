SPECIFICATION Spec
CONSTANTS
    None = None
    Maint = Maint
    Clear = Clear
    Windows = {w1}
    Workspaces = {}
    Applications = {}
    Commands = {"approve", "revoke", "mode"}
    Clients = {c1}
    Tokens = {t1, t2}
    UIs = {u1}
    Calls = {k1}
    Recorders = {}
    RequestIds = {r1}
    PickerIds = {}
    LeaseRoom = 2
    MaxRequests = 1
    MaxRecording = 0
    MaxActions = 1
    Asks <- ControlAsks
SYMMETRY Symmetry
INVARIANT
    ConfirmedRevocationStopsInput

SPECIFICATION Spec
CONSTANTS
    None = None
    Maint = Maint
    Clear = Clear
    Clients = {c1, c2}
    Windows = {w1}
    Workspaces = {}
    Applications = {}
    Tokens = {t1}
    UIs = {u1, u2}
    Calls = {}
    Recorders = {}
    RequestIds = {r1}
    PickerIds = {p1, p2}
    LeaseRoom = 1
    MaxRequests = 1
    MaxRecording = 0
    MaxActions = 1
    Commands = {"approve", "revoke", "deny", "begin_share", "select_share", "cancel_share"}
    Asks <- MixedAsks
SYMMETRY Symmetry
INVARIANTS
    PausedHoldsNothing
    DisconnectedHoldsNothing
PROPERTIES
    OneGrantPerDecision

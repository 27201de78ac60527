SPECIFICATION Spec
CONSTANTS
    None = None
    Maint = Maint
    Clear = Clear
    Clients = {c1}
    Windows = {w1, w2}
    Workspaces = {}
    Applications = {}
    Tokens = {t1, t2}
    UIs = {u1}
    Calls = {k1}
    Recorders = {}
    RequestIds = {r1}
    PickerIds = {}
    LeaseRoom = 2
    MaxRequests = 1
    MaxRecording = 0
    MaxActions = 1
    Commands = {"approve", "revoke", "mode", "pause"}
    Asks <- ControlAsks
SYMMETRY Symmetry
INVARIANTS
    TypeOK
    PauseStopsInput
    RevocationStopsInput
    DeliveryHitsItsWindow
PROPERTIES
    ImplementsContract
    UncertaintyBlocks

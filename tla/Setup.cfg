SPECIFICATION Spec
CONSTANTS
    Pids = {p1, p2}
    Builds = {g1, g2}
    SeatBuilds = {g2}
    Setup = Setup
    Stale = Stale
    None = None
SYMMETRY Symmetric
INVARIANTS
    SocketReachesServer
    SignalsReachBrokers
    SwapsAlone
PROPERTIES
    SuccessIsReal
    ReportsHold

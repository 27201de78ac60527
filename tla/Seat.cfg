SPECIFICATION Spec
CONSTANTS
    None = None
    Windows = {w1}
    Popups = {u1, u2}
    Tokens = {t1, t2}
    Serials = {n1, n2}
    MaxLeases = 2
    MaxSerials = 1
    MaxPopups = 2
SYMMETRY Symmetry
INVARIANTS
    TypeOK
    SeatIsOfALease
    SerialsCurrent
PROPERTIES
    GrabsArePaid
    KeysFollowTheGrab

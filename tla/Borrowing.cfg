SPECIFICATION Spec
CONSTANTS
    None = None
    Surfaces = {s1, s2}
    Keyboards = 2
    MaxChars = 2
    MaxClicks = 2
SYMMETRY Symmetry
INVARIANTS
    TypeOK
    SeatGivenBack
    OnlyTheTarget
    HonestReply
PROPERTIES
    SeatUnmoved

SPECIFICATION Spec
CONSTANTS
    Runs = {g1, g2}
    Chans = {c1, c2}
    Reqs = {q1, q2}
    Pres = {p1}
    QrLimited = TRUE
    Nil = Nil
    Off = Off
SYMMETRY Symmetry
CONSTRAINT OneAccident
INVARIANTS
    MappedHasLoop
    OneClient
    Killable
    
    DeletedIsDown
PROPERTIES
    LostStaysLost
CHECK_DEADLOCK FALSE

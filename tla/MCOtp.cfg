SPECIFICATION Spec
CONSTANTS
    Requests = {r1, r2, r3}
    MaxAttempts = 2
    MaxCodes = 3
    MaxDeaths = 1
CONSTRAINTS OneAccident TwoRegistrations
SYMMETRY Symmetry
INVARIANTS
    GuessesBounded
    ConfirmedCodeStays
    ResetCodeStays
PROPERTIES
    KeepsTheBook
CHECK_DEADLOCK FALSE

SPECIFICATION Spec
CONSTANTS
    Senders = {s1, s2}
    Limits = {0, 1, 2}
    MaxMonth = 2
    MaxDelivered = 3
    MaxResets = 1
SYMMETRY Symmetry
INVARIANTS
    WithinLimit
    NothingFree
    NothingOvercharged

SPECIFICATION Spec
CONSTANTS
    a1 = a1
    a2 = a2
    i1 = i1
    i2 = i2
    i3 = i3
    Accounts = {a1, a2}
    Insts = {i1, i2}
    OwnerOf <- OneEach
    Phones = {p1}
    Reqs = {q1, q2}
    Limit = 1
    MaxCrashes = 0
    Nil = Nil
SYMMETRY SymmetryOfPairs
INVARIANTS
    SharedOnlyByCrossing
    ConflictIsLoggedOut
PROPERTIES
    KeepsTheRegistry
CHECK_DEADLOCK FALSE

SPECIFICATION Spec
CONSTANTS
    a1 = a1
    a2 = a2
    i1 = i1
    i2 = i2
    i3 = i3
    Accounts = {a1}
    Insts = {i1, i2, i3}
    OwnerOf <- AllOfOne
    Phones = {}
    Reqs = {q1, q2}
    Limit = 1
    MaxCrashes = 1
    Nil = Nil
SYMMETRY Symmetry
INVARIANTS
    
    ClientsMatchRows
CHECK_DEADLOCK FALSE

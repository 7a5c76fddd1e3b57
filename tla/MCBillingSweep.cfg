SPECIFICATION Spec
CONSTANTS
    Pays = {t1}
    Subs = {s1, s2}
    Gates = {g1}
    Checks = {k1, k2}
    Insts = {i1, i2}
    Trial = 1
    Year = 1
    MaxNow = 3
    MaxEdits = 1
    MaxCrashes = 1
    Nil = Nil
SYMMETRY Symmetry
INVARIANTS
    LapsedAreSwept
    
CHECK_DEADLOCK FALSE

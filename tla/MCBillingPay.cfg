SPECIFICATION Spec
CONSTANTS
    Pays = {t1, t2, t3}
    Subs = {s1, s2, s3}
    Gates = {g1, g2}
    Checks = {k1}
    Insts = {}
    Trial = 1
    Year = 2
    MaxNow = 5
    MaxEdits = 0
    MaxCrashes = 0
    Nil = Nil
SYMMETRY Symmetry
INVARIANTS
    NoYearLost
    NoYearFree
    PaidMeansPlan
CHECK_DEADLOCK FALSE

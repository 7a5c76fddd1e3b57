SPECIFICATION Spec
CONSTANTS
    Tasks = {t1, t2}
    In = {i1, i2}
    Out = {o1}
    Nobody = Nobody
    MaxTasks = 3
    MaxFaults = 1
    MaxPeriods = 1
CONSTRAINT FewHandlers
SYMMETRY Symmetry
INVARIANTS
    StatusIsLatest
    ReadMeansTold
    LidIsMerged
    CleanedOnce
PROPERTIES
    ReadStays
    ShowsTheLatest
CHECK_DEADLOCK FALSE

SPECIFICATION Spec
CONSTANTS
    Camps = {c1}
    Rcpts = {x1, x2}
    Loops = {l1, l2}
    Reqs = {q1}
    MaxCrashes = 1
    Nil = Nil
SYMMETRY Symmetry
INVARIANTS
    ActiveHasDriver
    AtMostOnce
    CompletedMeansAllAttempted
    AtMostOneLateSend
PROPERTIES
    KeepsPromise
CHECK_DEADLOCK FALSE

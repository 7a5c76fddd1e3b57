SPECIFICATION Spec
CONSTANTS
    Camps = {c1, c2}
    Rcpts = {x1}
    Loops = {l1, l2}
    Reqs = {q1}
    MaxCrashes = 0
    Nil = Nil
SYMMETRY Symmetry
INVARIANTS
    OneActiveCampaign
CHECK_DEADLOCK FALSE

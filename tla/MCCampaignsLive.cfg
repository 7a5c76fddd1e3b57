SPECIFICATION FairSpec
CONSTANTS
    Camps = {c1}
    Rcpts = {x1}
    Loops = {l1, l2}
    Reqs = {q1, q2}
    MaxCrashes = 1
    Nil = Nil
PROPERTIES
    ActiveSettles
CHECK_DEADLOCK FALSE

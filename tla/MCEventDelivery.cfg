SPECIFICATION FairSpec
CONSTANTS
    Tasks = {t1, t2}
    Conns = {c1, c2, c3}
    Subs = {s1, s2}
    MaxRetries = 3
    MaxDials = 3
    HookTries = 2
    Nil = Nil
CONSTRAINT OneSide
INVARIANTS
    
    OneConnection
    ProcessLives
    SubscriberKept

    
CHECK_DEADLOCK FALSE

CONSTANTS
    Threads = {t1, t2}
    MaxLives = 3
SPECIFICATION FairSpec
CHECK_DEADLOCK FALSE
INVARIANTS TypeOK ProxyIsWatched
PROPERTY RequestsReach

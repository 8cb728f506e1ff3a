SPECIFICATION FairSpec
CONSTANTS
    t1 = t1
    t2 = t2
    k1 = k1
    k2 = k2
    Threads = {t1, t2}
    Closers = {k1}
    MaxSize = 1
    None = None
INVARIANTS OneOpenPool NoTornDag NothingEarly ResultIsTrue
PROPERTIES EveryCallEnds
\* Every thread ends its one call.
CHECK_DEADLOCK FALSE

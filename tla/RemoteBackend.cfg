SPECIFICATION FairSpec
CONSTANTS
    c1 = c1
    c2 = c2
    u1 = u1
    Calls = {c1, c2}
    Posts = {c1}
    Unloaders = {u1}
    Attempts = 2
    None = None
INVARIANTS AnswerIsFinal EveryTryIsUsed
PROPERTIES EveryCallEnds
\* Every call ends, and nothing is left to do.
CHECK_DEADLOCK FALSE

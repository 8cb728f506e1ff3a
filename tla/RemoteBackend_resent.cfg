SPECIFICATION FairSpec
CONSTANTS
    c1 = c1
    c2 = c2
    u1 = u1
    Calls = {c1, c2}
    Posts = {c1}
    Unloaders = {}
    Attempts = 2
    None = None
PROPERTIES PostNotResent
CHECK_DEADLOCK FALSE

SPECIFICATION FairSpec
CONSTANTS
    s1 = s1
    s2 = s2
    h1 = h1
    h2 = h2
    Stages = {s1, s2}
    Hashes = {h1, h2}
    Order <- MCOrder
    Call <- MCCall
    Tables = 2
    MaxBlocks = 2
    Null = Null
    Nobody = Nobody
INVARIANTS EnsuredMeansThere StoresJoin
PROPERTIES UnitsAreAtomic
\* A stage ends when its batch is in, or gives up.
CHECK_DEADLOCK FALSE

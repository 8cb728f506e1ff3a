SPECIFICATION Spec
CONSTANTS
    t1 = t1
    t2 = t2
    d1 = d1
    Threads = {t1, t2}
    Contents = {d1}
    Names = {"n1"}
    Ids <- MCIds
    Dims = {"dim1", "dim2"}
SYMMETRY Symmetry
INVARIANTS OutcomeIsTrue RaceIsNotFailure OnePointPerKey RawErrorsExplained

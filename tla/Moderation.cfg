SPECIFICATION FairSpec
CONSTANTS
    NaN = NaN
    Huge = Huge
    Inputs <- MCInputs
    Detections <- MCDetections
    MaxDetections = 2
    MaxEdge = 8
    MinEdge = 4
    MinScore = 2
INVARIANTS TypeOK SentFits NoVerdictNoPass DeletedIffIllegal ExposureIsHighest
PROPERTIES EveryCheckEnds
\* A check ends, and nothing is left to do.
CHECK_DEADLOCK FALSE

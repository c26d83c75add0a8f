SPECIFICATION Spec
CONSTANTS
    Workers = {w1}
    MaxRev = 2
    EmitFails = FALSE
    Errors = FALSE
    Crashes = FALSE
    RedisFails = FALSE
    SlowRecalc = FALSE
INVARIANT ScoreCatchesUp
\* With no request left and no event in the topic the pipeline rests.
CHECK_DEADLOCK FALSE

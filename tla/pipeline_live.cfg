SPECIFICATION FairSpec
CONSTANTS
    Workers = {w1, w2}
    MaxRev = 3
    EmitFails = FALSE
    Errors = FALSE
    Crashes = FALSE
    RedisFails = TRUE
    SlowRecalc = TRUE
PROPERTIES
    EventsFinish
    FreeKeyMeansFresh
\* With no request left and no event in the topic the pipeline rests.
CHECK_DEADLOCK FALSE

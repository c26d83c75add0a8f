SPECIFICATION Spec
CONSTANTS
    Workers = {w1, w2}
    MaxRev = 3
    EmitFails = TRUE
    Errors = TRUE
    Crashes = TRUE
    RedisFails = FALSE
    SlowRecalc = FALSE
SYMMETRY Symmetry
INVARIANTS
    TypeOK
    OneProducer
    NoOverlap
    RecalculatedIsCurrent
    CountDriftBounded
PROPERTY ScoreNeverRegresses
\* With no request left and no event in the topic the pipeline rests.
CHECK_DEADLOCK FALSE

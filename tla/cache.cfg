SPECIFICATION FairSpec
CONSTANTS
    Readers = {r1}
    Writers = {w1}
    Replicas = {d1}
    GuestPages = {}
    UserPages = {p1}
    ListKeys = {l1}
    ScanKeys = {}
    MaxVersions = 3
    Failures = TRUE
    NULL = NULL
INVARIANTS
    TypeOK
    AnsweredMeansSwept
PROPERTY StalenessEnds

SPECIFICATION Spec
CONSTANTS
    Users = {u1, u2}
    Companies = {c1, c2}
    ReportIds = {r1, r2}
    Texts = {t1, t2}
    NULL = NULL
    Requests = {q1, q2}
    MaxPerUser = 2
SYMMETRY Symmetry
INVARIANTS
    TypeOK
    VoteSumAgrees
    VoteReadStable
    NothingDangles
PROPERTIES
    CountFollowsClaims
    Serializable

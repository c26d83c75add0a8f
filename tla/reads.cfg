SPECIFICATION Spec
CONSTANTS
    Users = {u1, u2}
    Companies = {c1, c2}
    ReportIds = {r1, r2}
    Texts = {t1}
    NULL = NULL
    Readers = {q1}
SYMMETRY Symmetry
INVARIANTS
    TypeOK
    PageIsComplete
    ProfileIsComplete
    OwnVoteIsCounted

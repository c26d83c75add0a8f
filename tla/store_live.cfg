SPECIFICATION FairSpec
CONSTANTS
    Users = {u1}
    Companies = {c1}
    ReportIds = {r1, r2}
    Texts = {t1, t2}
    NULL = NULL
    Requests = {q1, q2}
    MaxPerUser = 2
PROPERTY EveryRequestEnds

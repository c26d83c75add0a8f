SPECIFICATION Spec
CONSTANTS
    Users = {u1}
    Companies = {c1}
    ReportIds = {r1}
    Texts = {t1}
    NULL = NULL
    Requests = {q1, q2}
    MaxPerUser = 2
INVARIANT CountAgrees

SPECIFICATION Spec
CONSTANTS
    Requests = {q1, q2}
    Accounts = {a1, a2}
    Users = {u1, u2}
    MaxGrants = 3
    MaxAnswers = 2
    TicksPerSecond = 2
    AccessSeconds = 1
    RedisFails = TRUE
    NULL = NULL
SYMMETRY Symmetry
INVARIANTS
    TypeOK
    OneUserPerAccount
    OneTokenPerLogin
    EndedStaysEnded
    GivenTokenWorks
PROPERTY LoggedOutIsRefused

SPECIFICATION LedgerSpec
CONSTANTS
    Users = {u1, u2}
    Companies = {c1, c2}
    ReportIds = {r1, r2, r3}
    Texts = {t1}
    NULL = NULL
SYMMETRY Symmetry
INVARIANTS
    ScoreIsShownWeight
    RankingPreserved
PROPERTIES
    OneVoteOneStep
    ChallengesOnlySubtract
    WithdrawalIsClean
\* When every id is drawn and withdrawn the ledger has nothing left to do.
CHECK_DEADLOCK FALSE

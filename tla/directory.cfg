SPECIFICATION Spec
CONSTANTS
    Companies = {1, 2, 3}
    Reports = {0, 1, 2, 3}
    Scores = {0, 1}
    PerPages = {1, 2}
    MaxChanges = 2
INVARIANTS
    TypeOK
    NothingTwice
    NothingMissed

SPECIFICATION Spec
CONSTANTS
    None = None
    Sizes = {0, 1, 2, 3, 7, 9, 11}
    r1 = r1
    r2 = r2
    NoId = NoId
    BadId = BadId
    ReqIds = {r1, r2}
    Plans <- MCPlans
    BUFFER = 8
    MAX_SIZE = 10
    Strays = {0, 5, 11}
INVARIANTS PoliteIsHandled AnswersMatch
CHECK_DEADLOCK FALSE

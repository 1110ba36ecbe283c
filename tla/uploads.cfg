SPECIFICATION Spec
CONSTANTS
    Meta = 2
    FileSizes = {0, 1, 2, 3, 5, 6}
    Plans <- MCPlans
    BUFFER = 16
    MAX_SIZE = 5
    Strays = {1, 9}
    None = None
INVARIANTS StoredIsSent
CHECK_DEADLOCK FALSE

SPECIFICATION PoolFairSpec
CONSTANTS
    j1 = j1
    j2 = j2
    j3 = j3
    j4 = j4
    f1 = f1
    f2 = f2
    b1 = b1
    b2 = b2
    b3 = b3
    Nil = Nil
    Sockets = {j1, j2, j3, j4, f1, f2}
    Loops = {"json", "files"}
    LoopOf <- MCLoopOf
    Buckets = {b1, b2, b3}
    First = b1
    Capacity = 3
CHECK_DEADLOCK FALSE
INVARIANT NotOverloaded
PROPERTIES
    CountFollowsUsers
    SortMovesNothing
    AcceptedIsServed

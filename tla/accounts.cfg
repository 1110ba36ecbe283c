SPECIFICATION Spec
CONSTANTS
    a = a
    b = b
    n = n
    m = m
    bad = bad
    empty = empty
    p = p
    q = q
    u = u
    v = v
    None = None
    Handlers = {a, b}
    UserIds = {u, v}
    Names = {n, m, bad, empty}
    Passwords = {p, q}
    Shape <- MCShape
    Requests <- MCRequests
    Plans <- MCPlans
    MaxSession = 4
INVARIANTS SessionsAreLatest NamesIdentify
PROPERTY CredentialsAreIssued

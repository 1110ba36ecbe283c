SPECIFICATION Spec
CONSTANTS
    c1 = c1
    c2 = c2
    c3 = c3
    u1 = u1
    u2 = u2
    u3 = u3
    e1 = e1
    e2 = e2
    None = None
    Conns = {c1, c2, c3}
    Users = {u1, u2}
    Events = {e1}
    Shards = {"s1", "s2"}
    ShardOf <- OneShard
    LoginAs <- AnyLogin
    BindAs <- AnyBind
    Closers = {c1, c2, c3}
    Targets <- Group
    QueueCap = 1
CHECK_DEADLOCK FALSE
INVARIANTS
    RegistryAuthenticated
    CheckStillHolds
    ListedExactlyHome
    SharersStayRegistered
    EntryIsServed
PROPERTIES
    SessionKeepsUser
    PanicsOnlyWhenLeft
    EventReachesRecipient
    BusPromise

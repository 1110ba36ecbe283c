SPECIFICATION FairSpec
CONSTANTS
    c1 = c1
    c2 = c2
    c3 = c3
    u1 = u1
    u2 = u2
    u3 = u3
    e1 = e1
    e2 = e2
    None = None
    Conns = {c1, c2}
    Users = {u1, u2, u3}
    Events = {e1, e2}
    Shards = {"s1", "s2"}
    ShardOf <- LiveShards
    LoginAs <- OneLoginEach
    BindAs <- NoBind
    Closers = {c2}
    Targets <- StaysOrAway
    QueueCap = 1
INVARIANT TypeOK
PROPERTIES
    RequestsAnswered
    EventsSettled
    CleanupsFinish

SPECIFICATION Spec
CONSTANTS
    u = u
    v = v
    cu = cu
    cv = cv
    g = g
    self = self
    None = None
    Users = {u, v}
    Chats = {cu, cv, g}
    EventIdOf <- MCEventIdOf
    Receivers <- MCReceivers
    ShardOf <- MCShardOf
    ChannelSize = 1
    QueueCap = 1
    Plans <- MCPlans
    MaxRequests = 3
INVARIANTS ShownIsWatched
PROPERTIES IndicatorsGoOff DraftsGetThrough
CHECK_DEADLOCK FALSE

SPECIFICATION FairSpec
CONSTANTS
    ReqId = {r1, r2}
    FlowId = {f1, f2}
    SessionId = {s1, s2}
    TicketId = {}
    UserId = {u1}
    Subject = {x1}
    Email = {e1}
    DeviceKey = {k1}
    Channel = {}
    HealthChannel = health
    None = None
    FlowTtl = 1
    GrantTtl = 1
    SessionTtl = 1
    TicketTtl = 1
    MaxClock = 0
    Edits = {}
INVARIANT NoDeadlock
PROPERTIES
    RequestsAnswered
CHECK_DEADLOCK FALSE

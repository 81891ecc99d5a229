SPECIFICATION Spec
CONSTANTS
    ReqId = {r1, r2}
    FlowId = {f1, f2}
    SessionId = {s1, s2}
    TicketId = {t1}
    UserId = {u1}
    Subject = {x1}
    Email = {e1}
    DeviceKey = {k1}
    Channel = {health, events}
    HealthChannel = health
    None = None
    FlowTtl = 1
    GrantTtl = 1
    SessionTtl = 2
    TicketTtl = 1
    MaxClock = 1
    Edits = {"roles"}
SYMMETRY Symmetry
INVARIANTS
    SocketAuthority
PROPERTIES
    EndedLetsNobodyIn
    ImplementsLedger
CHECK_DEADLOCK FALSE

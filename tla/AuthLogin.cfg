SPECIFICATION Spec
CONSTANTS
    ReqId = {r1, r2}
    FlowId = {f1, f2}
    SessionId = {s1, s2}
    TicketId = {}
    UserId = {u1, u2}
    Subject = {x1, x2}
    Email = {e1, e2}
    DeviceKey = {k1}
    Channel = {}
    HealthChannel = health
    None = None
    FlowTtl = 1
    GrantTtl = 1
    SessionTtl = 2
    TicketTtl = 1
    MaxClock = 2
    Edits = {"status"}
SYMMETRY Symmetry
INVARIANTS
    TypeOK
    TokenDisclosedOnce
    OneSessionPerFlow
    SessionIdentity
    IdentityIntegrity
    LoginWindow
    LoginInv
    EndedStayEnded
    EventLedger
PROPERTIES
    RevokedByOwner
CHECK_DEADLOCK FALSE

SPECIFICATION Spec
CONSTANTS
    User = {u1, u2}
    Workspace = {w1, w2}
    One = one
    Row <- Rows
    None = None
SYMMETRY Symmetry
INVARIANT WorkspaceDeletion
PROPERTIES
    TradingRecordsKept
    AuditKept
    AccountDeletion

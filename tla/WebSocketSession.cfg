SPECIFICATION Spec
CONSTANTS
    SubId = {a, b}
    None = None
    MaxSubscriptions = 1
    MaxFrames = 4
INVARIANTS
    SubscriptionLimit
    ClosedForCause
    AnswersInOrder
CHECK_DEADLOCK FALSE

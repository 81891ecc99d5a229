SPECIFICATION LiveSpec
CONSTANTS
    Conn = {c1, c2, c3}
    None = None
    MaxAttempts = 5
INVARIANTS
    SingleChain
    StoppedIsSilent
    StateHonest
    DeniedIsTrue
PROPERTIES
    Settles
    EventuallyQuiet

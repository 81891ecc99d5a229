SPECIFICATION Spec
CONSTANTS
    Task = {k1, k2}
    MaxLogins = 2
    MaxRestarts = 1
INVARIANTS
    ActiveTokenAtRest

SPECIFICATION Spec
CONSTANTS
    k1 = k1
    k2 = k2
    k3 = k3
    Key <- Keys
    KidOf <- Kids
    Login = {l1, l2}
    Production = TRUE
    MaxChanges = 1
    None = None
SYMMETRY Symmetry
INVARIANTS
    OnlySoundEndpoints
PROPERTIES
    KeysAreFresh

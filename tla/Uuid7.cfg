SPECIFICATION Spec
CONSTANTS
    Caller = {c1, c2}
    TimeMod = 3
    HiMod = 2
    LoMod = 2
SYMMETRY Symmetry
INVARIANTS
    MonotonicCalls
    NeverReissued
    Canonical

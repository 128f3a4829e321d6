SPECIFICATION Spec
CONSTANTS
    Models = {m1, m2, m3}
    Calls = {c1, c2, c3, c4}
    NoRunner = NoRunner
    MaxResident = 2
    AutoDownloads = {TRUE, FALSE}
    MayFail = TRUE
CHECK_DEADLOCK FALSE
SYMMETRY Symmetry
INVARIANT ResidencySound

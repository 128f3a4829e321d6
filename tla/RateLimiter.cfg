SPECIFICATION NumberedSpec
CONSTANTS
    Requests = {1, 2, 3, 4, 5, 6, 7}
    Windows = {w1, w2, w3}
    NoWindow = NoWindow
    Limit = 1
    Interval = 1
    Period = 1
    MaxInFlight = 2
    MaxTime = 2
CHECK_DEADLOCK FALSE
SYMMETRY WindowSymmetry
INVARIANT OverrunBounded

SPECIFICATION FairSpec
CONSTANTS
    Entries = {e1, e2, e3, e4}
    Closers = {c1, c2}
    Nothing = Nothing
    Capacity = 2
CHECK_DEADLOCK FALSE
PROPERTIES ImplementsQueue CloseReturns AcceptedIsShipped

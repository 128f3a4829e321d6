SPECIFICATION FairSpec
CONSTANTS
    Frames = {f1, f2}
    Finalizes = {z1}
    Closes = {c1}
    MaxMessages = 3
    Watchdogs = {w1}
    NoTask = NoTask
    Endpointing = 1
    PartialInterval = 2
    MinTranscribe = 1
    MaxSegment = 2
CHECK_DEADLOCK FALSE
INVARIANTS FinalsInOrder
PROPERTIES FinalizeAnswered EndpointFires

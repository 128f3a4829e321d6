SPECIFICATION FairSpec
CONSTANTS
    Streams = {s1}
    Plain = {p1, u1}
    Unclassified = {u1}
    Capacity = 1
    BatchSize = 2
    None = None
CHECK_DEADLOCK FALSE
INVARIANTS TypeOK MeteringSound
PROPERTIES AcceptedIsWritten AbandonedEnds

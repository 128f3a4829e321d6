SPECIFICATION FairSpec
CONSTANTS
    Endpoints <- AllEndpoints
    Audio = {a1}
    Finalizes = {z1}
    Configure = Configure
    CloseStream = CloseStream
    Nothing = Nothing
    MaxEvents <- Events
    Interim = TRUE
    Reordered = FALSE
    MayStall = TRUE
CHECK_DEADLOCK FALSE
INVARIANTS TypeOK UsageExact FlushNotCut CloseAnswered
PROPERTY SessionEnds

SPECIFICATION MCSpec
CONSTANTS
    Turns = {t1, t2, t3, t4, t5, t6}
    Streamed = {t2, t3}
    Chained = {t3, t4, t5, t6}
    Posts = {p1, p2}
    Resent = {p1}
    Lists = {l1}
    Deletes = {d1}
    Items = 2
    MaxDepth = 2
    Limit = 2
    Faults = {"read", "write"}
    Nothing = Nothing
    Scenarios = {{t1, t2, p1}, {t1, t2, d1}, {t1, p1, d1}, {t1, t4, t5},
                 {t3, t4, t5, t6}, {p1, p2, d1, l1}}
    Uploads = {r1, r2}
    CacheSize = 1
CHECK_DEADLOCK FALSE
INVARIANTS TurnOrder HistoryComplete ChainSound ListingComplete LogsRedacted SegmentsKeepWords

SPECIFICATION MCSpec
CONSTANTS
    Nodes = {n1, n2}
    Requests = {r1, r2}
    Voices = {v0, v1, v2}
    Names = {a, b}
    Legacy = v0
    Faults = {"insert", "update", "delete", "list", "write", "remove", "readdir"}
    MaxBoots = 1
    None = None
INVARIANTS TypeOK ListedIsUsable  SweptStayGone VoiceHonoured
SYMMETRY Symmetry
CHECK_DEADLOCK FALSE

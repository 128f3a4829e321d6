SPECIFICATION Spec
CONSTANTS
    r1 = r1
    r2 = r2
    Responses = {r1, r2}
    NoResponse = NoResponse
    Interruptions = TRUE
    ClientEvents = {"response.create", "response.cancel"}
    PatientClient = FALSE
    Disconnects = FALSE
    Observed = {"done.completed", "tool_call"}
    TextModes = {FALSE}
    TurnModes = {"server_vad"}
    MaxHistory = 0
    MaxSentences = 0
    MaxFrames = 0
CHECK_DEADLOCK FALSE
SYMMETRY Symmetry
INVARIANTS TypeOK FlagHasOwner OneAudible LeakBounded CompletedIsRecorded

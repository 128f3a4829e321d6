SPECIFICATION FairSpec
CONSTANTS
    r1 = r1
    r2 = r2
    Responses = {r1, r2}
    NoResponse = NoResponse
    Interruptions = FALSE
    ClientEvents = {"session.update", "response.create", "conversation.item.create"}
    PatientClient = FALSE
    Observed = {"done.completed", "tool_call", "error"}
    Disconnects = TRUE
    TextModes = {FALSE}
    TurnModes = {"server_vad"}
    MaxHistory = 1
    MaxSentences = 1
    MaxFrames = 1
CHECK_DEADLOCK FALSE
INVARIANTS OneInFlight DoneOnce EndIsTold
PROPERTIES UsageComplete TurnEnds

CONSTANTS
    Calls = {c1, c2}
    TurnLimit = 2
    RepeatLimit = 2
    Events = {"HostFails"}
SPECIFICATION QuerySpec
INVARIANTS
    QueryTypeOK
    RequestsArePaired
    NothingOutlivesQuery
    ToolsAreRecorded
    LastTurnIsFinal
PROPERTIES
    MessagesAreInjected
    StopEndsQuery
CHECK_DEADLOCK FALSE

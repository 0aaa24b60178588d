CONSTANTS
    Conns <- MCConns
    Requests <- MCRequests
    MaxSessions = 2
    Scenarios <- MCScenarios
SPECIFICATION SessionSpec
INVARIANTS
    SessionTypeOK
    LiveIsCached
    MemoryIsStored
    RolesConverge
    PauseHasOneAnswerer
PROPERTIES
    UnattendedIsReclaimed
CHECK_DEADLOCK FALSE

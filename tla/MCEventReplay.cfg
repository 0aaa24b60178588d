CONSTANTS
    MaxTurns = 1
    MaxDeltas = 1
    ChildDeltas = 2
    MaxInputs = 2
    Scenarios <- MCScenarios
    Lag = 1
    Channel = 2
SPECIFICATION EventSpec
INVARIANTS
    EventTypeOK
    ShownOnce
    ChildIsShown
    ViewsConverge
CONSTRAINT
    Explored
CHECK_DEADLOCK FALSE

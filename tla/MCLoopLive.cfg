CONSTANTS
    Runs = {r1}
    NoRun = NoRun
    Tasks = {t1}
    Events = {}
    MaxStops = 1
SPECIFICATION LoopSpec
INVARIANTS
    AutoRunStartsClean
    StoredKeepsDelivered
PROPERTIES
    ClosingCompletes
    CompletionsAreDelivered
CHECK_DEADLOCK FALSE

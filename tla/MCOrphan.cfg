CONSTANTS
    Runs = {r1}
    NoRun = NoRun
    Tasks = {t1}
    Events = {"DropSpawn"}
    MaxStops = 1
SPECIFICATION LoopSpec
PROPERTY ClosingCompletes
CHECK_DEADLOCK FALSE

CONSTANTS
    Runs = {r1}
    NoRun = NoRun
    Tasks = {t1}
    Events = {"AutoCompact"}
    MaxStops = 1
SPECIFICATION LoopSpec
INVARIANT StoredKeepsDelivered
CHECK_DEADLOCK FALSE

CONSTANTS
    Runs = {r1}
    NoRun = NoRun
    Tasks = {t1}
    Events = {}
    MaxStops = 1
SPECIFICATION LoopSpec
INVARIANT ExplicitWorkStartsClean
CHECK_DEADLOCK FALSE

CONSTANTS
    Runs = {r1}
    NoRun = NoRun
    Tasks = {t1, t2}
    Events = {"HostFails", "TurnFails", "AutoCompact", "StopCompact", "DropSpawn"}
    MaxStops = 1
SPECIFICATION LoopSafety
SYMMETRY TaskSymmetry
INVARIANTS
    LoopTypeOK
    StoppedIsCancelled
    NotifiedOnce
    PendingIsHeld
    DeliveredIsKept
PROPERTY ImplementsRunAdmission
CHECK_DEADLOCK FALSE

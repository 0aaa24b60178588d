CONSTANTS
    Sends = {"m1"}
    Requests = {"r1", "r2"}
    EchoIds = {"e1"}
    EchoOf <- MCEchoOf
    TextOf <- MCTextOf
    Casts <- MCCasts
    Faults = {"inject", "settle", "finish", "upsert", "panic", "abandon", "crash"}
    MaxFaults = 2
SPECIFICATION TaskSpec
INVARIANTS
    TaskTypeOK
    InjectedOnce
    NothingIsStranded
    CompletedMeansDelivered
PROPERTIES
    FinalStays
    CompletionIsNotified
CHECK_DEADLOCK FALSE

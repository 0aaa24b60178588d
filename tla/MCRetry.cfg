CONSTANTS
    Sends = {"m1"}
    Requests = {"r1", "r2"}
    EchoIds = {"e1"}
    EchoOf <- MCEchoOf
    TextOf <- MCTextOf
    Casts <- MCCasts
    Faults = {}
    MaxFaults = 0
SPECIFICATION TaskSpec
INVARIANT
    RetrySucceeds
CHECK_DEADLOCK FALSE

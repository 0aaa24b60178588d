CONSTANTS
    Runs = {r1, r2}
    NoRun = NoRun
SPECIFICATION AdmissionSpec
INVARIANTS
    AdmissionTypeOK
    ReservationOwnsSlot
    SlotMatchesWork
    ClosedIsVacant
PROPERTIES
    ClosingCompletes
    DeferredIsSettled
    ImplementsAdmission
CHECK_DEADLOCK FALSE

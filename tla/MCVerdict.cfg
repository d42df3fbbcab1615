SPECIFICATION Spec
CONSTANTS
    Expected <- MCExpected
    Repetitions = 2
    Slots <- MCSlots
    Observations <- MCObservations
INVARIANTS
    VerdictSound
    VerdictComplete
    AuditSound
    VerdictGiven
CHECK_DEADLOCK FALSE

SPECIFICATION Spec
CONSTANTS
    Specs <- Editable
    Never = Never
    Jitter = 3
    Ignore = 6
    MaxMissed = 1
    MaxWait = 1
    MaxReconcile = 1
    MaxBackoff = 1
    Horizon = 26
    MaxEdits = 2
    MaxCrashes = 1
CHECK_DEADLOCK FALSE
INVARIANTS
    TypeOK
    WakesForNextSlot
    RemedyWorks
PROPERTIES
    
    SlotNotPutOff
    

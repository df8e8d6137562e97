SPECIFICATION FairSpec
CONSTANTS
    Names = {a}
    Workers = {w1, w2}
    None = None
    Absent = Absent
    MaxLen = 3
    MaxUid = 2
    MaxFaults = 2
INVARIANTS
    TypeOK
    FinalizerProtects
    
PROPERTIES
    
    ImplementsLife
    DeletionEnds
    OutcomeIsRead
\* With no Cleaner left, and none to create within the bounds, nothing happens.
CHECK_DEADLOCK FALSE

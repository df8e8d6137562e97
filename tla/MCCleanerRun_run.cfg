SPECIFICATION FairSpec
CONSTANTS
    Resources = {p, q}
    Specs <- MCSpecs
    Absent = Absent
    MaxVersion = 2
    MaxRuns = 2
CHECK_DEADLOCK FALSE
INVARIANTS
    TypeOK
    
    CleanRunIsComplete
    ReportIsCurrent
    ActedIsAnnounced
    
PROPERTIES
    
    RunReturns

SPECIFICATION FairSpec
CONSTANTS
    Cleaners = {a, b, c}
    Deletable = {}
    Workers = {w1, w2}
    None = None
    MaxLen = 4
INVARIANTS
    InProgressIsRunning
PROPERTIES
    NoStarvation
    EveryRunEnds
    ImplementsRunQueue

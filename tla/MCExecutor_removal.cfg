SPECIFICATION Spec
CONSTANTS
    Cleaners = {a, b, c}
    Deletable = {a}
    Workers = {w1, w2}
    None = None
    MaxLen = 3
INVARIANTS
    TypeOK
    
    
    RunsAreTracked
    UnavailableIsIdle
PROPERTIES
    ImplementsSafety

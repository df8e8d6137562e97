SPECIFICATION Spec
CONSTANTS
    Cleaners = {a}
    Deletable = {}
    Workers = {w1, w2}
    None = None
    MaxLen = 3
INVARIANTS
    NoParallelRuns

SPECIFICATION Spec
CONSTANTS
    Cleaners = {a, b}
    Deletable = {a}
    Workers = {w1, w2}
    None = None
    MaxLen = 3
INVARIANTS
    ReleasedWhenDone

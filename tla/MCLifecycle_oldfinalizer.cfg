SPECIFICATION FairSpec
CONSTANTS
    Names = {a}
    Workers = {w1}
    None = None
    Absent = Absent
    MaxLen = 3
    MaxUid = 1
    MaxFaults = 0
PROPERTIES
    OldFinalizerRemoved
\* With no Cleaner left, and none to create within the bounds, nothing happens.
CHECK_DEADLOCK FALSE

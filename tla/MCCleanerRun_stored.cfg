SPECIFICATION Spec
CONSTANTS
    Resources = {p}
    Specs <- MCDelete
    Absent = Absent
    MaxVersion = 1
    MaxRuns = 1
CHECK_DEADLOCK FALSE
INVARIANTS
    StoredBeforeAction

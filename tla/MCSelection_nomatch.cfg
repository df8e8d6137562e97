SPECIFICATION Spec
CONSTANTS
    Namespaces = {n1, n2}
    Names = {a}
    Values = {"x", "y"}
    Absent = Absent
    Filters <- MCFilters
    MaxChanges = 2
CHECK_DEADLOCK FALSE
INVARIANTS
    NamespaceSelectorRespected

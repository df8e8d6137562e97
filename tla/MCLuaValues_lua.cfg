SPECIFICATION Spec
CONSTANTS
    Contents <- MCContents
    Exact <- MCExact
    MaxEdits = 1
INVARIANTS
    TypeOK
    UnusedIsUnused
    GoodScriptsPass
PROPERTIES
    PortableIsKept
    ErosionStops

SPECIFICATION Spec
CONSTANTS
    Launch = {l1, l2}
    Port = {p1}
    PORT_RETRIES = 2
    Other = Other
    None = None
SYMMETRY Symmetry
INVARIANTS
    NothingAdrift
    ShutdownReachesAll
    NothingOutlivesTheTui
PROPERTIES
    StraysHadExited

SPECIFICATION Spec
CONSTANTS
    Helper = {h1, h2}
    Leader = Leader
    Capacity = 1
    COMMAND_TIMEOUT = 3
    EXIT_GRACE = 2
    READER_GRACE = 1
    Never = Never
CHECK_DEADLOCK FALSE
INVARIANTS
    OkIsWhole
    NothingLeftInTheGroup
    OpenOnlyIfEscaped
    ExitedInTimeIsOk
PROPERTIES
    PromiseSpec

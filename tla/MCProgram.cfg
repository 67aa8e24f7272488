SPECIFICATION Spec
CONSTANTS
    MaxHandOffs = 2
    MaxFaults = 1
    MaxStarts = 2
CHECK_DEADLOCK FALSE
INVARIANTS
    TuiIsItself
    TerminalRestored
    HardExitOnlyRepeated
    NoChildLeft
    KeysSurvive
PROPERTIES
    TerminateEnds

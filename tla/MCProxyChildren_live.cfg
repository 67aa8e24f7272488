SPECIFICATION Spec
CONSTANTS
    Launch = {l1}
    Port = {p1, p2}
    PORT_RETRIES = 3
    Other = Other
    None = None
PROPERTIES
    LaunchIsAnswered
    StopReturns

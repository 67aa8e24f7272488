SPECIFICATION Spec
CONSTANTS
    Worker = {w1, w2}
    MaxJobs = 3
    MaxBumps = 1
    None = None
INVARIANTS
    NotOvertaken
    NoJobLeftWaiting
PROPERTIES
    ServiceSpec
    EveryJobEnds
    WorkersExit

SPECIFICATION Spec
CONSTANTS
    Proxy = {p1, p2}
    Name = {root, leaf}
    Root = root
    Thread = {t1, t2}
    FormProxy = {}
    MaxActs = 3
    Follow = {"scoped", "stream", "clusters", "switched"}
    None = None
SYMMETRY Symmetry
INVARIANTS
    TypeOK
    WorkKeepsToItsProxy
    LockedRowsAreTheirClusters
    LeafOnlyUnderLock
    ViewFollowsTheSwitch

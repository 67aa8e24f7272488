SPECIFICATION Spec
CONSTANTS
    Proxy = {p1, p2}
    Name = {root, leaf}
    Root = root
    Thread = {t1, t2}
    FormProxy = {}
    MaxActs = 2
    Follow = {"clusters", "switched"}
    None = None
PROPERTIES
    SwitchIsAnswered
    ThreadsEnd

SPECIFICATION Spec
CONSTANTS
    ScopedTab = {ssh}
    AdminTab = {users}
    Home = ssh
    Cluster = {root, leaf}
    Root = root
    MaxActs = 3
    None = None
INVARIANTS
    LoadingIsAnswered
    
    AggregateIsComplete
    
    NothingOfAnOlderProfile

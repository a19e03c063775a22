SPECIFICATION HandlersSpec
CONSTANTS
    Topics = {ch}
    NoTopic = none
    Channels = {ch}
    Tasks = {k1, k2}
    CmdCapacity = 3
    MaxRefs = 3
    MaxDebounce = 3
    MaxDisconnects = 0
    Conns = {c1}
    SubIds = {s1}
    Evictors = {e1}
    MaxSubs = 1
    MaxReqs = 2
    MaxEvictions = 0
INVARIANTS ClosedIsUnrouted
CHECK_DEADLOCK FALSE
SYMMETRY Interchangeable

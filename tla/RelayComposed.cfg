SPECIFICATION FairLifeSpec
CONSTANTS
    Topics = {ch}
    NoTopic = none
    Channels = {ch}
    Tasks = {k1, k2}
    CmdCapacity = 1
    MaxRefs = 2
    MaxDebounce = 2
    MaxDisconnects = 1
    Conns = {c1}
    SubIds = {s1}
    Evictors = {e1}
    MaxSubs = 2
    MaxReqs = 2
    MaxEvictions = 0
INVARIANTS TypeOK RetainedIsCovered ViewsAgree RefcountCoversRouted RoutedIsCovered
PROPERTIES RetainedIsDelivered ReqIsAnswered
CHECK_DEADLOCK FALSE

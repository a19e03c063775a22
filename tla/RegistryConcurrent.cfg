SPECIFICATION HistSpec
CONSTANTS
    Workers = {w1, w2}
    Conns = {c1, c2}
    SubIds = {s1, s2}
    CommunityOf <- OneCommunity
    Communities = {m1, m2}
    Requests <- EveryIndex
    Events <- EveryScope
    MaxOps = 4
    Overlapping = FALSE
    Kinds = {k1, k2}
    People = {p1, p2}
    Rooms = {r1, r2}
    HValues <- MCHValues
    ParseRoom <- MCParseRoom
    ShowRoom <- MCShowRoom
    Global = Global
    Absent = Absent
    NoEntry = NoEntry
    NoKey = NoKey
    k1 = k1
    k2 = k2
    p1 = p1
    p2 = p2
    r1 = r1
    r2 = r2
    c1 = c1
    c2 = c2
    m1 = m1
    m2 = m2
INVARIANTS
    IndexedIsRegistered
    ScopingInvariant
    DueIsFound
PROPERTIES
    OnlyPurgeUnfiles
CHECK_DEADLOCK FALSE
SYMMETRY Interchangeable

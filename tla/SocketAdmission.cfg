SPECIFICATION FairAdmSpec
CONSTANTS
    Pods = {p1, p2}
    Sockets = {s1}
    Communities = {c1}
    PodOf <- OnePod
    CommunityOf <- OneTenant
    MaxConns = 1
    MaxEras = 2
    MaxArchives = 2
    p1 = p1
    p2 = p2
    s1 = s1
    c1 = c1
INVARIANTS
    AdmTypeOK
    AdmissionInvariant
    DrainInvariant
PROPERTIES
    ArchivedIsClosed

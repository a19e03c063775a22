SPECIFICATION FairModSpec
CONSTANTS
    boss = boss
    user = user
    Keys = {boss, user}
    NoKey = NoKey
    OwnerOf <- MCOwnerOf
    Role <- MCRole
    here = here
    Pods = {here, there}
    PodOf <- MCPodOf
    Sockets = {s1}
    Commands = {c1, c2}
    Writes = {w1}
    MaxCommands = 2
INVARIANTS ModTypeOK RestrictionsHold SurvivorIsExplained ReportClosedOnce
PROPERTIES BansSettle

SPECIFICATION ReadingSpec
CONSTANTS
    Handlers = {"h1"}
    Notices = {"ban"}
    Restart = "restart"
    SendBuffer = 1
    CtrlCapacity = 1
    MaxBatch = 2
    GraceLimit = 1
    PongLimit = 2
INVARIANTS
    TaskTypeOK
    NoticeBeforeClose
PROPERTIES
    CancelledIsCleaned
    SilentIsCleaned
    SlotIsFreed

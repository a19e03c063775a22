SPECIFICATION FairQueueSpec
CONSTANTS
    Channels = {c1, c2}
    NoChannel = NoChannel
    Agents = {a1, a2}
    DedupModes = {"Queue", "Drop"}
    ModeGate = {"none"}
    Controls = {"Cancel"}
    CreatedAt <- ReplayedFirst
    MAX_PENDING_PER_CHANNEL = 2
    MAX_BATCH_EVENTS = 1
    MAX_RETRIES = 1
    Heartbeats = FALSE
    Lapsing = {}
    MaxEvents = 2
    MaxControls = 2
    MaxDown = 1
    c1 = c1
    c2 = c2
    a1 = a1
    a2 = a2
INVARIANTS
    QueueTypeOK
    NoSilentLoss
PROPERTIES
    EventSettles
CHECK_DEADLOCK FALSE

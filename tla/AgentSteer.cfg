SPECIFICATION QueueSpec
CONSTANTS
    Channels = {c1}
    NoChannel = NoChannel
    Agents = {a1, a2}
    DedupModes = {"Queue"}
    ModeGate = {"Steer"}
    Controls = {"Cancel"}
    CreatedAt <- ReplayedFirst
    MAX_PENDING_PER_CHANNEL = 2
    MAX_BATCH_EVENTS = 2
    MAX_RETRIES = 1
    Heartbeats = TRUE
    Lapsing = {c1}
    MaxEvents = 3
    MaxControls = 0
    MaxDown = 1
    c1 = c1
    a1 = a1
    a2 = a2
INVARIANTS
    SettledOnce
    OneTurnPerChannel
    NoOrphanedSteer
PROPERTIES
    LostIsMerged
CHECK_DEADLOCK FALSE
SYMMETRY AgentSymmetry

SPECIFICATION QueueSpec
CONSTANTS
    Channels = {c1, c2}
    NoChannel = NoChannel
    Agents = {a1}
    DedupModes = {"Queue"}
    ModeGate = {"Steer"}
    Controls = {"Cancel"}
    CreatedAt <- ReplayedFirst
    MAX_PENDING_PER_CHANNEL = 2
    MAX_BATCH_EVENTS = 1
    MAX_RETRIES = 1
    Heartbeats = FALSE
    Lapsing = {}
    MaxEvents = 3
    MaxControls = 1
    MaxDown = 0
    c1 = c1
    c2 = c2
    a1 = a1
INVARIANTS
    NoSilentLoss
CHECK_DEADLOCK FALSE

SPECIFICATION SpecRivals
SYMMETRY NodeSymmetry
INVARIANTS ElectionSafety
CHECK_DEADLOCK FALSE
CONSTANTS
    Node = {n1, n2, n3, n4}
    InitialMembers = {n1, n2, n3, n4}
    Command = {}
    None = None
    ConfigChanges = {}
    SnapshotThreshold = 10
    LogCapacity = 10
    ElectionTimeout = 0
    HeartbeatTimeout = 0
    LeaseDuration = 0
    MaxTerm = 1
    MaxLog = 2
    MaxInFlight = 6
    MaxTimeouts = 0
    MaxHeartbeats = 0
    MaxRestarts = 0
    MaxDuplicates = 2

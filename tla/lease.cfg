SPECIFICATION SpecElected
SYMMETRY NodeSymmetry
INVARIANTS LeaseReadsAreCurrent
CHECK_DEADLOCK FALSE
CONSTANTS
    Node = {n1, n2, n3}
    InitialMembers = {n1, n2, n3}
    Command = {x}
    None = None
    ConfigChanges = {}
    SnapshotThreshold = 10
    LogCapacity = 10
    ElectionTimeout = 2
    HeartbeatTimeout = 1
    LeaseDuration = 1
    MaxTerm = 2
    MaxLog = 2
    MaxInFlight = 2
    MaxTimeouts = 1
    MaxHeartbeats = 0
    MaxRestarts = 0
    MaxDuplicates = 0

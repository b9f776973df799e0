SPECIFICATION Spec
SYMMETRY NodeSymmetry
INVARIANTS TypeOK ElectionSafety VotesAccounted
PROPERTY VotesAreKept
CHECK_DEADLOCK FALSE
CONSTANTS
    Node = {n1, n2, n3}
    InitialMembers = {n1, n2, n3}
    Command = {}
    None = None
    ConfigChanges = {}
    SnapshotThreshold = 10
    LogCapacity = 10
    ElectionTimeout = 0
    HeartbeatTimeout = 0
    LeaseDuration = 0
    MaxTerm = 2
    MaxLog = 0
    MaxInFlight = 3
    MaxTimeouts = 2
    MaxHeartbeats = 0
    MaxRestarts = 1
    MaxDuplicates = 0

SPECIFICATION SpecElected
SYMMETRY NodeSymmetry
INVARIANT CommittedOnMajority
CHECK_DEADLOCK FALSE
CONSTANTS
    Node = {n1, n2, n3}
    InitialMembers = {n1, n2, n3}
    Command = {x}
    None = None
    SnapshotThreshold = 10
    LogCapacity = 10
    ElectionTimeout = 0
    HeartbeatTimeout = 0
    LeaseDuration = 0
    MaxTerm = 2
    MaxLog = 1
    ChannelSize = 4
    MaxTimeouts = 1
    MaxHeartbeats = 1

SPECIFICATION SpecStable
INVARIANTS OkMeansCommitted ReadsSeeAckedWrites
PROPERTIES CommandsAreCommitted CallsReturn ShutdownStops
CONSTANTS
    n1 = n1  n2 = n2  n3 = n3
    Node <- MCNode
    InitialMembers <- MCNode
    FirstNode = n1
    Command = {x, y}
    None = None
    SnapshotThreshold = 10
    LogCapacity = 10
    ElectionTimeout = 3
    HeartbeatTimeout = 1
    LeaseDuration = 2
    MaxTerm = 1
    MaxLog = 2
    ChannelSize = 4
    RequestSize = 1
    MaxRetries = 3
    ClientTimeout = 2
    MaxReads = 1

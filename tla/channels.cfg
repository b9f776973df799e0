SPECIFICATION SpecElected
SYMMETRY Symmetry
INVARIANTS TypeOK StateMachineSafety CommittedOnMajority LogMatching AppliedIsPresent
           CommitsAreAccounted
PROPERTIES CommittedEntriesStay ImplementsNetwork
CHECK_DEADLOCK FALSE
CONSTANTS
    Node = {n1, n2, n3}
    InitialMembers = {n1, n2, n3}
    Command = {x, y}
    None = None
    SnapshotThreshold = 1
    LogCapacity = 10
    ElectionTimeout = 0
    HeartbeatTimeout = 0
    LeaseDuration = 0
    MaxTerm = 1
    MaxLog = 2
    ChannelSize = 2
    MaxTimeouts = 1
    MaxHeartbeats = 1

SPECIFICATION SpecMembership
SYMMETRY StayingSymmetry
INVARIANTS ConfigurationAgreement StateMachineSafety OneIsFollowed
CHECK_DEADLOCK FALSE
CONSTANTS
    Node = {n1, n2, n3, n4}
    InitialMembers = {n1, n2, n3}
    Joining = n4
    Leaving = n3
    ConfigChanges <- Changes
    Command = {x}
    None = None
    SnapshotThreshold = 10
    LogCapacity = 10
    ElectionTimeout = 0
    HeartbeatTimeout = 0
    LeaseDuration = 0
    MaxTerm = 1
    MaxLog = 2
    MaxInFlight = 2
    MaxTimeouts = 0
    MaxHeartbeats = 1
    MaxRestarts = 1
    MaxDuplicates = 1

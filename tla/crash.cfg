CONSTANTS
    n1 = n1  n2 = n2  a = a  b = b  c = c  u = u  v = v
    Node <- MCNode
    Self = n1
    None = None
    Key <- MCKey
    Value <- MCValue
    Malformed = Malformed
    NoText = NoText
    MapCapacity = 2
    SnapshotCapacity = 8
    ConfigChange = {}
    Committed <- MCCommitted
    Stray <- MCStray
    SnapshotThreshold = 2
    SnapshotCrashes = FALSE
    TornWrites = FALSE
    MaxTerm = 3
    MaxCrashes = 2
SPECIFICATION Spec
INVARIANT CommittedEntriesSurvive
CHECK_DEADLOCK FALSE

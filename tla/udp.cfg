CONSTANTS
    n1 = n1  n2 = n2  n3 = n3  x = x
    Node <- MCNode
    Nothing = Nothing
    Broadcast = Broadcast
    ChannelSize = 1
    BusSize = 2
    SocketSize = 1
    MaxEntries = 3
    MaxChunk = 1
    MaxPayload = 2
    Sends <- MCSends
SPECIFICATION Spec
INVARIANT NoLostWakeup
PROPERTIES EverythingSettles ImplementsLossyLink
CHECK_DEADLOCK FALSE

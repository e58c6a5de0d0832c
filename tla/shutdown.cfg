SPECIFICATION ServicesSpec
CONSTANTS
    Keys = {favicon, document}
    KeepsFailure = {document}
    Callers = {c1, c2}
    TTL = 2
    MaxFetch = 1
    MaxTime = 3
    Streams = {s1, s2}
    Publishers = {p1, p2}
    BufferSize = 1
    MaxEvents = 3
    Senders = {q1, q2}
    KeysCount = 3
    MaxRetries = 2
    MaxUses = 9
    ChannelRoom = 2
    Chats = {default}
    MaxRequests = 3
    Connections = {k1, k2}
INVARIANT ShutdownIsGraceful
CHECK_DEADLOCK FALSE

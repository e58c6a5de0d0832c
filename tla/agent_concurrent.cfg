SPECIFICATION FairSpec
CONSTANTS
    Chats = {a}
    KeepRecent = 0
    Clients = {c1, c2}
    Updaters = {u}
    None = None
    Modes = {"chat", "stream"}
    InputChoices <- ConcurrentInputs
    Replies <- SmallReplies
    MaxIterations = 1
    MaxTurns = 2
INVARIANTS
    HandoffPending
    LockConsistent
PROPERTIES
    RespondsUnlessCycle
CHECK_DEADLOCK FALSE

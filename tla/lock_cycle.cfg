SPECIFICATION Spec
CONSTANTS
    Chats = {a}
    KeepRecent = 1
    Clients = {c1}
    Updaters = {u}
    None = None
    Modes = {"chat"}
    InputChoices <- SmallInputs
    Replies <- SmallReplies
    MaxIterations = 2
    MaxTurns = 2
INVARIANT NoLockCycle
CHECK_DEADLOCK FALSE

SPECIFICATION Spec
CONSTANTS
    Chats = {a, b}
    KeepRecent = 20
    Clients = {c1, c2}
    Updaters = {}
    None = None
    Modes = {"chat"}
    InputChoices <- GreetingOnly
    Replies <- SmallReplies
    MaxIterations = 1
    MaxTurns = 2
INVARIANT SessionIsolation
CHECK_DEADLOCK FALSE

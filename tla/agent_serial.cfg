SPECIFICATION FairSpec
CONSTANTS
    Chats = {a, b}
    KeepRecent = 1
    Clients = {c1}
    Updaters = {}
    None = None
    Modes = {"chat", "stream"}
    InputChoices <- SerialInputs
    Replies <- SerialReplies
    MaxIterations = 2
    MaxTurns = 2
INVARIANTS
    TypeOK
    SessionIsolation
    ToolCallsAnswered
    RequiredToolsInSavedChat
    OneReplyStreamed
PROPERTIES
    ServiceSpec
    Responds

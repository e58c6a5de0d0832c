SPECIFICATION Spec
CONSTANTS
    Callers = {c1, c2}
    Queries <- Spellings
    Names <- Lowered
    Normal <- LowerAndTrim
    Idle = Idle
    MaxSize = 2
    MaxCalls = 3
INVARIANTS
    RightAnswer

SPECIFICATION Spec
CONSTANTS
    Ids = {a, b, d}
    Clients = {c1, c2}
    MaxSessions = 2
    MaxAge = 0
    MaxTurns = 4
    MaxTime = 1
INVARIANTS
    TypeOK
    OwnCopies
    AllOrNothing
PROPERTIES
    ImplementsSessionTable

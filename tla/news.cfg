SPECIFICATION Spec
CONSTANTS
    sp500 = sp500
    apple = apple
    visa = visa
    Readers = {r1, r2}
    Dates = {today}
    WorldStockTabDefs <- MCTabs
    SP500 = sp500
    CacheTTL = 1
    MaxBuild = 1
    MaxTime = 2
INVARIANTS
    TypeOK
    TabsInOrder
PROPERTIES
    EveryReaderAnswered
    ImplementsReadThrough
CHECK_DEADLOCK FALSE

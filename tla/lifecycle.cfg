CONSTANTS
    w1 = w1 w2 = w2
    Workers <- TwoWorkers
    MaxStarts = 2
    Faults = {"init", "thread", "select"}
SPECIFICATION FairSpec
INVARIANTS
    TypeOK
    ListsLiveInSection
    CounterExact
    SocketFileExplained
PROPERTIES
    StopEndsProcess
    ExitEndsProcess

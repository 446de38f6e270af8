CONSTANTS
    Clients = {"a", "b"}
    Retrievers = {"a"}
    OBJ_NUMBER = 2
SPECIFICATION Spec
INVARIANTS
    PassedHaveNoFailure
    OperationsCounted
    FailuresExplained

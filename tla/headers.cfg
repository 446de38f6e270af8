CONSTANTS
    Names = {"n", "long"}
    LongNames = {"long"}
    Bytes = {"x"}
    Decimal <- Digits
    Lengths <- OneLength
    MaxText = 5
    MaxData = 3
SPECIFICATION Spec
CHECK_DEADLOCK FALSE
INVARIANTS
    RequestsUnderstood
    ResponsesUnderstood
    

CONSTANTS
    Names = {"n", "o"}
    LongNames = {}
    Objects = {"o"}
    Absent = Absent
    Elsewhere = Elsewhere
    Faults = {"open", "fstat", "read", "write", "opendir", "unlink"}
    Decimal <- Digits
    Blocks <- MixedBlocks
    BufferSize = 9
    ResponseSize = 8
    SizeModulus = 16
    MaxCalls = 4
SPECIFICATION Spec
INVARIANTS
    StoredIsSent
    RetrievedIsStored
    FitsBlock
    InStep
    NeverBothWait
    RetrieveEnds

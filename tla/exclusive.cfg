CONSTANTS
    u1 = u1 u2 = u2 o1 = o1 a = a b = b c1 = c1 c2 = c2
    NoUser = NoUser NoObject = NoObject NoValue = NoValue
    NoInode = NoInode Hole = Hole
    Users <- TwoUsers
    Objects <- OneObject
    Values <- TwoValues
    Size <- Sizes
    Conns <- TwoConns
    MaxRequests = 2
    MaxLeftovers = 0
    MaxRestarts = 0
    Discipline = "exclusive"
    Faults = {"open"}
    Spelled <- SessionRequests
SPECIFICATION Spec
SYMMETRY Symmetry
INVARIANTS
    ServedIsOnline
    AccountingExact
    NoPartialObject
    NoGlobalFailure
    QuiescentAtExit
PROPERTIES
    AckMeansDone
    RetrieveReturnsObject
    NeverRefused

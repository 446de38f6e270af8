CONSTANTS
    u1 = u1 u2 = u2 o1 = o1 a = a b = b c1 = c1 c2 = c2
    NoUser = NoUser NoObject = NoObject NoValue = NoValue
    NoInode = NoInode Hole = Hole NoAnswer = NoAnswer Damaged = Damaged
    Users <- TwoUsers
    Objects <- OneObject
    Values <- OneValue
    Size <- OneSize
    Conns <- TwoConns
    MaxRequests = 1
    MaxLeftovers = 1
    MaxRestarts = 1
    Discipline = "exclusive"
    Faults = {"open"}
    Spelled <- SessionRequests
SPECIFICATION Spec
SYMMETRY Symmetry
INVARIANTS
    AccountingExact
PROPERTIES
    ImplementsObjectStore

CONSTANTS
    u1 = u1 u2 = u2 o1 = o1 a = a b = b c1 = c1 c2 = c2
    NoUser = NoUser NoObject = NoObject NoValue = NoValue
    NoInode = NoInode Hole = Hole
    Users <- OneUser
    Objects <- NoObjects
    Values <- OneValue
    Size <- OneSize
    Conns <- TwoConns
    MaxRequests = 1
    MaxLeftovers = 0
    MaxRestarts = 0
    Discipline = "sequential"
    Faults = {}
    Spelled <- Nothing
SPECIFICATION Spec
SYMMETRY Symmetry
INVARIANT NoGlobalFailure

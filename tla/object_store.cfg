CONSTANTS
    u1 = u1 u2 = u2 o1 = o1 a = a b = b c1 = c1 c2 = c2
    NoUser = NoUser NoObject = NoObject NoValue = NoValue
    NoInode = NoInode Hole = Hole NoAnswer = NoAnswer Damaged = Damaged
    Users <- OneUser
    Objects <- OneObject
    Values <- TwoValues
    Size <- Sizes
    Conns <- TwoConns
    MaxRequests = 2
    MaxLeftovers = 1
    MaxRestarts = 1
    Discipline = "exclusive"
    Faults = {"pthread_create", "mkdir_user", "opendir", "open", "fstat", "read"}
    Spelled <- SessionRequests
SPECIFICATION Spec
SYMMETRY Symmetry
PROPERTIES
    AckMeansDone
    ImplementsObjectStore

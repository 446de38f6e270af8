CONSTANTS
    u1 = u1 u2 = u2 o1 = o1 a = a b = b c1 = c1 c2 = c2
    NoUser = NoUser NoObject = NoObject NoValue = NoValue
    NoInode = NoInode Hole = Hole
    Users <- TwoUsers
    Objects <- OneObject
    Values <- OneValue
    Size <- OneSize
    Conns <- TwoConns
    MaxRequests = 1
    MaxLeftovers = 1
    MaxRestarts = 0
    Discipline = "any"
    Faults = {"pthread_create", "select", "mkdir_store", "mkdir_user", "opendir", "open", "fstat", "read", "write", "unlink"}
    Spelled <- ListRequests
SPECIFICATION Spec
SYMMETRY Symmetry
INVARIANTS
    TypeOK
    WorkersCounted
    CountersMatchLists
    NoGhostOnline

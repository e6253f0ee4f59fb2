SPECIFICATION Spec
CONSTANTS
    Ids = {i1, i2}
    Names = {Root, a}
    Root = Root
    None = None
    Attempts = 2
    Workers = {w1, w2}
    Uses = {"register", "ldap", "create", "decide", "remove", "role", "login", "restart"}
    a = a
    b = b
    i1 = i1
    i2 = i2
    i3 = i3
    i4 = i4
    w1 = w1
    w2 = w2
SYMMETRY Symmetry
INVARIANTS
    UndecidedStaysOut
    LockedInTime
PROPERTIES
    DecidedOnce
    AdministratorRemains
CHECK_DEADLOCK FALSE

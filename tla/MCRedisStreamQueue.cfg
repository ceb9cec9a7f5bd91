CONSTANTS
    Pops = {p1, p2, p3}
    None = None
    MaxMessages = 3
    Attempts = 1
    Expire = 2
SPECIFICATION FairSpec
INVARIANT
    TypeOK
PROPERTIES
    InOrder
    Implements
    LockFrees
CHECK_DEADLOCK FALSE

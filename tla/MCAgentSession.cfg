CONSTANTS
    Senders = {s1, s2}
    Joiners = {}
    Stops = {p1}
    MaxEvents = 0
    MaxRestarts = 0
    ChatMode = FALSE
    SingleConnection = FALSE
    None = None
SPECIFICATION Spec
SYMMETRY Symmetry
INVARIANTS
    TypeOK
    RunningIsAttended
    RegisteredIsUnfinished
    OwnTaskAnswered
CHECK_DEADLOCK FALSE

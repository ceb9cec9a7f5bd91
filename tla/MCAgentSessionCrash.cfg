CONSTANTS
    Senders = {s1}
    Joiners = {j1}
    Stops = {p1}
    MaxEvents = 0
    MaxRestarts = 1
    ChatMode = FALSE
    SingleConnection = FALSE
    None = None
SPECIFICATION FairSpec
PROPERTIES
    StopFrees
CHECK_DEADLOCK FALSE

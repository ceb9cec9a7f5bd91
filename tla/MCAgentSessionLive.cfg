CONSTANTS
    Senders = {s1, s2}
    Joiners = {j1}
    Stops = {}
    MaxEvents = 0
    MaxRestarts = 0
    ChatMode = FALSE
    SingleConnection = TRUE
    None = None
SPECIFICATION FairSpec
INVARIANTS
    OneExecutionPerTask
PROPERTIES
    StreamsEnd
    SessionSettles
CHECK_DEADLOCK FALSE

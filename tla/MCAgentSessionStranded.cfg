CONSTANTS
    Senders = {s1, s2}
    Joiners = {}
    Stops = {}
    MaxEvents = 0
    MaxRestarts = 0
    ChatMode = FALSE
    SingleConnection = TRUE
    None = None
SPECIFICATION Spec
INVARIANTS
    MessagesForwarded
CHECK_DEADLOCK FALSE

CONSTANTS
    Senders = {s1, s2}
    Joiners = {}
    Stops = {p1}
    MaxEvents = 1
    MaxRestarts = 0
    ChatMode = TRUE
    SingleConnection = TRUE
    None = None
SPECIFICATION Spec
SYMMETRY Symmetry
INVARIANTS
    PromptHasMessage
CHECK_DEADLOCK FALSE

CONSTANTS
    Admins = {a1, a2}
    Readers = {}
    TTL = 2
    MaxClock = 0
    NoModel = NoModel
SPECIFICATION RegistrySpec
PROPERTY
    KeyKept
CHECK_DEADLOCK FALSE

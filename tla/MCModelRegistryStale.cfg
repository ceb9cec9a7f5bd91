CONSTANTS
    Admins = {a1}
    Readers = {l1}
    TTL = 2
    MaxClock = 1
    NoModel = NoModel
SPECIFICATION RegistrySpec
INVARIANT
    EditsImmediate
CHECK_DEADLOCK FALSE

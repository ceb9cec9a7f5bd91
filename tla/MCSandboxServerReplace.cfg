CONSTANTS
    MaxMinutes = 3
    DefaultMinutes = 2
    Edits = {e1, e2}
    Files = {f1, f2}
    LongFiles = {f1}
    NoFile = NoFile
SPECIFICATION SandboxSpec
INVARIANTS
    ReplaceKeepsRest
CHECK_DEADLOCK FALSE

CONSTANTS
    Runs = {r1, r2, r3}
    Cancels = {c1, c2}
    None = None
    OneCaller = TRUE
SPECIFICATION FairSpec
INVARIANTS
    TypeOK
    OneExecution
    DoneMeansDone
    NoStaleCancel
    ActiveHasJob
PROPERTY
    CancelTakes
CHECK_DEADLOCK FALSE

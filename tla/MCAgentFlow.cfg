CONSTANTS
    MaxMessages = 2
    MaxSteps = 2
    MaxIds = 3
    MaxBatch = 2
    MaxIterations = 2
    MaxNudges = 1
SPECIFICATION FairFlowSpec
INVARIANTS
    BrokenOnlyIfCut
    AnswerReachesAsker
    StepOnce
    SummaryComesLast
PROPERTIES
    LoopEnds
CHECK_DEADLOCK FALSE

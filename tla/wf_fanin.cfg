\* wf_fanin
SPECIFICATION FairSpec
CONSTANTS
    A = A
    B = B
    C = C
    h1 = h1
    h2 = h2
    r1 = r1
    r2 = r2
    Steps <- FanInSteps
    Edges <- FanInEdges
    MaxAttempts <- FanInAttempts
    Lanes = {1}
    BatchSize = 3
    MaxParallel = 2
    Handlers = {}
    Replayers = {r1}
    MaxReplays = 1
    Detached = FALSE
    Promotion = FALSE
    Crashes = TRUE
    Errors = TRUE
\* A process ends: its run may stop.
CHECK_DEADLOCK FALSE
INVARIANTS
    NoLostWakeup
PROPERTIES
    RetriesEnd

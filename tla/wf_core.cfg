\* wf_core
SPECIFICATION Spec
CONSTANTS
    A = A
    B = B
    C = C
    h1 = h1
    h2 = h2
    r1 = r1
    r2 = r2
    Steps <- ChainSteps
    Edges <- ChainEdges
    MaxAttempts <- OneThenTwo
    Lanes = {1, 2}
    BatchSize = 2
    MaxParallel = 2
    Handlers = {h1}
    Replayers = {r1}
    MaxReplays = 1
    Detached = FALSE
    Promotion = TRUE
    Crashes = TRUE
    Errors = TRUE
\* A process ends: its run may stop.
CHECK_DEADLOCK FALSE
INVARIANTS
    TypeOK
    ExclusiveExecution
    RetryBudget
    DeadLettered
    NoOrphan
PROPERTIES
    CompletedNeverRerun
    ImplementsQueue

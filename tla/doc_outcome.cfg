\* doc_outcome
SPECIFICATION Spec
CONSTANTS
    A = A
    B = B
    C = C
    h1 = h1
    h2 = h2
    r1 = r1
    r2 = r2
    Steps <- One
    Edges <- NoEdges
    MaxAttempts <- OneAttemptA
    Lanes = {1}
    BatchSize = 1
    MaxParallel = 1
    Handlers = {}
    Replayers = {}
    MaxReplays = 0
    Detached = TRUE
    Promotion = FALSE
    Crashes = FALSE
    Errors = FALSE
\* A process ends: its run may stop.
CHECK_DEADLOCK FALSE
INVARIANTS
    OutcomeStored

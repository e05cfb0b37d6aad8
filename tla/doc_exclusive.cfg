\* doc_exclusive
SPECIFICATION Spec
CONSTANTS
    A = A
    B = B
    C = C
    h1 = h1
    h2 = h2
    r1 = r1
    r2 = r2
    Steps <- One
    Edges <- NoEdges
    MaxAttempts <- OneAttemptA
    Lanes = {1, 2}
    BatchSize = 1
    MaxParallel = 2
    Handlers = {}
    Replayers = {r1, r2}
    MaxReplays = 1
    Detached = FALSE
    Promotion = FALSE
    Crashes = FALSE
    Errors = FALSE
\* A process ends: its run may stop.
CHECK_DEADLOCK FALSE
INVARIANTS
    ExclusiveExecution

\* doc_upstreams
SPECIFICATION Spec
CONSTANTS
    A = A
    B = B
    C = C
    h1 = h1
    h2 = h2
    r1 = r1
    r2 = r2
    Steps <- ChainSteps
    Edges <- ChainEdges
    MaxAttempts <- TwoAttempts
    Lanes = {1}
    BatchSize = 2
    MaxParallel = 2
    Handlers = {}
    Replayers = {}
    MaxReplays = 0
    Detached = TRUE
    Promotion = FALSE
    Crashes = FALSE
    Errors = FALSE
\* A process ends: its run may stop.
CHECK_DEADLOCK FALSE
INVARIANTS
    UpstreamsFirst

\* Every list of at most four edges over three nodes.
SPECIFICATION Spec
CONSTANTS
    a = a
    b = b
    c = c
    MaxEdges = 4
    Nodes <- Three
    EdgeLists <- AllEdgeLists
\* The algorithm ends.
CHECK_DEADLOCK FALSE
INVARIANTS
    TypeOK
    VerdictRight
    OrderFollowsEdges

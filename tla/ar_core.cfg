\* Two loops and two marking requests on one run.
SPECIFICATION FairSpec
CONSTANTS
    l1 = l1
    l2 = l2
    c1 = c1
    c2 = c2
    Loops = {l1, l2}
    Clerks = {c1, c2}
    MaxSteps = 2
\* A run ends: nothing need happen after it.
CHECK_DEADLOCK FALSE
INVARIANTS
    TypeOK
    NoZombie
PROPERTIES
    RunEnds

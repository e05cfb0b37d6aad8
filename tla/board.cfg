\* Three tasks, two overlapping transitions, one dependency added at a time.
SPECIFICATION Spec
CONSTANTS
    t1 = t1
    t2 = t2
    t3 = t3
    e1 = e1
    e2 = e2
    d1 = d1
    d2 = d2
    Tasks = {t1, t2, t3}
    Editors = {e1, e2}
    Linkers = {d1}
SYMMETRY Symmetry
INVARIANTS
    TypeOK
    DoneIsStamped
    DependenciesAcyclic
    SomeTaskCanStart

CONSTANTS
    Pids = {p1, p2, p3}
    Statuses = {0}
    NoPid = NoPid
    MaxJobId = 3
    ChildMax = 1
SPECIFICATION Spec
CONSTRAINT Bound
SYMMETRY Symmetric
INVARIANTS TypeOK IndexConsistent RecomputedAlways MarkersPointToJobs

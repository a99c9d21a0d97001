\* Two goroutines of one process, serialized by operationMu.
SPECIFICATION Spec
CONSTANTS
    Procs = {g1, g2}
    Data = {d1, d2, d3}
    Absent = Absent
    Irregular = Irregular
    Serialized = TRUE
INVARIANTS
    NothingLost
PROPERTY
    RegisterSpec

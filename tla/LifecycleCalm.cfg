SPECIFICATION Spec
CONSTANTS
    Invocations = {p1, p2, p3, p4}
    Commands = {"create", "start", "stop", "destroy", "health"}
    RunnerNames = {r1}
    ForeignNames = {guest}
    Host = Host
    Nobody = Nobody
    Open = {}
    MayFail = FALSE
    MayDie = TRUE
SYMMETRY Symmetry
CHECK_DEADLOCK FALSE
INVARIANT QuietConsistent
INVARIANT CalmIInv
PROPERTY KeepsStorageOrder

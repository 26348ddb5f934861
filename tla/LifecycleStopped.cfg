SPECIFICATION Spec
CONSTANTS
    Invocations = {p1, p2, p3}
    Commands = {"create", "destroy", "health"}
    RunnerNames = {r1, r2}
    ForeignNames = {guest}
    Host = Host
    Nobody = Nobody
    Open = {}
    MayFail = FALSE
    MayDie = FALSE
SYMMETRY Symmetry
CHECK_DEADLOCK FALSE
PROPERTY DeletesOnlyStopped

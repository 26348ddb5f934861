SPECIFICATION Spec
CONSTANTS
    Invocations = {p1, p2, p3}
    Commands = {"create", "start", "stop", "destroy", "health"}
    RunnerNames = {r1, r2}
    ForeignNames = {guest}
    Host = Host
    Nobody = Nobody
    Open = {r1, r2, guest}
    MayFail = TRUE
    MayDie = TRUE
SYMMETRY Symmetry
CHECK_DEADLOCK FALSE
INVARIANT IInv
INVARIANT NoSilentLeak
INVARIANT DestroyedStorageIsGone
PROPERTY OnlyOwnStorage
PROPERTY KeepsStorageOrder
PROPERTY KeepsPromise

SPECIFICATION Spec
CONSTANTS
    Invocations = {p1, p2, p3}
    Nobody = Nobody
    Downloads = {"good", "bad"}
    MayFail = TRUE
    MayDie = TRUE
SYMMETRY Symmetry
CHECK_DEADLOCK FALSE
INVARIANT BadImageTraced
INVARIANT PartialToolsTraced
INVARIANT PoolUsable
INVARIANT RaceHasWinner
INVARIANT CacheIInv
PROPERTY OnlyMakerDiscards
PROPERTY KeepsCache

SPECIFICATION Spec
CONSTANTS
    Invocations = {p1, p2, p3}
    Nobody = Nobody
    Downloads = {"good", "bad"}
    MayFail = FALSE
    MayDie = FALSE
SYMMETRY Symmetry
CHECK_DEADLOCK FALSE
PROPERTY DeliveredIsVerified

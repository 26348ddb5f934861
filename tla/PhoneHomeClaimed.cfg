SPECIFICATION Spec
CONSTANTS
    Runners = {r1, r2}
    Ports = {v1}
    NoPort = NoPort
    MaxAttempts = 2
    Open = {r1}
CHECK_DEADLOCK FALSE
INVARIANT ReadyHasReported

SPECIFICATION Spec
CONSTANTS
    Machines = {m1}
    Runners = {m1}
    MaxChecks = 3
CHECK_DEADLOCK FALSE
INVARIANT HealthCheckCovers
INVARIANT HealthIInv
PROPERTY StoppedGoesQuiet
PROPERTY HealthCheckEnds
PROPERTY Recovered
PROPERTY Converges

SPECIFICATION Spec
CONSTANTS
    Machines = {r1, h1}
    Runners = {r1}
    MaxChecks = 2
CHECK_DEADLOCK FALSE
PROPERTY RestartsOnlyRunners

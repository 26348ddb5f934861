SPECIFICATION Spec
CONSTANTS
    Commands <- MCCommands
    TokenLife = 4
    DownloadTime = 2
    WaitTime = 1
    MaxEvents = 3
CHECK_DEADLOCK FALSE
INVARIANT ProvisionIInv
INVARIANT ReadyMeansServing
INVARIANT RefusedMeansCold
INVARIANT OnlyAgeFails
PROPERTY CreateEnds
PROPERTY RetryHeals
PROPERTY KeepsCache

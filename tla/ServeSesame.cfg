\* A replica with leader election that serves from its resource caches, elected at any time or never.
SPECIFICATION FairSpec
CONSTANTS
    e1 = e1
    e2 = e2
    Envoys <- MCEnvoys
    InitialObjects = 2
    MaxChanges = 3
    ServerType = "sesame"
    LeaderElection = TRUE
    StaticStatusAddress = TRUE
INVARIANTS
    TypeOK
    RebuildWithinMaxDelay
PROPERTIES
    StartupCompletes
    LeaderEnvoysConverge
    ShutdownCompletes

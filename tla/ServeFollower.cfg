\* The Envoys of a replica that is not elected.
SPECIFICATION FairSpec
CONSTANTS
    e1 = e1
    e2 = e2
    Envoys <- MCEnvoys
    InitialObjects = 2
    MaxChanges = 1
    ServerType = "sesame"
    LeaderElection = TRUE
    StaticStatusAddress = TRUE
PROPERTIES
    EnvoysConverge

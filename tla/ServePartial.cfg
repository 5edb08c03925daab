\* What an Envoy may be sent right after the informers have synced.
SPECIFICATION Spec
CONSTANTS
    e1 = e1
    e2 = e2
    Envoys <- MCEnvoys
    InitialObjects = 2
    MaxChanges = 2
    ServerType = "sesame"
    LeaderElection = FALSE
    StaticStatusAddress = FALSE
INVARIANTS
    NeverServesPartialConfiguration

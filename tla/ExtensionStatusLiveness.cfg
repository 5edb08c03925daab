\* Convergence of the status when leadership is handed over on shutdown or
\* taken from a leader that outlives its lease and goes on writing.
SPECIFICATION FairSpec
CONSTANTS
    r1 = r1
    r2 = r2
    o1 = o1
    o2 = o2
    NoLeader = NoLeader
    Replicas <- MCReplicas
    Objects <- OneObject
    MaxGeneration = 2
    MaxDepChanges = 1
    MaxRestarts = 1
    MaxRecreates = 0
    MaxPending = 1
    StaleLeaders = TRUE
CHECK_DEADLOCK FALSE
INVARIANTS
    TrueOnlyOfAValidSpec
PROPERTIES
    StatusConverges

\* An object deleted and created again while an update for it is on its way.
SPECIFICATION Spec
CONSTANTS
    r1 = r1
    r2 = r2
    o1 = o1
    o2 = o2
    NoLeader = NoLeader
    Replicas <- MCReplicas
    Objects <- OneObject
    MaxGeneration = 2
    MaxDepChanges = 0
    MaxRestarts = 0
    MaxRecreates = 1
    MaxPending = 2
    StaleLeaders = FALSE
SYMMETRY ReplicaSymmetry
CHECK_DEADLOCK FALSE
INVARIANTS
    StatusNeverAheadOfObject

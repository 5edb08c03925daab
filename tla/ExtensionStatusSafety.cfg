\* Safety of the status path with leaders that outlive their lease and
\* objects that are deleted and created again.
SPECIFICATION Spec
CONSTANTS
    r1 = r1
    r2 = r2
    o1 = o1
    o2 = o2
    NoLeader = NoLeader
    Replicas <- MCReplicas
    Objects <- OneObject
    MaxGeneration = 2
    MaxDepChanges = 0
    MaxRestarts = 1
    MaxRecreates = 1
    MaxPending = 1
    StaleLeaders = TRUE
SYMMETRY ReplicaSymmetry
INVARIANTS
    TypeOK
CHECK_DEADLOCK FALSE
PROPERTIES
    ImplementsStatusRegister

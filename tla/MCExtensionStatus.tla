-------------------------- MODULE MCExtensionStatus --------------------------
(***************************************************************************)
(* ExtensionStatus for TLC: two replicas (the default of a deployment),    *)
(* and the symmetry of the replicas for the runs that check safety only.   *)
(***************************************************************************)
EXTENDS ExtensionStatus, TLC

CONSTANTS r1, r2, o1, o2

MCReplicas == {r1, r2}

OneObject  == {o1}
TwoObjects == {o1, o2}

ReplicaSymmetry == Permutations(MCReplicas)

=============================================================================

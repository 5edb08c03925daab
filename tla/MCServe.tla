------------------------------ MODULE MCServe ------------------------------
(***************************************************************************)
(* Serve for TLC: two Envoys, two objects in the cluster at start (so that *)
(* an object cache can hold part of them) and two later changes.           *)
(***************************************************************************)
EXTENDS Serve

CONSTANTS e1, e2

MCEnvoys == {e1, e2}

=============================================================================

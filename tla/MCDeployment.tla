---------------------------- MODULE MCDeployment ----------------------------
(***************************************************************************)
(* Deployment for TLC: a suite of each kind.  Two tests are what it takes  *)
(* for a call to meet what the test before left in the struct and in the   *)
(* cluster.                                                                *)
(***************************************************************************)
EXTENDS Deployment

MCSuites == {"local", "incluster", "upgrade"}

MCTests == 2
=============================================================================

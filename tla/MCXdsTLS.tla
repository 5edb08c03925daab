------------------------------ MODULE MCXdsTLS ------------------------------
(***************************************************************************)
(* XdsTLS for TLC: two proxies, one rotation of the certificate and one of *)
(* the CA.                                                                 *)
(***************************************************************************)
EXTENDS XdsTLS

CONSTANTS e1, e2

MCEnvoys == {e1, e2}

=============================================================================

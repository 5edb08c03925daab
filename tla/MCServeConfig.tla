--------------------------- MODULE MCServeConfig ---------------------------
(***************************************************************************)
(* ServeConfig for TLC: one flag of each kind registerServe binds, the     *)
(* fields of the file that reach NewServer, the informers or the builder,  *)
(* two namespaces and two SesameConfiguration resources.                   *)
(***************************************************************************)
EXTENDS ServeConfig

CONSTANTS n1, n2

MCNamespaces == {n1, n2}

\* A flag with a default bound to ctx.Config, one without, one with an
\* environment variable, and the context flags doServe and NewServer read.
MCFlags ==
    {"leader-election-lease-duration", "debug", "sesame-cafile",
     "root-namespaces", "disable-leader-election"}

MCFileFields ==
    {"leader-election-lease-duration", "debug", "Policy.ApplyToIngress",
     "TLS.FallbackCertificate", "TLS.ClientCertificate", "Server.XDSServerType"}

\* A resource that restricts the namespaces and names certificates in
\* others, and one that restricts nothing.
MCResources ==
    {[RootNamespaces |-> <<n1>>, FallbackCertificate |-> n2,
      ClientCertificate |-> n2, ApplyToIngress |-> TRUE,
      Gateway |-> TRUE, Metrics |-> "default", XDSServerType |-> "sesame"],
     [RootNamespaces |-> <<>>, FallbackCertificate |-> NoCert,
      ClientCertificate |-> n1, ApplyToIngress |-> FALSE,
      Gateway |-> FALSE, Metrics |-> "default", XDSServerType |-> "envoy"]}
=============================================================================
